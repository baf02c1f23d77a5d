-------------------------- MODULE EngineLifecycleProofs --------------------------
(***************************************************************************)
(* WorkflowEngine implements RunLifecycle, on any store and with crashes,   *)
(* if a client learns the run's ID from StartWorkflow only.  A client that  *)
(* finds the run with ListRuns may write CANCELLED before the run is in     *)
(* activeRuns, or during a synchronous run; then it does not.               *)
(***************************************************************************)
EXTENDS EngineRunProofs

\* The executor is no more.
Gone == {"returned", "crashed"}

\* The executor has written RUNNING and not yet a terminal status.
Executing == AtLevel \cup {"complete", "fail", "cancel"}

\* The stored run is that of the executor, up to progress not written.
StoredRun ==
  /\ pc \in {"create", "rejected"} <=> dbRun.status = "ABSENT"
  /\ pc \in {"create", "rejected"} => dbRun = NoRun
  /\ pc \in {"create", "register", "begin"} => run = NewRun
  /\ pc \in {"register", "begin"} => dbRun = NewRun
  /\ pc \in Executing =>
       dbRun.status = "RUNNING" /\ dbRun.progress =< run.progress /\ run.progress =< completed

\* A background run is registered while its executor lives.
Registered ==
  ~Synchronous /\ pc \notin {"create", "register", "rejected"} \cup Gone => active

\* A client goes to the store only when the executor is gone, and what it
\* writes is what is stored, but for the status.
ClientsWait ==
  \A c \in Cancellers :
    /\ cpc[c] \in {"get", "write"} => pc \in Gone
    /\ cpc[c] = "write" =>
         /\ copy[c].status \in {"PENDING", "RUNNING"}
         /\ dbRun.status \in {copy[c].status, "CANCELLED"}
         /\ dbRun.progress = copy[c].progress

\* The handler was entered once per attempt.
CallsCounted ==
  \A s \in Steps :
    /\ job[s] \in {"idle", "create", "attempt", "retrying", "backoff", "running"}
         => calls[s] = attempt[s]
    /\ job[s] \in {"retrying", "backoff", "running"} => attempt[s] =< MaxRetries[s]
    /\ job[s] = "executing" => calls[s] = attempt[s] + 1

LifeInv == StoredRun /\ Registered /\ ClientsWait /\ CallsCounted

-----------------------------------------------------------------------------
(* The stored run *)

\* While the executor lives, clients write nothing.
LEMMA ClientsQuiet ==
  ASSUME TypeOK, ClientsWait,
         (\E c \in Cancellers : Client(c)) \/ CallerCancels \/ Done \/ UNCHANGED vars
  PROVE  \/ dbRun' = dbRun
         \/ pc \in Gone /\ dbRun'.status = "CANCELLED" /\ dbRun'.progress = dbRun.progress
<1>1. ASSUME NEW c \in Cancellers, CancelWrite(c), dbRun' # dbRun
      PROVE  pc \in Gone /\ dbRun'.status = "CANCELLED" /\ dbRun'.progress = dbRun.progress
  BY <1>1 DEF CancelWrite, ClientsWait, TypeOK, ClientType, Run
<1>2. QED
  BY <1>1 DEF Client, CancelSignal, CancelRead, CallerCancels, Done, vars, storeVars

\* Every step of the system keeps StoredRun.
LEMMA StoredRunStep ==
  ASSUME TypeOK, Control, StoredRun, ClientsWait, [Next]_vars
  PROVE  StoredRun'
<1> USE DEF StoredRun, AtLevel, Executing, Gone
<1>0. run \in Run /\ dbRun \in Run /\ completed \in Nat
  BY StepSets DEF TypeOK, EngineType, StoreType
<1>1. CASE Outside
  <2>1. CASE CreateRun
    <3>1. /\ pc = "create" /\ run' = run
          /\ \/ pc' = "rejected" /\ dbRun' = dbRun
             \/ pc' \in {"begin", "register"} /\ dbRun' = run
      BY <2>1 DEF CreateRun, PersistRun
    <3>2. QED
      BY <3>1 DEF NewRun
  <2>2. CASE Register
    BY <2>2 DEF Register, storeVars
  <2>3. CASE Begin
    <3>1. /\ pc = "begin" /\ run = NewRun /\ dbRun = NewRun /\ completed = 0
          /\ run' = [run EXCEPT !.status = "RUNNING"] /\ completed' = completed
          /\ \/ pc' = "level" /\ dbRun' = run'
             \/ pc' = "exit" /\ dbRun' = dbRun
      BY <2>3 DEF Begin, PersistRun, Control, Progressed, NotStarted
    <3>2. QED
      BY <3>1 DEF NewRun
  <2>4. CASE EnterLevel \/ Verdict
    BY <2>4 DEF EnterLevel, Verdict, storeVars
  <2>5. CASE SingleDone
    <3>1. /\ pc = "await" /\ dbRun' = dbRun
          /\ \/ pc' \in {"cancel", "fail"} /\ run' = run /\ completed' = completed
             \/ /\ pc' = "report" /\ completed' = completed + 1
                /\ run'.progress = completed'
      BY <1>0, <2>5 DEF SingleDone, storeVars, WithResult, Run
    <3>2. QED
      BY <1>0, <3>1 DEF Run
  <2>6. CASE Collect
    <3>1. /\ pc = "collect" /\ dbRun' = dbRun /\ pc' \in {"collect", "report"}
          /\ completed' = completed + 1
          /\ run'.progress \in {completed', run.progress}
      BY <1>0, <2>6 DEF Collect, storeVars, WithResult, Run
    <3>2. QED
      BY <1>0, <3>1 DEF Run
  <2>7. CASE Report
    <3>1. /\ pc = "report" /\ run' = run /\ completed' = completed
          /\ dbRun' \in {run, dbRun} /\ run.status = "RUNNING"
          /\ pc' \in {"verdict", "complete", "level"}
      BY <2>7 DEF Report, PersistRun, Control, Statuses
    <3>2. QED
      BY <1>0, <3>1 DEF Run
  <2>8. CASE End
    <3>1. CASE Exit
      BY <3>1 DEF Exit, storeVars
    <3>2. CASE CompleteWorkflow \/ FailWorkflow \/ CancelWorkflow
      <4>1. /\ pc \in Executing /\ pc' = "exit"
            /\ run'.status \in {"COMPLETED", "FAILED", "CANCELLED"} /\ dbRun' \in {run', dbRun}
        BY <1>0, <3>2
        DEF CompleteWorkflow, FailWorkflow, CancelWorkflow, Finish, PersistRun, Run
      <4>2. QED
        BY <4>1
    <3>3. QED
      BY <2>8, <3>1, <3>2 DEF End
  <2>9. CASE (\E c \in Cancellers : Client(c)) \/ CallerCancels \/ Done \/ UNCHANGED vars
    <3>1. UNCHANGED <<pc, run, completed>>
      BY <2>9, ClientFrame DEF engineVars
    <3>2. \/ dbRun' = dbRun
          \/ pc \in Gone /\ dbRun'.status = "CANCELLED"
      BY <2>9, ClientsQuiet
    <3>3. QED
      BY <3>1, <3>2
  <2>10. QED
    BY <1>1, <2>1, <2>2, <2>3, <2>4, <2>5, <2>6, <2>7, <2>8, <2>9 DEF Outside, Start
<1>2. CASE Launching
  <2>1. /\ pc \in {"resolve", "launch"} /\ pc' \in {"await", "fail", "launch", "collect"}
        /\ UNCHANGED <<run, dbRun, completed>>
    BY <1>2 DEF Launching, RunSingle, LaunchParallel
  <2>2. QED
    BY <2>1
<1>3. ASSUME NEW s \in Steps, StepAction(s) \/ Return(s)
      PROVE  StoredRun'
  BY <1>3, StepActionFrame, ReturnFrame DEF engineVars, storeVars
<1>4. CASE Crash
  BY <1>4 DEF Crash, storeVars
<1>5. QED
  BY <1>1, <1>2, <1>3, <1>4, StepKinds

-----------------------------------------------------------------------------
(* The clients *)

\* Every step of the system keeps Registered: the run leaves activeRuns with
\* the last step of its goroutine.
LEMMA RegisteredStep ==
  ASSUME TypeOK, Control, Quiet, Registered, [Next]_vars
  PROVE  Registered'
<1> USE DEF Registered, Gone, ctxVars
<1>1. CASE Outside
  <2>1. CASE Start \/ Begin \/ EnterLevel
    BY <2>1 DEF Start, CreateRun, Register, Begin, EnterLevel
  <2>2. CASE SingleDone \/ Collect \/ Report \/ Verdict
    BY <2>2 DEF SingleDone, Collect, Report, Verdict
  <2>3. CASE End
    BY <2>3 DEF End, CompleteWorkflow, FailWorkflow, CancelWorkflow, Finish, Exit
  <2>4. CASE (\E c \in Cancellers : Client(c)) \/ CallerCancels \/ Done \/ UNCHANGED vars
    BY <2>4, ClientFrame
    DEF engineVars, Client, CancelSignal, CancelRead, CancelWrite, CallerCancels, Done, vars
  <2>5. QED
    BY <1>1, <2>1, <2>2, <2>3, <2>4 DEF Outside
<1>2. CASE Launching
  BY <1>2 DEF Launching, RunSingle, LaunchParallel
<1>3. ASSUME NEW s \in Steps, StepAction(s) \/ Return(s)
      PROVE  Registered'
  BY <1>3, StepActionFrame, ReturnFrame DEF engineVars
<1>4. CASE Crash
  BY <1>4 DEF Crash
<1>5. QED
  BY <1>1, <1>2, <1>3, <1>4, StepKinds

\* Where no client is touched and the executor, if gone, stays so, ClientsWait
\* asks only for the stored run.
LEMMA ClientsWaitFrame ==
  ASSUME ClientsWait, UNCHANGED clientVars, pc \notin Gone \/ (pc' \in Gone /\ dbRun' = dbRun)
  PROVE  ClientsWait'
BY DEF ClientsWait, clientVars

\* Every step of the system keeps ClientsWait: a run that is not registered
\* has no executor any more.
LEMMA ClientsWaitStep ==
  ASSUME ~ListsRuns, TypeOK, Control, Quiet, StoredRun, Registered, ClientsWait, [Next]_vars
  PROVE  ClientsWait'
<1>1. ASSUME NEW c \in Cancellers, Client(c)
      PROVE  ClientsWait'
  <2> USE DEF TypeOK, ClientType
  <2>1. UNCHANGED pc
    BY <1>1, ClientFrame DEF engineVars
  <2>2. CASE CancelSignal(c)
    <3>1. /\ UNCHANGED <<dbRun, copy>>
          /\ \A d \in Cancellers : d # c => cpc'[d] = cpc[d]
          /\ cpc'[c] = IF active THEN "signalled" ELSE "get"
      BY <2>2 DEF CancelSignal, Finished, storeVars
    <3>2. ~active => pc \in Gone
      BY <2>2 DEF CancelSignal, KnowsRun, Registered, Gone
    <3>3. QED
      BY <2>1, <3>1, <3>2 DEF ClientsWait
  <2>3. CASE CancelRead(c)
    <3>1. /\ UNCHANGED dbRun /\ pc \in Gone
          /\ \A d \in Cancellers : d # c => cpc'[d] = cpc[d] /\ copy'[d] = copy[d]
          /\ \/ cpc'[c] \in {"error", "refused"}
             \/ cpc'[c] = "write" /\ copy'[c] = dbRun /\ dbRun.status \notin TerminalRun
      BY <2>3 DEF CancelRead, Finished, ClientsWait
    <3>2. dbRun.status # "ABSENT" /\ dbRun.status \in RunStatus \cup {"ABSENT"}
      BY <3>1 DEF StoredRun, Gone, StoreType, Run
    <3>3. dbRun.status \notin TerminalRun => dbRun.status \in {"PENDING", "RUNNING"}
      BY <3>2 DEF RunStatus, TerminalRun
    <3>4. QED
      BY <2>1, <3>1, <3>3 DEF ClientsWait
  <2>4. CASE CancelWrite(c)
    <3>1. /\ pc \in Gone /\ UNCHANGED copy
          /\ \A d \in Cancellers : d # c => cpc'[d] = cpc[d]
          /\ cpc'[c] \in {"error", "cancelled"}
      BY <2>4 DEF CancelWrite, Finished, ClientsWait
    <3>2. \/ dbRun' = dbRun
          \/ dbRun'.status = "CANCELLED" /\ dbRun'.progress = dbRun.progress
      BY <1>1, ClientsQuiet
    <3>3. QED
      BY <2>1, <3>1, <3>2 DEF ClientsWait
  <2>5. QED
    BY <1>1, <2>2, <2>3, <2>4 DEF Client
<1>2. CASE CallerCancels \/ Done \/ UNCHANGED vars
  BY <1>2 DEF CallerCancels, Done, vars, engineVars, storeVars, clientVars, ClientsWait
<1>3. CASE Executor
  <2>1. UNCHANGED clientVars /\ pc \notin Gone
    <3>1. CASE Start \/ Begin \/ EnterLevel \/ Sequential \/ Parallel
      BY <3>1 DEF Start, CreateRun, Register, Begin, EnterLevel, Sequential, RunSingle,
         SingleDone, Parallel, LaunchParallel, Collect, Gone
    <3>2. CASE Report \/ Verdict \/ End
      BY <3>2 DEF Report, Verdict, End, CompleteWorkflow, FailWorkflow, CancelWorkflow,
         Finish, Exit, Gone
    <3>3. QED
      BY <1>3, <3>1, <3>2 DEF Executor
  <2>2. QED
    BY <2>1, ClientsWaitFrame
<1>4. ASSUME NEW s \in Steps, StepAction(s) \/ Return(s)
      PROVE  ClientsWait'
  <2>1. UNCHANGED <<pc, dbRun, clientVars>>
    BY <1>4, StepActionFrame, ReturnFrame DEF engineVars, storeVars
  <2>2. QED
    BY <2>1, ClientsWaitFrame
<1>5. CASE Crash
  <2>1. UNCHANGED clientVars /\ pc' \in Gone /\ UNCHANGED dbRun
    BY <1>5 DEF Crash, storeVars, Gone
  <2>2. QED
    BY <2>1, ClientsWaitFrame
<1>6. QED
  BY <1>1, <1>2, <1>3, <1>4, <1>5 DEF Next, Goroutine

-----------------------------------------------------------------------------
(* The calls of the handlers *)

\* Every step of the system keeps CallsCounted.
LEMMA CallsCountedStep ==
  ASSUME TypeOK, Control, CallsCounted, [Next]_vars
  PROVE  CallsCounted'
<1> USE DEF CallsCounted
<1>1. CASE Outside
  BY <1>1, OutsideFrame
<1>2. CASE Launching
  <2>1. PICK s \in Steps, in \in Inputs, isFirst \in BOOLEAN : Launches(s, in, isFirst)
    BY <1>2, LaunchingStep
  <2>2. QED
    BY <2>1 DEF Launches
<1>3. ASSUME NEW s \in Steps, StepAction(s)
      PROVE  CallsCounted'
  <2> USE DEF TypeOK, StepType
  <2>1. \A t \in Steps : t # s =>
          job'[t] = job[t] /\ attempt'[t] = attempt[t] /\ calls'[t] = calls[t]
    BY <1>3, StepActionFrame
  <2>2. attempt[s] \in Nat /\ calls[s] \in Nat /\ MaxRetries[s] \in Nat
    BY ConfigAssumption
  <2>3. CASE CreateExecution(s) \/ RecordRetrying(s) \/ Backoff(s)
    <3>1. /\ UNCHANGED <<attempt, calls>>
          /\ \/ job[s] = "create" /\ job'[s] \in {"attempt", "return"}
             \/ job[s] = "retrying" /\ job'[s] = "backoff"
             \/ job[s] = "backoff" /\ job'[s] \in {"running", "exhausted"}
      BY <2>3 DEF CreateExecution, RecordRetrying, Backoff
    <3>2. QED
      BY <2>1, <3>1
  <2>4. CASE Attempt(s)
    <3>1. /\ job[s] = "attempt" /\ UNCHANGED <<attempt, calls>>
          /\ job'[s] \in {"exhausted", "retrying", "running"}
          /\ job'[s] # "exhausted" => ~(attempt[s] > MaxRetries[s])
      BY <2>4 DEF Attempt
    <3>2. QED
      BY <2>1, <2>2, <3>1
  <2>5. CASE RecordRunning(s)
    <3>1. /\ job[s] = "running" /\ job'[s] = "executing" /\ UNCHANGED attempt
          /\ calls'[s] = calls[s] + 1
      BY <2>5 DEF RecordRunning
    <3>2. QED
      BY <2>1, <2>2, <3>1
  <2>6. CASE Execute(s)
    <3>1. /\ job[s] = "executing" /\ UNCHANGED calls
          /\ \/ job'[s] = "record"
             \/ job'[s] = "attempt" /\ attempt'[s] = attempt[s] + 1
      BY <2>6 DEF Execute
    <3>2. QED
      BY <2>1, <2>2, <3>1
  <2>7. CASE RecordResult(s) \/ SaveOutput(s) \/ RecordFailure(s)
    <3>1. job'[s] \in {"save", "return"}
      BY <2>7 DEF RecordResult, SaveOutput, RecordFailure
    <3>2. QED
      BY <2>1, <3>1
  <2>8. QED
    BY <1>3, <2>3, <2>4, <2>5, <2>6, <2>7 DEF StepAction
<1>4. ASSUME NEW s \in Steps, Return(s)
      PROVE  CallsCounted'
  BY <1>4, ReturnFrame
<1>5. CASE Crash
  BY <1>5 DEF Crash
<1>6. QED
  BY <1>1, <1>2, <1>3, <1>4, <1>5, StepKinds

\* LifeInv holds in every reachable state, on top of IInv and RunInv.
THEOREM LifeInvariance ==
  ASSUME ~ListsRuns
  PROVE  Spec => [](IInv /\ RunInv /\ LifeInv)
<1>1. Init => LifeInv
  BY DEF Init, LifeInv, StoredRun, Registered, ClientsWait, CallsCounted, Executing, AtLevel,
         NoRun, NewRun
<1>2. IInv /\ RunInv /\ LifeInv /\ [Next]_vars => LifeInv'
  <2> SUFFICES ASSUME IInv, RunInv, LifeInv, [Next]_vars
               PROVE  LifeInv'
    OBVIOUS
  <2>1. /\ TypeOK /\ Control /\ Quiet
        /\ StoredRun /\ Registered /\ ClientsWait /\ CallsCounted
    BY DEF IInv, RunInv, LifeInv
  <2>2. StoredRun' /\ Registered'
    BY <2>1, StoredRunStep, RegisteredStep
  <2>3. ClientsWait' /\ CallsCounted'
    BY <2>1, ClientsWaitStep, CallsCountedStep
  <2>4. QED
    BY <2>2, <2>3 DEF LifeInv
<1>3. QED
  BY <1>1, <1>2, RunInvariance, PTL DEF Spec

-----------------------------------------------------------------------------
(* The refinement *)

\* A step that leaves the stored status and progress and the calls alone is
\* one the abstract run does not see.
Unseen == UNCHANGED <<dbRun.status, dbRun.progress, calls>>

\* The executor's writes are moves of the abstract run.
LEMMA ExecutorRefines ==
  ASSUME TypeOK, Control, StoredRun,
         Start \/ Begin \/ EnterLevel \/ SingleDone \/ Collect \/ Report \/ Verdict \/ End
  PROVE  Lifecycle!Next \/ Unseen
<1> USE DEF StoredRun, AtLevel, Executing, Unseen
<1>0. /\ run \in Run /\ dbRun \in Run /\ Total \in Nat
      /\ run.progress \in 0 .. Total /\ dbRun.progress \in 0 .. Total
  BY StepSets DEF TypeOK, EngineType, StoreType, Run
<1>1. UNCHANGED calls
  BY OutsideFrame DEF Outside
<1>2. CASE CreateRun
  <2>1. pc = "create" /\ dbRun = NoRun /\ run = NewRun /\ dbRun' \in {run, dbRun}
    BY <1>2 DEF CreateRun, PersistRun
  <2>2. CASE dbRun' = run
    <3>1. Lifecycle!Create
      BY <1>0, <1>1, <2>1, <2>2 DEF Lifecycle!Create, Lifecycle!Become, NoRun, NewRun
    <3>2. QED
      BY <3>1 DEF Lifecycle!Next
  <2>3. CASE dbRun' = dbRun
    BY <1>1, <2>3
  <2>4. QED
    BY <2>1, <2>2, <2>3
<1>3. CASE Begin
  <2>1. /\ dbRun = NewRun /\ run = NewRun /\ run' = [run EXCEPT !.status = "RUNNING"]
        /\ dbRun' \in {run', dbRun}
    BY <1>3 DEF Begin, PersistRun
  <2>2. CASE dbRun' = run'
    <3>1. Lifecycle!Begin
      BY <1>0, <1>1, <2>1, <2>2 DEF Lifecycle!Begin, Lifecycle!Become, NewRun
    <3>2. QED
      BY <3>1 DEF Lifecycle!Next
  <2>3. CASE dbRun' = dbRun
    BY <1>1, <2>3
  <2>4. QED
    BY <2>1, <2>2, <2>3
<1>4. CASE Register \/ EnterLevel \/ SingleDone \/ Collect \/ Verdict \/ Exit
  BY <1>1, <1>4 DEF Register, EnterLevel, SingleDone, Collect, Verdict, Exit, storeVars
<1>5. CASE Report
  <2>1. /\ dbRun.status = "RUNNING" /\ run.status = "RUNNING" /\ dbRun' \in {run, dbRun}
        /\ dbRun.progress =< run.progress
    BY <1>5 DEF Report, PersistRun, Control, Statuses
  <2>2. Lifecycle!Report
    BY <1>0, <1>1, <2>1 DEF Lifecycle!Report, Lifecycle!Become
  <2>3. QED
    BY <2>2 DEF Lifecycle!Next
<1>6. CASE CompleteWorkflow
  <2>1. /\ dbRun.status = "RUNNING"
        /\ dbRun' \in {[run EXCEPT !.status = "COMPLETED", !.progress = Total], dbRun}
    BY <1>6 DEF CompleteWorkflow, Finish, PersistRun
  <2>2. CASE dbRun' = [run EXCEPT !.status = "COMPLETED", !.progress = Total]
    <3>1. dbRun'.status = "COMPLETED" /\ dbRun'.progress = Total
      BY <1>0, <2>2 DEF Run
    <3>2. Lifecycle!Complete
      BY <1>0, <1>1, <2>1, <3>1 DEF Lifecycle!Complete, Lifecycle!Become
    <3>3. QED
      BY <3>2 DEF Lifecycle!Next
  <2>3. CASE dbRun' = dbRun
    BY <1>1, <2>3
  <2>4. QED
    BY <2>1, <2>2, <2>3
<1>7. CASE FailWorkflow
  <2>1. /\ dbRun.status = "RUNNING" /\ dbRun.progress =< run.progress
        /\ dbRun' \in {[run EXCEPT !.status = "FAILED"], dbRun}
    BY <1>7 DEF FailWorkflow, Finish, PersistRun
  <2>2. CASE dbRun' = [run EXCEPT !.status = "FAILED"]
    <3>1. dbRun'.status = "FAILED" /\ dbRun'.progress = run.progress
      BY <1>0, <2>2 DEF Run
    <3>2. Lifecycle!Fail
      BY <1>0, <1>1, <2>1, <3>1 DEF Lifecycle!Fail, Lifecycle!Become
    <3>3. QED
      BY <3>2 DEF Lifecycle!Next
  <2>3. CASE dbRun' = dbRun
    BY <1>1, <2>3
  <2>4. QED
    BY <2>1, <2>2, <2>3
<1>8. CASE CancelWorkflow
  <2>1. /\ dbRun.status = "RUNNING" /\ dbRun.progress =< run.progress
        /\ dbRun' \in {[run EXCEPT !.status = "CANCELLED"], dbRun}
    BY <1>8 DEF CancelWorkflow, Finish, PersistRun
  <2>2. CASE dbRun' = [run EXCEPT !.status = "CANCELLED"]
    <3>1. dbRun'.status = "CANCELLED" /\ dbRun'.progress = run.progress
      BY <1>0, <2>2 DEF Run
    <3>2. Lifecycle!Cancel
      BY <1>0, <1>1, <2>1, <3>1 DEF Lifecycle!Cancel, Lifecycle!Become
    <3>3. QED
      BY <3>2 DEF Lifecycle!Next
  <2>3. CASE dbRun' = dbRun
    BY <1>1, <2>3
  <2>4. QED
    BY <2>1, <2>2, <2>3
<1>9. QED
  BY <1>2, <1>3, <1>4, <1>5, <1>6, <1>7, <1>8 DEF Start, End

\* A client that writes cancels the abstract run, or repeats that.
LEMMA ClientRefines ==
  ASSUME TypeOK, ClientsWait,
         (\E c \in Cancellers : Client(c)) \/ CallerCancels \/ Done \/ UNCHANGED vars
  PROVE  Lifecycle!Next \/ Unseen
<1>1. UNCHANGED calls
  BY OutsideFrame DEF Outside
<1>2. dbRun.progress \in dbRun.progress .. Total
  BY StepSets DEF TypeOK, StoreType, Run
<1>3. ASSUME NEW c \in Cancellers, CancelWrite(c), dbRun' # dbRun
      PROVE  Lifecycle!Next \/ Unseen
  <2>1. /\ dbRun' = [copy[c] EXCEPT !.status = "CANCELLED"] /\ copy[c] \in Run
        /\ copy[c].status \in {"PENDING", "RUNNING"}
        /\ dbRun.status \in {copy[c].status, "CANCELLED"}
        /\ dbRun.progress = copy[c].progress
    BY <1>3 DEF CancelWrite, ClientsWait, TypeOK, ClientType
  <2>2. dbRun'.status = "CANCELLED" /\ dbRun'.progress = dbRun.progress
    BY <2>1 DEF Run
  <2>3. CASE dbRun.status = "CANCELLED"
    BY <1>1, <2>2, <2>3 DEF Unseen
  <2>4. CASE dbRun.status \in {"PENDING", "RUNNING"}
    <3>1. Lifecycle!Cancel
      BY <1>1, <1>2, <2>2, <2>4 DEF Lifecycle!Cancel, Lifecycle!Become
    <3>2. QED
      BY <3>1 DEF Lifecycle!Next
  <2>5. QED
    BY <2>1, <2>3, <2>4
<1>4. CASE UNCHANGED dbRun
  BY <1>1, <1>4 DEF Unseen
<1>5. QED
  BY <1>3, <1>4 DEF Client, CancelSignal, CancelRead, CallerCancels, Done, vars, storeVars

\* A handler is entered while the abstract run is RUNNING, and not once too often.
LEMMA StepRefines ==
  ASSUME TypeOK, Control, Quiet, StoredRun, CallsCounted, NEW s \in Steps, StepAction(s)
  PROVE  Lifecycle!Next \/ Unseen
<1>1. UNCHANGED dbRun /\ job[s] \notin Over
  BY StepActionFrame DEF Over
<1>2. CASE RecordRunning(s)
  <2>1. dbRun.status = "RUNNING"
    BY <1>1, BusyStep DEF StoredRun, Executing, AtLevel
  <2>2. calls[s] =< MaxRetries[s]
    BY <1>2 DEF RecordRunning, CallsCounted
  <2>3. Lifecycle!Call(s)
    BY <1>1, <1>2, <2>1, <2>2 DEF RecordRunning, Lifecycle!Call
  <2>4. QED
    BY <2>3 DEF Lifecycle!Next
<1>3. CASE ~RecordRunning(s)
  <2>1. UNCHANGED calls
    BY <1>3 DEF StepAction, CreateExecution, Attempt, RecordRetrying, Backoff, Execute,
       RecordResult, SaveOutput, RecordFailure
  <2>2. QED
    BY <1>1, <2>1 DEF Unseen
<1>4. QED
  BY <1>2, <1>3

\* Every step of the system is a move of the abstract run, or unseen.
LEMMA StepsRefine ==
  ASSUME TypeOK, Control, Quiet, LifeInv, [Next]_vars
  PROVE  Lifecycle!Next \/ Unseen
<1> USE DEF LifeInv
<1>1. CASE Outside
  BY <1>1, ExecutorRefines, ClientRefines DEF Outside
<1>2. CASE Launching
  BY <1>2, LaunchingStep DEF Launches, Unseen
<1>3. ASSUME NEW s \in Steps, StepAction(s)
      PROVE  Lifecycle!Next \/ Unseen
  BY <1>3, StepRefines
<1>4. ASSUME NEW s \in Steps, Return(s)
      PROVE  Lifecycle!Next \/ Unseen
  BY <1>4, ReturnFrame DEF storeVars, Unseen
<1>5. CASE Crash
  BY <1>5 DEF Crash, storeVars, Unseen
<1>6. QED
  BY <1>1, <1>2, <1>3, <1>4, <1>5, StepKinds

\* The stored run keeps the promises of RunLifecycle: it walks PENDING,
\* RUNNING and one terminal status, progress does not go back, and handlers
\* are entered while it is RUNNING, MaxRetries + 1 times at most.
THEOREM Refinement ==
  ASSUME ~ListsRuns
  PROVE  Spec => ImplementsLifecycle
<1>1. Init => Lifecycle!Init
  BY DEF Init, Lifecycle!Init, NoRun, NewRun
<1>2. IInv /\ RunInv /\ LifeInv /\ [Next]_vars => [Lifecycle!Next]_(Lifecycle!vars)
  BY StepsRefine DEF IInv, RunInv, Unseen, Lifecycle!vars
<1>3. QED
  BY <1>1, <1>2, LifeInvariance, PTL DEF Spec, ImplementsLifecycle, Lifecycle!Spec

\* A terminal status is final.  The hypothesis is the one the code needs: with
\* ListRuns a client can write CANCELLED before the executor writes RUNNING.
THEOREM TerminalStays ==
  ASSUME ~ListsRuns
  PROVE  Spec => TerminalIsFinal
<1>1. ASSUME Lifecycle!Next \/ Unseen, dbRun.status \in TerminalRun
      PROVE  dbRun'.status = dbRun.status
  BY <1>1 DEF Lifecycle!Next, Lifecycle!Create, Lifecycle!Begin, Lifecycle!Report,
     Lifecycle!Complete, Lifecycle!Fail, Lifecycle!Cancel, Lifecycle!Call, Lifecycle!Become,
     Unseen, TerminalRun
<1>2. IInv /\ RunInv /\ LifeInv /\ [Next]_vars
        => [dbRun.status \in TerminalRun => dbRun'.status = dbRun.status]_vars
  BY <1>1, StepsRefine DEF IInv, RunInv
<1>3. QED
  BY <1>2, LifeInvariance, PTL DEF Spec, TerminalIsFinal

===============================================================================
