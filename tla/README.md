# gorkflow in TLA+

Models, model checks and proofs of gorkflow, a Go workflow engine: a workflow is
a DAG of steps, a run executes it level by level, and everything a run does is
recorded in a store (memory, LibSQL or Postgres). File and line references are to
the repository.

## 1. The system

| component | state | operations | hard because |
|---|---|---|---|
| Engine (`engine/engine.go`) | `activeRuns`, and per run the `WorkflowRun` the executor owns, `completedSteps`, the level's `resultsCh` | `StartWorkflow`, `executeWorkflow`, `resolveStepInput`, `completeWorkflow` / `failWorkflow` / `cancelWorkflow`, `Cancel` | goroutines of a parallel level report over a channel and are counted; `Cancel` races every other step; store calls fail |
| Step executor (`engine/executor.go`) | attempt counter, the step's execution record | `executeStep`: create record, retry loop, backoff, handler, skip, output, exhaustion | the context may be cancelled at any point; updates are best-effort; handlers fail, panic, time out |
| Store (`store_interface.go`, `store/`) | runs, step executions, outputs, state | create, update, save, load, list | memory ignores the context, SQL stores do not; the stores differ on missing rows |
| Graph (`graph.go`) | nodes, `Next`, `Previous`, entry point, two caches | `AddNode`, `AddEdge`, `Validate`, `TopologicalSort`, `ComputeLevels` | longest-path levels by re-queuing; caches cleared by mutators |
| Builder, workflow (`workflow_builder.go`, `workflow.go`) | `lastStepIDs`, the graph, registered steps | `ThenStep`, `Parallel`, `Sequence`, `ThenStepIf`, `SetEntryPoint`, `Build` | call sequences that build something else than they read |
| Step context (`context.go`) | per-step output and input caches; one state accessor per run with a cache and a context | `Get`, `Set`, `Delete`, `Has`, `GetAll` | shared by all steps of a parallel level |
| Steps, conditions, validation (`step.go`, `validation.go`) | configuration | `Execute`, condition, skip | mostly sequential |
| Retry policy, configuration (`config.go`) | none | `CalculateBackoff`, options | overflow, truncation |
| Logging, helpers, examples | none | | |

How they meet. `StartWorkflow` stores the run (PENDING), enters a cancel function
in `activeRuns` and starts a goroutine, or executes in the caller's goroutine when
`Synchronous`. The executor asks the graph for the levels. For a level of one step
it calls `executeStep` itself; for a larger one it starts a goroutine per step and
receives as many results as the level has steps. A step's input is the stored
output of the first of its predecessors. `Cancel` calls the cancel function of an
active run and returns; with no active run it reads the stored run and writes
CANCELLED into it. All of them share the store, and only the store outlives the
process.

What makes them correct:

- Engine: the stored status walks PENDING, RUNNING, one terminal status; a level
  starts only when the ones before are over; a run is COMPLETED only if everything
  was executed, FAILED only with a cause, CANCELLED when cancelled; `nil` means it
  is stored; a run ends.
- Executor: at most `MaxRetries + 1` handler calls, none (but one in flight) after
  cancellation; records agree with what happened.
- Store: a read returns the last successful write; stores are interchangeable.
- Graph: levels are longest distances, orders are topological, caches are never
  stale. Builder: `Build` accepts what its calls say.
- State accessor: a read returns the last value set; a step's calls fail only for
  the step's own reasons.
- Retry policy: delays are non-negative and monotone.

`PROJECT.json` lists under `hazards` what is hard to test in this code, each at its
line, with the properties that would catch it.

## 2. Modules

| module | models |
|---|---|
| `RunLifecycle` | abstract: what a caller is promised about one stored run |
| `WorkflowEngine` | one run of one workflow: executor, `executeStep` of every step, `Cancel`, the store's calls, the death of the process |
| `ExecutionGraph` | operators: the graph's mutators, its walks, and what its queries should answer |
| `GraphReaders` | callers of `TopologicalSort` and `ComputeLevels` on one graph, with its two caches |
| `Steps` | operators: step objects, options, validation, `Execute` |
| `WorkflowBuilder` | a program that makes steps, chains them and builds a workflow |
| `StateAccessor` | the state and output accessors of the steps of a parallel level |
| `StoreContract` | abstract: what `WorkflowStore` promises whichever store is used |
| `Stores` | memory store, LibSQL and Postgres given the same calls |

`WorkflowBuilder` uses `ExecutionGraph` and `Steps`, `GraphReaders` uses `ExecutionGraph`.
`WorkflowEngine` implements `RunLifecycle`; each store of `Stores` implements
`StoreContract`. The `MC` modules hold the instances the runs use, and the modules
named `...Proofs` the proofs (section 5): `WorkflowEngineProofs`, extended by
`EngineRunProofs`, which `EngineLifecycleProofs` extends; `StateAccessorProofs`;
`StoresProofs`; `ExecutionGraphProofs` (facts about graphs and about the two
algorithms), used by `GraphReadersProofs` and `WorkflowBuilderProofs`.

`RunLifecycle` has three variables (status, progress, handler calls) and one action
per promise: a run is created PENDING with no progress, becomes RUNNING, reports
progress that does not decrease, ends once, and handlers are entered only while the
stored run is RUNNING, `MaxRetries + 1` times at most. `ImplementsLifecycle` says
that `WorkflowEngine` implements it, with status and progress mapped to those of the
stored run.

### WorkflowEngine and the code

The workflow is a constant: `LevelOf` and `Previous` are what `ComputeLevels` and
the `AddEdge` calls produce. `PreviousAssumption` (predecessors are in lower
levels) and `LevelsAssumption` (no level is empty) are what `ComputeLevels`
guarantees of a validated graph: a level is a longest distance from the entry
point.

| variables | code |
|---|---|
| `pc` | where `StartWorkflow` and `executeWorkflow` are |
| `run`, `completed`, `level`, `fatal`, `err` | the executor's `run`, `completedSteps`, the loop over levels, `fatalErr # nil`, the returned error |
| `toLaunch`, `results`, `received` | steps of the level still to be started, `resultsCh`, receives so far |
| `job`, `attempt`, `input`, `index`, `outcome` | per step: where `executeStep` is, `attempt`, `inputBytes`, `executionIndex`, result and error |
| `active`, `ctxDone` | the run is in `activeRuns`; its context is cancelled |
| `dbRun`, `dbStep`, `saved`, `faults` | stored run, status of stored step executions, steps with a stored output, store faults left |
| `cpc`, `copy` | per client: where `Cancel` is, and the run it read |
| `calls`, `late` | history only: handler entries, and those with a cancelled context |

Actions, in the order of the code: `CreateRun`, `Register`; `Begin`, `EnterLevel`
(the check of the context and the choice of path), `RunSingle` and `SingleDone` for
a level of one step, `LaunchParallel` and `Collect` for a larger one, `Report` (the
best-effort progress update), `Verdict`, `CompleteWorkflow` / `FailWorkflow` /
`CancelWorkflow`, `Exit` (the deferred function). Per step: `CreateExecution`,
`Attempt` (loop head), `RecordRetrying`, `Backoff`, `RecordRunning` (and the handler
is entered), `Execute` (it returns), `RecordResult`, `SaveOutput`, `RecordFailure`
(label `retryExhausted`), `Return`. Per client: `CancelSignal` (under `runsMu`),
`CancelRead`, `CancelWrite`. Around them: `CallerCancels` and `Crash`.

An action contains at most one store call, and the local code around it. Progress
is counted in finished steps; the code divides by their number. An output is
represented by the step that produced it, so `run.output = s` is "the output of s".
`input = NullInput` is the literal `null` a successor receives when a predecessor
with `ContinueOnError` left no output. The launch order inside a level is arbitrary,
because `ComputeLevels` fills a level by iterating over a map.

A handler is opaque: it returns an output, `ErrStepSkipped`, or an error, which
stands for its own error, failed validation, a recovered panic and a timeout alike;
`executeStep` treats them in the same way.

A store call is one atomic step that succeeds or fails without effect. With
`StoreHonoursCtx` (LibSQL, Postgres) it fails when its context is cancelled;
the memory store never looks at it. `MaxFaults` calls may fail for other reasons.
A store that commits and then reports an error is not modelled.

A client can call `Cancel` once it knows the run's ID: when `StartWorkflow` has
returned it, after a restart, when it lists the runs that are left, or, with
`ListsRuns`, as soon as the run can be found with `ListRuns`.

### ExecutionGraph, GraphReaders and the code

A graph is a record of `graph.go`'s struct: entry point, nodes, `next`, `previous` and
the two caches. `hasCycle`, `dfsReachable` and the `visit` of `TopologicalSort` are one
depth-first walk (`WalkStep`), a stack of calls with the successors each has still to
look at; the search of `ComputeLevels` is `SearchStep`, one successor at a time.

`GraphReaders` is a graph and, per caller, a call: `Invoke` (the cache, under the read
lock), `CheckEntry`, `SearchCycles` and `SearchReachable` (Validate), `Sort` or
`LevelSteps`, `WriteCache` (under the write lock), `Return`. `Mutate` is the owner, any
mutator, while nobody reads: `cacheMu` guards the caches only. A walk touches the
caller's own variables and a graph nobody changes, so it commutes with the steps of
the others, and only one caller walks at a time; what the callers do to the caches is
interleaved. Iteration over the map of nodes is in any order.

`Valid`, `Levels` and `IsTopological` are reference definitions, by paths of k edges,
which share nothing with the walks.

### Steps, WorkflowBuilder and the code

A step object is a record of its configuration and of the validation it points to: the
default one that all steps share, its own, or none. An option is a function of the
object (`ApplyStep`); a validator is the set of values it refuses; what the handler,
the conditions and `json.Unmarshal` answer are arguments of `Execute`.

| variables of `WorkflowBuilder` | code |
|---|---|
| `steps`, `shared` | step objects; the validator in `defaultValidationConfig` |
| `builder` | `workflow.graph`, `workflow.steps` (not there, plain or wrapped), `lastStepIDs`, `workflow.config` |
| `status` | open, built, rejected, panicked |
| `groups`, `guarded`, `builds`, `last` | history: the steps each call added, which calls were `ThenStepIf`, steps and configuration of every workflow built, the last execution |

Actions: `MakeStep`, `Add` (`ThenStep`, `ThenStepIf`, `Parallel`, `Sequence`),
`ChooseEntryPoint`, `WithConfig`, `BuildElsewhere`, `Build`, and `Run`, one `Execute`.
`BuildElsewhere` is the `Build` of another workflow that registered some of the shared
steps: before, between and after the calls of this one and after its `Build`, any number
of times up to `MaxBuilds`, with a configuration of its own or with the default one.
What `Validate` decides is `Valid`; that the algorithm decides this is
`AnswersCorrect` of `GraphReaders`.

### StateAccessor and the code

| variables | code |
|---|---|
| `cache`, `ctx` | those of the run's one `stateAccessor` |
| `outCtx`, `outCache` | context and `outputCache` of each step's `stepAccessor` |
| `db`, `outputs` | stored state; steps with a stored output |
| `step` | attempt, whether its handler runs, whether its context expired |
| `call`, `calls`, `faults` | the call a handler makes, how many it made, store faults left |
| `clean`, `acked` | history: per key, whether its last change succeeded without overlap, and what it left |

A context is a step and its attempt; it is live while that attempt runs in time.
`StartAttempt` gives both accessors the new context, `EndAttempt` cancels it, `Expire`
is a timeout or a cancelled run. A call is up to three steps, as the locks in the code
make it: cache and context under the mutex (`Set`, `Delete`, `Look` for `Get` and
`Has`, `GetAll`), the store (`StoreMutation`, `StoreRead`), the cache again (`Fill`).
A value is named by its writer and the number of the call. `GetOutput` and `HasOutput`
(`ReadOutput`) are one step, since an output is written once; a step accessor is used
by its own step only. A handler makes one call at a time.

### StoreContract, Stores and the code

A call is a record (operation, run, step or key, value), and each store a function of
its state and the call to its next state and a reply. The memory store holds maps
(`execMaps`: the runs that have a map of step executions, all that
`UpdateStepExecution` asks for); the SQL stores hold tables, whose rows for runs and
step executions have the record as JSON and the columns that queries use. Of a run's
record the status and the resource are kept, of a step execution the status, index,
attempt, output and error. Reads are operators, compared in `StoresAgree`.

A call is proper if the record it is about is there (or is not, for a creation) and it
does not change what identifies it. `misused` are the runs that got another call: there
the stores differ, and `StoreContract` promises only that other runs are not disturbed.

## 3. Runs

| run | configuration | question |
|---|---|---|
| `engine_memory` | Fork, asynchronous, memory store, one client | everything the engine promises on a store that does not fail |
| `engine_sql` | Diamond, synchronous, caller may cancel its context, store honours its context, one fault, crash, one client after the return or the restart | what survives faults, a lost context and the death of the process |
| `cancel_not_persisted` | Diamond, store honours its context | finding 1 |
| `cancel_acknowledged` | Diamond, memory store | finding 2 |
| `terminal_overwritten` | Diamond, memory store, `ListRuns` | finding 3 |
| `graph_readers` | four steps, five possible edges, four at a time, two entry points, two callers | are caches, orders and levels right, and do walks end |
| `workflow_builder` | four steps (one conditional, one configured, one with its own validation), three calls that add steps, one step shared with other workflows, two builds | what a sequence of builder calls means |
| `validator_shared` | two steps, one with a custom validator | finding 4 |
| `state_accessor` | two steps, one key, two calls and two attempts each, one fault, SQL store | when the shared cache can be trusted |
| `state_cancelled` | two steps, one attempt and one call each, no faults, SQL store | finding 5 |
| `stores` | two runs, two steps, one key, two values, five calls | do the stores agree |
| `stores_records` | one run, one step, three calls | finding 6 |

Bounds of the engine's runs. Diamond (a, then b and c, then d) is the smallest workflow with a
sequential and a parallel level, a join and a successor of a step that may fail;
Fork adds a parallel last level, where the run's output depends on the order of
results, and a step whose first predecessor is two levels up. One retry on a and b
takes the loop through every branch: first attempt, retry, exhaustion. One client is
one `Cancel` at every possible moment; a second one would find the same executor and
the same stored run. One fault anywhere exercises every error path of a store call
once. No constraint cuts the state space: each run is finite by itself, with the
bounds `MaxRetries`, `MaxFaults` and one call per client in the guards.

Bounds of the others. Four steps and four edges give every shape a level can take
here: a chain, a diamond, a step whose second, longer path is found later and is queued
again, a cycle on and off the entry point, an unreachable step; two callers fill the
caches against each other. Three calls that add steps are a join behind two parallel
steps, and every way to repeat a step, with an empty `Parallel` between the two or not;
two builds are this workflow's and another's in either order, or two others, of which
the first may have had no configuration. In `state_accessor` every call but `GetAll`
touches one key, and `GetAll` treats each key by itself, so one key shows what a key can
suffer; two calls per step let a read follow a change and overlap another. Five calls on
the stores create, update and read back a run with a step, and misuse one beside it.
Guards bound the edges (`MaxEdges`), the builder's calls (`MaxGroups`), the builds (`MaxBuilds`), calls, attempts and
faults (`MaxCalls`, `MaxAttempts`, `MaxFaults`); steps, keys and runs that are alike are
symmetric where no liveness is checked.

What they show:

- `LevelBarrier`: no step starts before all of the levels before reported, none of
  them fatally. The executor only counts receives, so this is about the count.
- `DataFlow`, `DataFlowExact`: where inputs come from.
- `CompletedMeansDone`, `FailedHasCause`, `NilMeansStored`, `CancelledIsPersisted`:
  what a terminal status, and a nil error, mean.
- `OutputIsDeepest`, `ExecutionOrder`, `RecordsSettled`: the run's output, the order
  of `ListStepExecutions` and the step records do not depend on the interleaving.
  `ExecutionOrder` speaks of the steps `executeStep` was called for, since the index is
  computed at the call.
- `CancelBoundsWork`: after cancellation, at most one handler entry per step, all in
  one level.
- `ImplementsLifecycle`: the stored run keeps the promises of `RunLifecycle`, also
  with faults and a crash (status and progress are then merely left behind).
- `RunEnds`, `ExecutorEnds`: the run reaches a terminal status on a reliable store,
  and the executor its end on any.

- `CachesCurrent`, `AnswersCorrect`: orders are topological, levels are longest
  distances, and a query fails exactly on an invalid graph, from the cache or not,
  whatever the owner changed in between.
- `InputsFromBelow`: a step's predecessors are in lower levels, one of them in the level just
  below, and no level is empty: what `WorkflowEngine` assumes of its constants
  (`PreviousAssumption`, `LevelsAssumption`), here for every graph of the bounds.
- `AcceptedExactly`, `LevelsAreCalls`: `Build` accepts a sequence of calls exactly when
  the first adds one step, the entry point, and no step is in two calls; the levels are
  then the calls. A workflow that starts with `Parallel` of two steps is rejected.
- `BuiltFitsEngine`: what `Build` accepts, also from calls without steps, satisfies what
  `WorkflowEngine` assumes of `LevelOf` and `Previous`, and only the first level, the entry
  point, has no predecessor and takes the run's input.
- `ConditionsKept`: a handler runs on an accepted input if and only if the step's own
  condition holds and that of the call that registered it. In a workflow that is built
  a step can be in two calls, with an empty `Parallel` between them: if the second is
  `ThenStepIf` its condition is dropped, if the first is, it counts for both.
- `ConfigPropagates`: a step has the configuration of its own options or else the first
  one offered by the builds it took part in. So a step that was built without a
  configuration gets one from any later build, its own workflow's or another's.
- `CacheCurrent`, `ReadsLatest`: the state cache is wrong about a key only after a
  change the store refused or that overlapped another call, until the next change
  that succeeds alone; a read no change overlaps answers what the last change left.
- `OutputsFailForOwnReasons`: an output is refused only for the step's own context.
- `StoreTypeOK`: what the tables hold twice, in a record and in a column that queries
  filter or order by (`WHERE status`, `WHERE resource_id`, `ORDER BY execution_index`).
  The status columns always agree with the records; the others are written once, and
  agree unless the run got a call that changes what they hold.
- `StoresAgree`, `ImplementsContract`: properly used, the three stores read the same and
  reply the same, but for the output and the error in a step record of LibSQL (finding
  6); each implements the contract.

`RunEnds` is not claimed for `engine_sql`, nor `CancelledIsPersisted`: finding 1.
`ImplementsLifecycle` is not claimed with `ListsRuns`: finding 3. There `Cancel` finds a
run that executes and is not in `activeRuns`, and writes behind the executor: the run
`terminal_overwritten`. What holds even then, for both ways to start a run, is proved
for every value of `ListsRuns` (`CompletedIsComplete`, `NilIsStored`,
`CancelledWorkIsBounded`, section 5).

Each property has a mutant in `PROJECT.json`: an operator of the same module that
changes the model as a plausible bug would change the code (a result too few, a
dropped check, a missing registration). The mutants are the operators commented as
such just before the definition they would replace.

### Fairness

`FairSpec` assumes weak fairness of the executor, of every step's goroutine, and of
a `Cancel` once begun: Go schedules runnable goroutines, a receive from a non-empty
channel proceeds, and store calls return. It includes the assumption that handlers
return (`Execute`): a handler that ignores its expired context would block the
engine, since timeouts are cooperative. Nobody is obliged to call `Cancel`, to cancel
the caller's context or to crash.

`FairSpec` of `GraphReaders` assumes weak fairness of a caller inside a query (`Walks`):
plain sequential code. Nobody is obliged to call, to return or to change the graph.

## 4. Findings

1. `cancel_not_persisted` (`engine/engine.go:377`): CANCELLED is persisted with the
   cancelled context, so SQL stores refuse it and the stored run stays RUNNING.
2. `cancel_acknowledged` (`engine/engine.go:415`): a `Cancel` that returned nil does
   not mean that the run ends CANCELLED; it may complete or fail.
3. `terminal_overwritten` (`engine/engine.go:154`): a `Cancel` between `CreateRun` and
   the entry in `activeRuns` is overwritten by RUNNING and the workflow executes.
4. `validator_shared` (`step.go:188`): `WithCustomValidator` on one step replaces the
   validator of every step with the default validation.
5. `state_cancelled` (`engine/executor.go:123`): a step's state call is refused because
   the accessor of the run holds the context of a sibling that has returned.
6. `stores_records` (`store/libsql.go:312`): LibSQL's update of a step execution leaves
   the output and all of the error but its message out of the stored record, so a
   completed step is read back without its output and a failed one without its code,
   which the docs show users how to read (`docs/troubleshooting/debugging.md:45,210`).

Divergences read in the code and docs, which the models follow the code on and no run
is spent on:

- Examples in `docs/advanced-usage/parallel-execution.md` (110, 162, 236, 246) start with
  `Parallel`; `Build` rejects them (`AcceptedExactly`).
- A step explicitly configured with the default values gets the workflow's
  configuration (`workflow_builder.go:157`).
- `ThenStepIf` says "pass nil for zero value" (`workflow_builder.go:115`); a step whose
  types are equal passes its input through (`step.go:333`).
- LibSQL reports success for an update of a run that is not there (`libsql.go:183`).
- Comments call `ExecutionIndex` a retry count (`store/postgres_schema.go:25`) or "for
  tracking across retries" (`models.go:88`). It is the number of steps finished when the
  step is launched (`engine/engine.go:256`) and no retry changes it: `ExecutionOrder`
  states what the code and `ListStepExecutions` make of it.
- A comment in `Build` speaks of a configuration that propagates "unless the step has
  been explicitly configured" (`workflow_builder.go:155`); a step shared with another
  workflow may have got that workflow's (`ConfigPropagates`).

## 5. Proofs

`WorkflowEngineProofs` proves, for every workflow, configuration, number of clients
and faults the assumptions of `WorkflowEngine` admit, of `Spec` (no fairness):

| theorem | states |
|---|---|
| `Invariance` | the inductive invariant `IInv` |
| `TypeCorrect` | `TypeOK` |
| `Barrier` | `LevelBarrier` |
| `CompletedIsComplete` | `CompletedMeansDone` |
| `InputsComeFromPredecessors` | `DataFlow` |

Even `TypeOK` is not inductive: `completed` is incremented once per receive, and that
it never exceeds the number of steps depends on how often the executor receives. The
invariant adds

- `Progressed`: steps of lower levels have reported, steps of higher levels are idle,
  and what the executor's position says of the current level;
- `Counting`: `completed` is the size of the lower levels plus the results received
  in this one, and results received plus results in the channel are as many as the
  steps of the level that reported; a fatal failure was seen or is in the channel;
- `Statuses`: what the executor's position says of `run.status`, and what a stored
  COMPLETED says of the steps;
- `Outputs`: only a step that produced an output has one stored, and an outcome once
  produced stays.

The heart is `LastResultReceived`: if one more receive makes as many as the level has
steps and a result is there, the reported steps are as many as the steps of the level
(`Counting`), and a subset of a finite set of the same size is the set. From it
follow the barrier and that `fatal` has seen every failure, from that
`CompletedMeansDone`. `DataFlow` needs `Counting` too: the code passes the run's input
when `completedSteps == 0`, which is right only because no step with a predecessor can
be reached with that counter at zero (`LaunchingStep`).

The proofs use the assumptions on the constants and nothing else; `LevelsAssumption`
and `PreviousAssumption` are the interface to the graph (`InputsComeFromBelow` and
`BuiltFits`, below).

`EngineRunProofs` proves the rest of what holds on every store:

| theorem | states |
|---|---|
| `RunInvariance` | the inductive invariant `RunInv`, on top of `IInv` |
| `RecordsAreOrdered` | `ExecutionOrder` |
| `CancelledWorkIsBounded` | `CancelBoundsWork` |
| `NilIsStored` | `NilMeansStored` |
| `OutputOfDeepest` | `OutputIsDeepest` |

`RunInv` adds what each of these forgets:

- `Indexed`: an index is the number of steps of the levels before, which grows from
  level to level because no level is empty;
- `LateEntries`: a step that entered its handler with a cancelled context cannot come to
  the loop head without leaving, and its executor is still in that level or past all of
  them: the next `EnterLevel` sees the context;
- `StoredOnNil`: what the executor wrote last is not undone: a client writes CANCELLED;
- `OutputSoFar` and `ChannelOfLevel`: `run.output` is from a level as deep as any whose
  result was received; the rest is still in the channel, and of this level.
- `Quiet`: when the executor has ended, no step is under way.

Its second part proves what holds on a store that never refuses a call
(`ReliableStore == MaxFaults = 0 /\ ~StoreHonoursCtx`, the memory store):

| theorem | states |
|---|---|
| `ReliableInvariance` | the inductive invariant `ReliableInv`, on top of `RunInv` |
| `InputsAreExact` | `DataFlowExact` |
| `RecordsAreSettled` | `RecordsSettled` |
| `FailuresHaveCause` | `FailedHasCause` |
| `CancellationsArePersisted` | `CancelledIsPersisted` |

The hypothesis is the one the code needs: updates of step records are best-effort, an
output that could not be saved is read as missing, a refused call fails the run, and
finding 1 is `CancelledIsPersisted` without it. `Recorded` ties the stored status of a
step to the place `executeStep` has come to, `Causes` carries a failed step from
`fatal` to the stored FAILED.

`EngineLifecycleProofs` proves the refinement, with faults, crashes, any store and both
ways to start a run, if clients know a run only from `StartWorkflow` (`~ListsRuns`):

| theorem | states |
|---|---|
| `LifeInvariance` | the inductive invariant `LifeInv`, on top of `RunInv` |
| `Refinement` | `ImplementsLifecycle`: `RunLifecycle` is implemented |
| `TerminalStays` | `TerminalIsFinal` |

Finding 3 is what happens with `ListsRuns`. `LifeInv` says that while the executor lives
the stored run is its own up to progress not yet written (`StoredRun`), that it is in
`activeRuns` (`Registered`) so that `Cancel` stays away from the store (`ClientsWait`),
and that handlers were entered once per attempt (`CallsCounted`). Every action is then
mapped to an action of `RunLifecycle` or to a stutter; `TerminalStays` follows from the
abstract steps.

`StateAccessorProofs` proves of `StateAccessor`, for every number of steps, keys, calls,
attempts and faults and for both kinds of store (`AccessorAssumption`, nothing else):

| theorem | states |
|---|---|
| `AccessorInvariance` | the inductive invariant `IInv` |
| `AccessorTypeCorrect` | `AccessorTypeOK` |
| `CacheIsCurrent` | `CacheCurrent` |
| `ReadsAreLatest` | `ReadsLatest` (an action property) |
| `OutputsRefusedForOwnReasons` | `OutputsFailForOwnReasons` |

`CacheCurrent` says nothing of a key while a change of it is under way, so what makes it
true again at the end of the change must be carried through the call:

- `OverlapMarked`: of two calls under way on one key, one of them a change, neither is
  `alone` and the key is not `clean`;
- `ChangeCached`: the cache still holds what a change that is alone put there, since
  whoever else would write it, a later change or a reader that fills it, overlaps;
- `FillsCurrent`: what a reader is about to put into the cache is what is stored, or the
  key is marked;
- `OutputContexts`: a running handler asks for outputs with the context of its own
  attempt.

`ReadsAreLatest` follows from these at the three steps that answer a read: a hit in the
cache (`CacheAnswers`), the store's answer and the fill (`StoreAnswers`).

`GraphReadersProofs` proves of `GraphReaders`, for any steps, edges, entry points and
callers (`NoStepAssumption` and `EdgesAssumption`):

| theorem | states |
|---|---|
| `ReadersInvariance` | the inductive invariant `ReadersInv` |
| `ReadersTypeCorrect` | `GraphTypeOK` |
| `CachesAreCurrent` | `CachesCurrent` |
| `AnswersAreCorrect` | `AnswersCorrect` |
| `InputsComeFromBelow` | `InputsFromBelow` |

`Valid` and `Levels` are defined by the paths from the entry point, and neither
algorithm sees a path. `ExecutionGraphProofs` bridges the two:

- a graph is valid exactly when it is `Sound`: its steps can be ranked, successors
  lower, and no closed set of steps but all of them holds the entry point
  (`SoundIsValid`, `ValidIsSound`);
- the levels are the values of the one function that is zero at the entry point, larger
  at each successor, and larger by one than at some predecessor (`LevelsByDepth`).

The two need induction over the length of a path; in its place stands the least
counterexample (`Least`, from the well-foundedness of the naturals). Then, of the walk:
`Walked` (each call has entered, finished or still to look at every successor, and every
ranking falls along the stack), so that a successor on the stack excludes every ranking
(`RanksForbidCycles`) and the order in which the calls return is a ranking
(`WalkRanks`); `Rooted`, so that a walk from the entry point finishes exactly what is
reached (`WalkEnded`) and its reversal is topological (`ReverseIsTopological`). Of the
search of `ComputeLevels`: `Counted` (a level is that of a predecessor plus one) and
`Deepened` (a successor that is not deeper belongs to a step that is still queued),
which at the end give that function (`SearchEnded`). `ReadersInv` says at which point of
a query its caller knows which of these; the caches are written with answers and cleared
by every mutator, so `CachesRight` needs nothing of the interleaving but that the owner
waits for the readers. That the walks and the search end is liveness, and not proved.

`StoresProofs` proves of `Stores`, for any number of runs, steps, keys, records and
calls:

| theorem | states |
|---|---|
| `StoresInvariance` | the inductive invariant `StoresInv` |
| `StoresTypeCorrect` | `StoreTypeOK` |
| `StoresAreInterchangeable` | `StoresAgree` |
| `StoresImplementContract` | `ImplementsContract`: each store implements `StoreContract` |

`StoresAssumption` says of which kind the records are, and that `None`, which stands for
absence, is neither a record nor a row. `StoresInv` has three parts: `WellFormed`, the
tables and their columns; `Owned`, that Postgres, which has the references, keeps
nothing of a run without its row; `Agreement`, that of a run not misused the three hold
the same records, up to what `json_set` drops in LibSQL and to the map of step
executions in memory. A proper call has one effect on all three (the lemmas named
`...Effect`), a misuse stays in its run (`OnlyRun`).

`WorkflowBuilderProofs` proves of `WorkflowBuilder`, for any steps, options,
configurations, arguments and number of calls (`MaxGroups` is any natural number):

| theorem | states |
|---|---|
| `BuilderInvariance` | the inductive invariant `BuilderInv` |
| `BuilderTypeCorrect` | `BuilderTypeOK` |
| `BuildAcceptsExactly` | `AcceptedExactly` |
| `CallsAreLevels` | `LevelsAreCalls` |
| `BuiltFits` | `BuiltFitsEngine` |
| `ConditionsAreKept` | `ConditionsKept` |
| `ConfigurationPropagates` | `ConfigPropagates` |

It assumes `BuilderAssumption` (arguments are sequences of steps, options are members of
`Options`), `ValuesAssumption` and `NoStepAssumption`. The builder's loops are folds over
sequences, and a fold is an induction over the positions. `Upwards` is that induction for
a set of positions, by the least position that is missing, and `FoldExists` shows with it
that a fold is the last value of a function that starts with the base and goes from each
position to the next; `ChainsByStep`, `CallsByStep`, `EdgesByStep`, `ConfiguredByStep` and
`MadeByStep` are those functions of the five loops. Then

- one call adds its steps, an edge from each of the last steps to each of them, and no
  other (`Grown`), whichever of the four operations it is;
- the graph of a sequence of calls joins every step of a call to every step of the next
  (`Grouped`), from `NewWorkflow` on, since `lastStepIDs` is what the last call added; a
  call that added none joins nothing; `AcceptedExactly` and `LevelsAreCalls` speak of
  sequences without one, the other properties of all. The object registered for a step
  is a wrapper exactly if the first call that was given the step is a `ThenStepIf`;
- such a graph is `Sound` exactly when the calls are as `AcceptedExactly` says: if they
  are, a step's rank is the number of its call (`AcceptableIsSound`); if a step is in two
  calls, every step of the calls after its first is ranked below it, and so is the step
  itself (`SoundIsApart`); the steps of a first call but the entry point
  have no predecessor and are not reached (`SoundIsAcceptable`). `SoundIsValid` and
  `ValidIsSound`, proved for the readers, make this what `Validate` decides;
- the number of a step's call is its longest distance, so `LevelsByDepth` gives the
  levels, and the order of the edges its first predecessor;
- calls that add nothing leave gaps, and a step may then be in two calls and the graph
  still be valid (`a`, `b`, an empty `Parallel`, `b`, `c`). `BuiltFitsEngine` speaks of
  these too: every valid graph has longest distances (`DepthsExist`), and the builder
  writes each edge at both of its ends (`Mirrored`, in `Sane`), so predecessors lie below
  (`ValidFitsLevels`). With it the theorems of `WorkflowEngine` are about every workflow
  that `Build` returns, of steps whose number of retries is not negative.

`BuilderInv` is `Grouped` for the calls so far, with `Objects` (a step object is a
record in range), `Configuration` (`ConfigPropagates`, and that builds are of steps that
exist, so a new step has no offer yet) and `Decided` (the status is what `Accepts` says of
the builder, which nothing changes afterwards, and handlers ran as `ConditionsKept` says).
`ConfiguresKeeps` is the step that all builds share: it fills a default configuration and
leaves any other, so the first offer stays.

Only model-checked:

- liveness (`RunEnds`, `ExecutorEnds`, `WalksEnd`), out of the prover's reach;
- what the code violates: `StateFailsForOwnReasons`, `CustomValidatorIsPerStep`,
  `AcknowledgedCancelWins`, `StepRecordsReadBack`.

## 6. Not modelled

- Several engine processes on one store: `Cancel` from another process takes the
  direct path while an executor runs, which `ListsRuns` shows within one process.
- Store calls that commit and report an error; opening and closing databases;
  the order and the limit of `ListRuns`.
- `CalculateBackoff`: its delay decides only how long `Backoff` waits, and the attempt
  at which it would overflow comes after waits of years.
- `GetInput` of the step accessor: it has the shape of `GetOutput`, over another table.
- Builder calls after `Build`, and node types, which no code but `Clone` reads.
- Errors of `executeWorkflow` that a workflow from `Build` cannot cause: `ComputeLevels`
  (`engine.go:169-172`) and `GetStep` (193-196, 244-248) fail only for an invalid graph or
  a node without its step, which `BuiltFitsEngine` and `Accepts` exclude.
- Pointer identity: copies in the memory store, slices the graph's caches share.
- Timestamps, error texts, tags, versions, logging; `MaxConcurrentWorkflows`, which no
  code reads. `logging.go`, `helpers.go` and the examples hold no state.

## 7. What is left

Every safety property that holds is proved. Worth adding next: several engine processes on
one store, and `CalculateBackoff` with the width of its integers.
