SPECIFICATION FairSpec
CONSTANTS
  a = a
  b = b
  c = c
  d = d
  e = e
  f = f
  Steps <- ForkSteps
  Depth = 4
  LevelOf <- ForkLevel
  Previous <- ForkPrevious
  ContinueOnError = {b, e}
  MaxRetries <- ForkRetries
  Cancellers = {"c1"}
  Synchronous = FALSE
  ListsRuns = FALSE
  StoreHonoursCtx = FALSE
  MaxFaults = 0
  MayCrash = FALSE
  RunInput = RunInput
  NullInput = NullInput
  NoValue = NoValue
INVARIANTS
  TypeOK
  LevelBarrier
  DataFlowExact
  CompletedMeansDone
  OutputIsDeepest
  FailedHasCause
  RecordsSettled
  ExecutionOrder
  CancelBoundsWork
  CancelledIsPersisted
PROPERTIES
  ImplementsLifecycle
  RunEnds
