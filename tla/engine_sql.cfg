SPECIFICATION FairSpec
CONSTANTS
  a = a
  b = b
  c = c
  d = d
  e = e
  f = f
  Steps <- DiamondSteps
  Depth = 3
  LevelOf <- DiamondLevel
  Previous <- DiamondPrevious
  ContinueOnError = {b}
  MaxRetries <- DiamondRetries
  Cancellers = {"c1"}
  Synchronous = TRUE
  ListsRuns = FALSE
  StoreHonoursCtx = TRUE
  MaxFaults = 1
  MayCrash = TRUE
  RunInput = RunInput
  NullInput = NullInput
  NoValue = NoValue
INVARIANTS
  LevelBarrier
  DataFlow
  CompletedMeansDone
  CancelBoundsWork
  NilMeansStored
PROPERTIES
  ImplementsLifecycle
  ExecutorEnds
