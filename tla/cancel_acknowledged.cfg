SPECIFICATION FairSpec
CONSTANTS
  a = a
  b = b
  c = c
  d = d
  e = e
  f = f
  Steps <- DiamondSteps
  Depth = 3
  LevelOf <- DiamondLevel
  Previous <- DiamondPrevious
  ContinueOnError = {b}
  MaxRetries <- DiamondRetries
  Cancellers = {"c1"}
  Synchronous = FALSE
  ListsRuns = FALSE
  StoreHonoursCtx = FALSE
  MaxFaults = 0
  MayCrash = FALSE
  RunInput = RunInput
  NullInput = NullInput
  NoValue = NoValue
PROPERTY
  AcknowledgedCancelWins
