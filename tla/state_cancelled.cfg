\* Two steps of a level, one attempt each, on a store that honours its context.
CONSTANTS
  b = b  c = c
  NoValue = NoValue
  Steps = {b, c}
  Keys = {1}
  MaxCalls = 1
  MaxAttempts = 1
  MaxFaults = 0
  StoreHonoursCtx = TRUE
SPECIFICATION Spec
SYMMETRY Level
CHECK_DEADLOCK FALSE
INVARIANT StateFailsForOwnReasons
