\* Two steps of a level, two attempts and two calls each, on one key.
CONSTANTS
  b = b  c = c
  NoValue = NoValue
  Steps = {b, c}
  Keys = {1}
  MaxCalls = 2
  MaxAttempts = 2
  MaxFaults = 1
  StoreHonoursCtx = TRUE
SPECIFICATION Spec
SYMMETRY Level
CHECK_DEADLOCK FALSE
INVARIANTS AccessorTypeOK CacheCurrent OutputsFailForOwnReasons
PROPERTY ReadsLatest
