\* One run of one step: created, and its step written twice.
CONSTANTS
  r1 = r1  r2 = r2  s1 = s1  s2 = s2  k = k  v = v  w = w
  None = None
  RunIDs = {r1}
  StepIDs = {s1}
  Keys = {k}
  Blobs = {v}
  Runs <- TwoRuns
  Execs <- FewExecs
  MaxCalls = 3
SPECIFICATION Spec
CHECK_DEADLOCK FALSE
INVARIANT StepRecordsReadBack
