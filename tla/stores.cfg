\* Every sequence of five calls on two runs, on the three stores.
CONSTANTS
  r1 = r1  r2 = r2  s1 = s1  s2 = s2  k = k  v = v  w = w
  None = None
  RunIDs = {r1, r2}
  StepIDs = {s1, s2}
  Keys = {k}
  Blobs = {v, w}
  Runs <- TwoRuns
  Execs <- FewExecs
  MaxCalls = 5
SPECIFICATION Spec
SYMMETRY Alike
CHECK_DEADLOCK FALSE
INVARIANTS StoreTypeOK StoresAgree
PROPERTY ImplementsContract
