\* Up to three calls that add steps, of four steps, with every way to add them.
CONSTANTS
  a = a  b = b  c = c  d = d
  zero = zero  good = good  junk = junk  standard = standard  custom = custom
  NoStep = NoStep  NoValue = NoValue
  StepIDs = {a, b, c, d}
  Values = {zero, good, junk}
  ZeroValue = zero
  Validators = {standard, custom}
  DefaultValidator = standard
  Rejected <- Rejects
  StepOptions <- FourOptions
  Conditional = {d}
  DefaultValue <- FourDefaults
  SameType = {a, c}
  Unreadable = {junk}
  ParallelSteps <- FourParallel
  SequenceSteps <- FourSequences
  Configs <- Linear
  SharedSteps = {b}
  MaxGroups = 3
  MaxBuilds = 2
SPECIFICATION Spec
CHECK_DEADLOCK FALSE
INVARIANTS BuilderTypeOK AcceptedExactly LevelsAreCalls BuiltFitsEngine ConditionsKept ConfigPropagates
