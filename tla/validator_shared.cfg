\* Two steps, one of them with a validator of its own.
CONSTANTS
  a = a  b = b  c = c  d = d
  zero = zero  good = good  junk = junk  standard = standard  custom = custom
  NoStep = NoStep  NoValue = NoValue
  StepIDs = {a, b}
  Values = {zero, good, junk}
  ZeroValue = zero
  Validators = {standard, custom}
  DefaultValidator = standard
  Rejected <- Rejects
  StepOptions <- TwoOptions
  Conditional = {}
  DefaultValue <- TwoDefaults
  SameType = {}
  Unreadable = {junk}
  ParallelSteps = {}
  SequenceSteps = {}
  Configs = {}
  SharedSteps = {}
  MaxGroups = 2
  MaxBuilds = 0
SPECIFICATION Spec
CHECK_DEADLOCK FALSE
INVARIANT CustomValidatorIsPerStep
