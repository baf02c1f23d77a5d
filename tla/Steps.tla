--------------------------------- MODULE Steps ---------------------------------
(***************************************************************************)
(* Step objects (step.go), their options (config.go, validation.go), and    *)
(* what Execute does with an input.                                         *)
(*                                                                          *)
(* A step is a record.  validation says which validationConfig it points    *)
(* to: "default" is the one all steps share, "own" one of its own, "off" is *)
(* nil.  A validator is what it rejects; what a handler, a condition and    *)
(* json.Unmarshal answer are arguments of Execute.                          *)
(***************************************************************************)
EXTENDS Integers, SequencesExt

CONSTANTS
  Values,            \* inputs and outputs
  ZeroValue,         \* what reflect.Zero marshals to
  NoValue,           \* nil
  Validators,
  DefaultValidator,  \* defaultValidator
  Rejected           \* Rejected[v]: the values the validator v refuses

ASSUME ValuesAssumption ==
  /\ ZeroValue \in Values /\ NoValue \notin Values
  /\ DefaultValidator \in Validators /\ NoValue \notin Validators
  /\ Rejected \in [Validators -> SUBSET Values]

DefaultExecutionConfig ==
  [retries |-> 3, delayMs |-> 1000, backoff |-> "LINEAR", timeout |-> 30,
   continueOnError |-> FALSE]

\* What an option sets, and to what.  Durations are in milliseconds; a
\* timeout keeps its whole seconds only, rounded towards zero.
Options ==
  [set : {"retries", "delay", "timeout"}, to : Int]
    \cup [set : {"backoff"}, to : {"LINEAR", "EXPONENTIAL", "NONE"}]
    \cup [set : {"continueOnError"}, to : BOOLEAN]
    \cup [set : {"validator"}, to : Validators] \cup [set : {"no validation"}, to : {NoValue}]

WithTimeout(c, ms) ==
  [c EXCEPT !.timeout = IF ms < 0 THEN -((-ms) \div 1000) ELSE ms \div 1000]
Configure(c, option) ==
  CASE option.set = "retries" -> [c EXCEPT !.retries = option.to]
    [] option.set = "timeout" -> WithTimeout(c, option.to)
    [] option.set = "backoff" -> [c EXCEPT !.backoff = option.to]
    [] option.set = "delay" -> [c EXCEPT !.delayMs = option.to]
    [] option.set = "continueOnError" -> [c EXCEPT !.continueOnError = option.to]
    [] OTHER -> c

\* Options are applied to the step and to the validator that the default
\* validationConfig holds at the time.
WithCustomValidator(made, v) ==
  CASE made.step.validation = "default" -> [made EXCEPT !.shared = v]
    [] OTHER -> [made EXCEPT !.step.validation = "own", !.step.validator = v]
ApplyStep(made, option) ==
  CASE option.set = "validator" -> WithCustomValidator(made, option.to)
    [] option.set = "no validation" -> [made EXCEPT !.step.validation = "off"]
    [] OTHER -> [made EXCEPT !.step.config = Configure(@, option)]

NewStep(options, shared) ==
  FoldLeft(ApplyStep,
    [step |-> [config |-> DefaultExecutionConfig, validation |-> "default",
               validator |-> NoValue],
     shared |-> shared],
    options)

\* The validator a step uses, or NoValue.
Validator(step, shared) ==
  CASE step.validation = "default" -> shared
    [] step.validation = "own" -> step.validator
    [] OTHER -> NoValue

\* validateStruct, skipped where there is no validationConfig.
Refuses(validator, value) == validator # NoValue /\ value \in Rejected[validator]

Outcome(ran, error, output) == [ran |-> ran, error |-> error, output |-> output]

\* validateInputData and validateOutputData; readable tells whether the
\* input unmarshals to the step's input type.
AcceptsInput(validator, readable, input) == readable /\ ~Refuses(validator, input)
AcceptsOutput(validator, output) == ~Refuses(validator, output)

\* Step.Execute: result is what the handler returns, NoValue for an error.
ExecuteStep(validator, readable, input, result) ==
  IF ~AcceptsInput(validator, readable, input) THEN Outcome(FALSE, "input", NoValue)
  ELSE IF result = NoValue THEN Outcome(TRUE, "handler", NoValue)
  ELSE IF ~AcceptsOutput(validator, result) THEN Outcome(TRUE, "output", NoValue)
  ELSE Outcome(TRUE, "none", result)

\* evalCondition, then the step or what replaces its output.
Conditionally(condition, execute, otherwise) ==
  CASE condition = "error" -> Outcome(FALSE, "condition", NoValue)
    [] condition = "true" -> execute
    [] OTHER -> otherwise

\* ConditionalStep.Execute with Default.
ExecuteConditional(condition, default, execute) ==
  Conditionally(condition, execute,
    Outcome(FALSE, "none", IF default = NoValue THEN ZeroValue ELSE default))

\* conditionalStepWrapper.Execute: without a default value the input passes
\* through a step that returns what it takes, and another step is skipped.
ExecuteWrapped(condition, default, sameType, input, execute) ==
  Conditionally(condition, execute,
    IF default # NoValue THEN Outcome(FALSE, "none", default)
    ELSE IF sameType THEN Outcome(FALSE, "none", input)
    ELSE Outcome(FALSE, "skipped", ZeroValue))
===============================================================================
