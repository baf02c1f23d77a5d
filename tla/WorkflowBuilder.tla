----------------------------- MODULE WorkflowBuilder -----------------------------
(***************************************************************************)
(* A program that makes its steps, chains them with one WorkflowBuilder     *)
(* (workflow_builder.go) into a Workflow (workflow.go), builds it, and      *)
(* executes the steps it registered.  Steps are objects: other workflows    *)
(* that share them may be built at any time.                                *)
(*                                                                          *)
(* Build is the last builder call of the program.  What Validate decides is *)
(* Valid of ExecutionGraph, which GraphReaders compares with the algorithm. *)
(* MaxGroups bounds the calls that add steps, MaxBuilds the other builds.   *)
(***************************************************************************)
EXTENDS ExecutionGraph, Steps

CONSTANTS
  StepOptions,    \* StepOptions[s]: the options NewStep gets, a sequence
  Conditional,    \* steps wrapped with NewConditionalStep
  DefaultValue,   \* DefaultValue[s]: given with the condition, or NoValue
  SameType,       \* steps whose output type is their input type
  Unreadable,     \* inputs that do not unmarshal
  ParallelSteps,  \* arguments Parallel may get, sequences of steps
  SequenceSteps,  \* arguments Sequence may get
  Configs,        \* arguments WithConfig may get
  SharedSteps,    \* steps that other workflows register too
  MaxGroups, MaxBuilds

ASSUME BuilderAssumption ==
  /\ StepOptions \in [StepIDs -> Seq(Options)]
  /\ Conditional \cup SameType \subseteq StepIDs /\ Unreadable \subseteq Values
  /\ DefaultValue \in [StepIDs -> Values \cup {NoValue}]
  /\ ParallelSteps \cup SequenceSteps \subseteq Seq(StepIDs)
  /\ SharedSteps \subseteq StepIDs
  /\ MaxGroups \in Nat /\ MaxBuilds \in Nat

VARIABLES
  steps,      \* the step objects made so far
  shared,     \* defaultValidationConfig.validator
  builder,    \* graph, registered, lastStepIDs and config
  status,     \* what became of the builder
  groups,     \* history: the steps each call added
  guarded,    \* history: the calls that were ThenStepIf
  builds,     \* history: steps and configuration of every workflow built
  last        \* history: the last execution of a step

vars == <<steps, shared, builder, status, groups, guarded, builds, last>>

Made == DOMAIN steps
Own(s) == FoldLeft(Configure, DefaultExecutionConfig, StepOptions[s])
NoExecution == [step |-> NoStep, input |-> NoValue, condition |-> "true", own |-> "true",
                outcome |-> Outcome(FALSE, "none", NoValue)]

NewWorkflow ==
  [graph |-> NewExecutionGraph, registered |-> [s \in StepIDs |-> "no"],
   lastStepIDs |-> <<>>, config |-> DefaultExecutionConfig]

Init ==
  /\ steps = [s \in {} |-> NoValue]
  /\ shared = DefaultValidator
  /\ builder = NewWorkflow /\ status = "open"
  /\ groups = <<>> /\ guarded = {} /\ builds = <<>> /\ last = NoExecution

-----------------------------------------------------------------------------
(* The builder.                                                             *)

\* Workflow.AddStep and GetStep.
AddStep(b, s, how) == [b EXCEPT !.registered[s] = how, !.graph = AddNode(@, s)]
IsRegistered(b, s) == b.registered[s] # "no"

\* A step that is not registered is added, and an edge from each last step.
Chain(b, s, how) ==
  LET registered == IF IsRegistered(b, s) THEN b ELSE AddStep(b, s, how)
  IN [registered EXCEPT !.graph = FoldLeft(LAMBDA h, from : AddEdge(h, from, s), @, b.lastStepIDs)]

ThenStep(b, s, how) == [Chain(b, s, how) EXCEPT !.lastStepIDs = <<s>>]

\* Mutant: only the edges are added, to a node that may not be registered.
ParallelForgets(b, ss) ==
  [b EXCEPT !.graph = FoldLeft(AddNode, @, ss), !.lastStepIDs = ss]
\* Mutant: the last step alone is what the next call chains from.
ParallelLast(b, ss) ==
  LET chained == FoldLeft(LAMBDA d, s : Chain(d, s, "plain"), b, ss)
  IN [chained EXCEPT !.lastStepIDs = IF ss = <<>> THEN <<>> ELSE <<Last(ss)>>]
Parallel(b, ss) ==
  LET chained == FoldLeft(LAMBDA d, s : Chain(d, s, "plain"), b, ss)
  IN [chained EXCEPT !.lastStepIDs = ss]

Sequence(b, ss) == FoldLeft(LAMBDA c, s : ThenStep(c, s, "plain"), b, ss)

\* Mutant: a step is wrapped only to return a default value.
ThenStepIfDefault(b, s) ==
  ThenStep(b, s, IF DefaultValue[s] = NoValue THEN "plain" ELSE "if")
ThenStepIf(b, s) == ThenStep(b, s, "if")

Added(b, more, conditional) ==
  /\ status = "open" /\ Made = StepIDs
  /\ Len(groups) + Len(more) <= MaxGroups
  /\ builder' = b /\ groups' = groups \o more /\ guarded' = guarded \cup conditional
  /\ UNCHANGED <<steps, shared, status, builds, last>>

Add ==
  \/ \E s \in StepIDs : Added(ThenStep(builder, s, "plain"), <<<<s>>>>, {})
  \/ \E s \in StepIDs : Added(ThenStepIf(builder, s), <<<<s>>>>, {Len(groups) + 1})
  \/ \E ss \in ParallelSteps : Added(Parallel(builder, ss), <<ss>>, {})
  \/ \E ss \in SequenceSteps :
       Added(Sequence(builder, ss), [i \in DOMAIN ss |-> <<ss[i]>>], {})

\* SetEntryPoint panics when the step is unknown.
ChooseEntryPoint ==
  /\ status = "open" /\ Made = StepIDs
  /\ \E s \in StepIDs :
       /\ builder' = [builder EXCEPT !.graph = SetEntryPoint(@, s)]
       /\ status' = IF s \in builder.graph.nodes THEN status ELSE "panicked"
  /\ UNCHANGED <<steps, shared, groups, guarded, builds, last>>

WithConfig ==
  /\ status = "open" /\ Made = StepIDs
  /\ \E c \in Configs : builder' = [builder EXCEPT !.config = c]
  /\ UNCHANGED <<steps, shared, status, groups, guarded, builds, last>>

\* Mutant: only the number of retries is compared.
ConfiguredByRetries(objects, registered, config) ==
  [s \in DOMAIN objects |->
     IF s \in registered /\ objects[s].config.retries = DefaultExecutionConfig.retries
     THEN [objects[s] EXCEPT !.config = config] ELSE objects[s]]
\* The steps that have the default configuration get the workflow's.
Configured(objects, registered, config) ==
  [s \in DOMAIN objects |->
     IF s \in registered /\ objects[s].config = DefaultExecutionConfig
     THEN [objects[s] EXCEPT !.config = config] ELSE objects[s]]

\* Mutant: nothing has to be reachable.
AcceptsUnreached(b) ==
  b.graph.entry \in b.graph.nodes /\ At(b.graph)[Cardinality(b.graph.nodes)] = {}
\* Mutant: nothing looks for cycles.
AcceptsCycles(b) ==
  UNION {At(b.graph)[k] : k \in DOMAIN At(b.graph)} = b.graph.nodes
\* Workflow.Validate; every node was registered with its step.
Accepts(b) ==
  Valid(b.graph) /\ \A s \in b.graph.nodes : IsRegistered(b, s)

Configures(registered, config) ==
  /\ steps' = Configured(steps, registered, config)
  /\ builds' = Append(builds, [steps |-> registered, config |-> config])

\* Build, and MustBuild, which panics instead of returning an error.
Build ==
  /\ status = "open" /\ Made = StepIDs
  /\ IF Accepts(builder)
     THEN status' = "built" /\ Configures(builder.graph.nodes, builder.config)
     ELSE status' \in {"rejected", "panicked"} /\ UNCHANGED <<steps, builds>>
  /\ UNCHANGED <<shared, builder, groups, guarded, last>>

-----------------------------------------------------------------------------
(* Around the builder.                                                      *)

MakeStep ==
  /\ \E s \in StepIDs \ Made :
       LET made == NewStep(StepOptions[s], shared)
       IN /\ steps' = [t \in Made \cup {s} |-> IF t = s THEN made.step ELSE steps[t]]
          /\ shared' = made.shared
  /\ UNCHANGED <<builder, status, groups, guarded, builds, last>>

\* A workflow that registered some of the shared steps is built, before, between
\* or after the calls of this one, with a configuration of its own or without.
BuildElsewhere ==
  /\ Len(builds) < MaxBuilds
  /\ \E registered \in SUBSET (SharedSteps \cap Made) \ {{}} :
       \E config \in Configs \cup {DefaultExecutionConfig} : Configures(registered, config)
  /\ UNCHANGED <<shared, builder, status, groups, guarded, last>>

\* The engine calls Execute of the registered object: condition is what the
\* condition given to ThenStepIf answers, own the one of NewConditionalStep.
Execute(s, input, result, condition, own) ==
  LET plain == ExecuteStep(Validator(steps[s], shared), input \notin Unreadable, input, result)
      object == IF s \in Conditional
                THEN ExecuteConditional(own, DefaultValue[s], plain)
                ELSE plain
  IN IF builder.registered[s] = "if"
     THEN ExecuteWrapped(condition, DefaultValue[s], s \in SameType, input, object)
     ELSE object

Group(i) == ToSet(groups[i])
Guarded == UNION {Group(i) : i \in guarded}
Answers(asked) == IF asked THEN {"true", "false", "error"} ELSE {"true"}

\* An execution changes nothing here: one is enough.
Run ==
  /\ status = "built" /\ last = NoExecution
  /\ \E s \in builder.graph.nodes, input \in Values, result \in Values \cup {NoValue} :
       \E condition \in Answers(s \in Guarded), own \in Answers(s \in Conditional) :
         last' = [step |-> s, input |-> input, condition |-> condition, own |-> own,
                  outcome |-> Execute(s, input, result, condition, own)]
  /\ UNCHANGED <<steps, shared, builder, status, groups, guarded, builds>>

Next ==
  MakeStep \/ Add \/ ChooseEntryPoint \/ WithConfig \/ BuildElsewhere \/ Build \/ Run

Spec == Init /\ [][Next]_vars

-----------------------------------------------------------------------------
Settings == {Own(s) : s \in StepIDs} \cup Configs \cup {DefaultExecutionConfig}

(* Every variable stays in its range; what the graph names is registered,   *)
(* and the next call chains from steps of the graph.                        *)
BuilderTypeOK ==
  /\ Made \subseteq StepIDs /\ shared \in Validators
  /\ \A s \in Made :
       /\ steps[s].config \in Settings
       /\ steps[s].validation \in {"default", "own", "off"}
       /\ steps[s].validator \in Validators \cup {NoValue}
  /\ builder.graph \in Graph /\ builder.config \in Settings
  /\ builder.registered \in [StepIDs -> {"no", "plain", "if"}]
  /\ builder.graph.nodes = {s \in StepIDs : builder.registered[s] # "no"}
  /\ ToSet(builder.lastStepIDs) \subseteq builder.graph.nodes
  /\ status \in {"open", "built", "rejected", "panicked"}
  /\ guarded \subseteq DOMAIN groups
  /\ builds \in Seq([steps : SUBSET StepIDs, config : Settings])

NoEmptyGroup == \A i \in DOMAIN groups : groups[i] # <<>>

(* Build accepts a sequence of calls exactly when the first one adds one    *)
(* step, which is the entry point, and no step appears in two calls         *)
(* (workflow_builder.go:141-163): in particular it rejects every workflow   *)
(* that starts with a Parallel of two steps.                                *)
AcceptedExactly ==
  status \in {"built", "rejected"} /\ NoEmptyGroup =>
    (status = "built" <=>
       /\ groups # <<>>
       /\ Group(1) = {builder.graph.entry}
       /\ \A i, j \in DOMAIN groups : i # j => Group(i) \cap Group(j) = {})

(* The execution levels of an accepted workflow are the calls that added    *)
(* its steps, in their order, and a step's input comes from the first step  *)
(* of the call before (graph.go:238, engine/engine.go:320).                 *)
LevelsAreCalls ==
  status = "built" /\ NoEmptyGroup =>
    /\ Levels(builder.graph) = [i \in DOMAIN groups |-> Group(i)]
    /\ \A i \in 2 .. Len(groups) : \A s \in Group(i) :
         Head(GetPreviousSteps(builder.graph, s)) = Head(groups[i - 1])

\* What WorkflowEngine assumes of the workflow it executes.
FitsEngine(Steps, Depth, LevelOf, Previous) ==
  /\ IsFiniteSet(Steps) /\ Depth \in Nat \ {0}
  /\ LevelOf \in [Steps -> 1 .. Depth] /\ Previous \in [Steps -> Seq(Steps)]
  /\ \A i \in 1 .. Depth : \E s \in Steps : LevelOf[s] = i
  /\ \A s \in Steps : \A k \in 1 .. Len(Previous[s]) :
       LevelOf[Previous[s][k]] < LevelOf[s]

(* What Build accepts, from any calls, is a workflow the engine can execute *)
(* level by level: each step is in one level, its predecessors in levels    *)
(* before, and only the first level has none, and takes the run's input     *)
(* (engine/engine.go:171, engine/engine.go:312).                            *)
BuiltFitsEngine ==
  status = "built" =>
    LET g == builder.graph
        levels == Levels(g)
        levelOf == [s \in g.nodes |-> CHOOSE i \in DOMAIN levels : s \in levels[i]]
        previous == [s \in g.nodes |-> GetPreviousSteps(g, s)]
    IN /\ FitsEngine(g.nodes, Len(levels), levelOf, previous)
       /\ \A i \in DOMAIN levels : levels[i] = {s \in g.nodes : levelOf[s] = i}
       /\ \A s \in g.nodes : previous[s] = <<>> <=> levelOf[s] = 1

\* The i-th call is the first that was given s: the one that registered it.
Registers(i, s) == s \in Group(i) /\ \A j \in 1 .. i - 1 : s \notin Group(j)

(* The condition of a ThenStepIf counts exactly where that call registered  *)
(* the step, and is dropped where a call before did: a step's handler runs  *)
(* on an input it accepts if and only if the condition that counts and its  *)
(* own hold.  A step can be given to two calls of a workflow that is built, *)
(* if a Parallel without steps stands between them (workflow_builder.go:58, *)
(* 103, step.go:322).                                                       *)
ConditionsKept ==
  \A i \in DOMAIN groups :
    last.step # NoStep /\ Registers(i, last.step) =>
      (last.outcome.ran <=>
         /\ AcceptsInput(Validator(steps[last.step], shared), last.input \notin Unreadable,
                         last.input)
         /\ last.own = "true"
         /\ i \in guarded => last.condition = "true")

\* The i-th workflow that was built gives a configuration to its steps, s too.
Offers(i, s) == s \in builds[i].steps /\ builds[i].config # DefaultExecutionConfig

(* A step has the first configuration that is not the default one, of its   *)
(* own options and then of the workflows built with it, in that order:      *)
(* neither a later Build nor a later WithConfig replaces it, and a step     *)
(* without one is configured by whatever workflow is built next with a      *)
(* configuration, this one or another (workflow_builder.go:155-159).        *)
ConfigPropagates ==
  \A s \in Made :
    IF Own(s) # DefaultExecutionConfig THEN steps[s].config = Own(s)
    ELSE \/ /\ steps[s].config = DefaultExecutionConfig
            /\ \A i \in DOMAIN builds : ~Offers(i, s)
         \/ \E i \in DOMAIN builds :
              /\ Offers(i, s) /\ \A j \in 1 .. i - 1 : ~Offers(j, s)
              /\ steps[s].config = builds[i].config

(* A step validates with the validator its own options name, and with the   *)
(* default one if they name none (validation.go:119, step.go:188).          *)
Asked(s) ==
  LET options == SelectSeq(StepOptions[s], LAMBDA o : o.set \in {"validator", "no validation"})
  IN CASE options = <<>> -> DefaultValidator
       [] options # <<>> /\ Last(options).set = "validator" -> Last(options).to
       [] OTHER -> NoValue
CustomValidatorIsPerStep ==
  \A s \in Made : Validator(steps[s], shared) = Asked(s)
===============================================================================
