---------------------------- MODULE MCWorkflowBuilder ----------------------------
(***************************************************************************)
(* Four steps, so that a join behind two parallel steps fits in three       *)
(* calls.  b is configured with the default number of retries, and c with a *)
(* timeout below a second, which becomes zero.                              *)
(***************************************************************************)
EXTENDS WorkflowBuilder

CONSTANTS a, b, c, d, zero, good, junk, standard, custom

Option(set, to) == [set |-> set, to |-> to]

Rejects == [v \in {standard, custom} |-> IF v = standard THEN {zero} ELSE {good}]

FourOptions ==
  [s \in {a, b, c, d} |->
     CASE s = b -> <<Option("retries", 3)>>
       [] s = c -> <<Option("no validation", NoValue), Option("timeout", 500),
                     Option("validator", custom)>>
       [] OTHER -> <<>>]
FourDefaults == [s \in {a, b, c, d} |-> IF s = b THEN good ELSE NoValue]
FourParallel == {<<>>, <<a, b>>, <<b, b>>, <<b, c>>, <<b, d>>, <<d, a>>}
FourSequences == {<<c, d>>}

TwoOptions ==
  [s \in {a, b} |-> IF s = a THEN <<Option("validator", custom)>> ELSE <<>>]
TwoDefaults == [s \in {a, b} |-> NoValue]

NoRetries == [DefaultExecutionConfig EXCEPT !.retries = 0]
Careful == [DefaultExecutionConfig EXCEPT !.timeout = 60, !.continueOnError = TRUE]
Linear == {NoRetries, Careful}
===============================================================================
