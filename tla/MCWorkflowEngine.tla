--------------------------- MODULE MCWorkflowEngine ---------------------------
(***************************************************************************)
(* The workflows TLC runs the engine on.                                    *)
(*                                                                          *)
(* Diamond: a, then b and c in parallel, then d, to which AddEdge gave b as  *)
(* the first predecessor.  Fork extends it with a last level of e and f, so  *)
(* that the run's output is that of a parallel step; f skips a level.        *)
(* b and e continue on error: d and f may receive null, and a run may        *)
(* complete although a step of its last level failed.                        *)
(***************************************************************************)
EXTENDS WorkflowEngine, TLC

CONSTANTS a, b, c, d, e, f

DiamondSteps == {a, b, c, d}
DiamondLevel == (a :> 1) @@ (b :> 2) @@ (c :> 2) @@ (d :> 3)
DiamondPrevious == (a :> <<>>) @@ (b :> <<a>>) @@ (c :> <<a>>) @@ (d :> <<b, c>>)
DiamondRetries == [s \in DiamondSteps |-> IF s \in {a, b} THEN 1 ELSE 0]

ForkSteps == DiamondSteps \cup {e, f}
ForkLevel == DiamondLevel @@ (e :> 4) @@ (f :> 4)
ForkPrevious == DiamondPrevious @@ (e :> <<d>>) @@ (f :> <<b, d>>)
ForkRetries == DiamondRetries @@ (e :> 0) @@ (f :> 0)
===============================================================================
