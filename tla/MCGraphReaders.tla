----------------------------- MODULE MCGraphReaders -----------------------------
(***************************************************************************)
(* Four steps.  The edges hold a step that is queued again (x: from e, then *)
(* from a), its successor y, and a cycle over a, x and y.                   *)
(***************************************************************************)
EXTENDS GraphReaders

CONSTANTS e, a, x, y, c1, c2

SomeEdges == {<<e, a>>, <<e, x>>, <<a, x>>, <<x, y>>, <<y, a>>}
===============================================================================
