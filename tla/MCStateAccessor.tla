---------------------------- MODULE MCStateAccessor ----------------------------
(***************************************************************************)
(* Two steps of a level, which may both use everything.                     *)
(***************************************************************************)
EXTENDS StateAccessor, TLC

CONSTANTS b, c

Level == Permutations({b, c})
===============================================================================
