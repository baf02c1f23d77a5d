-------------------------------- MODULE MCStores --------------------------------
(***************************************************************************)
(* Two runs of two steps.  The records are those the engine writes: a run   *)
(* moves on, a step is created PENDING and then completed or failed; one    *)
(* run record and one step record change what identifies them.  "coded" is  *)
(* an error with a code and a text.                                         *)
(***************************************************************************)
EXTENDS Stores, TLC

CONSTANTS r1, r2, s1, s2, k, v, w

RunRecord(status, resource) == [status |-> status, resource |-> resource]
TwoRuns == {RunRecord("RUNNING", 1), RunRecord("COMPLETED", 1), RunRecord("COMPLETED", 2)}

ExecRecord(status, index, attempt, output, error) ==
  [status |-> status, index |-> index, attempt |-> attempt, output |-> output, error |-> error]
FewExecs ==
  {ExecRecord("PENDING", 0, 0, None, None), ExecRecord("PENDING", 1, 0, None, None),
   ExecRecord("COMPLETED", 0, 1, v, None), ExecRecord("FAILED", 1, 1, None, "coded")}

Alike == Permutations({r1, r2}) \cup Permutations({s1, s2})
===============================================================================
