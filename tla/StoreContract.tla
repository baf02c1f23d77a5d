------------------------------ MODULE StoreContract ------------------------------
(***************************************************************************)
(* What users of WorkflowStore (store_interface.go) may rely on, whichever  *)
(* store they have.  A run is created once; its step executions, outputs    *)
(* and state belong to it and are changed one at a time, each by a call     *)
(* that names it; what identifies a record does not change.                 *)
(*                                                                          *)
(* A run used in another way (a record updated before it is created, or     *)
(* created twice) is misused: its own records are then unspecified.         *)
(***************************************************************************)
CONSTANTS RunIDs, StepIDs, Keys, None,
          SameRun(_, _),  \* two records of a run have the same identity
          SameStep(_, _)

VARIABLES
  runs,     \* runs[r]: its record, or None
  execs,    \* execs[<<r, s>>]: the record of the execution of s in r, or None
  outputs,  \* outputs[<<r, s>>]
  state,    \* state[<<r, k>>]
  misused   \* runs that were misused

cells == <<runs, execs, outputs, state>>
vars == <<cells, misused>>

Init ==
  /\ runs = [r \in RunIDs |-> None] /\ misused = {}
  /\ execs = [x \in RunIDs \X StepIDs |-> None]
  /\ outputs = [x \in RunIDs \X StepIDs |-> None]
  /\ state = [x \in RunIDs \X Keys |-> None]

\* One cell of a table changes.
Puts(table, next, x) == next = [table EXCEPT ![x] = next[x]] /\ next[x] # None

CreateRun(r) ==
  /\ runs[r] = None /\ Puts(runs, runs', r)
  /\ UNCHANGED <<execs, outputs, state>>

UpdateRun(r) ==
  /\ runs[r] # None /\ Puts(runs, runs', r) /\ SameRun(runs[r], runs'[r])
  /\ UNCHANGED <<execs, outputs, state>>

PutStep(r, s) ==
  /\ runs[r] # None /\ Puts(execs, execs', <<r, s>>)
  /\ execs[<<r, s>>] # None => SameStep(execs[<<r, s>>], execs'[<<r, s>>])
  /\ UNCHANGED <<runs, outputs, state>>

SaveOutput(r, s) ==
  /\ runs[r] # None /\ Puts(outputs, outputs', <<r, s>>)
  /\ UNCHANGED <<runs, execs, state>>

SaveState(r, k) ==
  /\ runs[r] # None /\ Puts(state, state', <<r, k>>)
  /\ UNCHANGED <<runs, execs, outputs>>

DeleteState(r, k) ==
  /\ state' = [state EXCEPT ![<<r, k>>] = None]
  /\ UNCHANGED <<runs, execs, outputs>>

Use(r) ==
  \/ CreateRun(r) \/ UpdateRun(r)
  \/ \E s \in StepIDs : PutStep(r, s) \/ SaveOutput(r, s)
  \/ \E k \in Keys : SaveState(r, k) \/ DeleteState(r, k)

Others(table, r) == [x \in {y \in DOMAIN table : y[1] # r} |-> table[x]]
Misuse(r) ==
  /\ misused' = misused \cup {r}
  /\ \A q \in RunIDs \ {r} : runs'[q] = runs[q]
  /\ Others(execs', r) = Others(execs, r)
  /\ Others(outputs', r) = Others(outputs, r)
  /\ Others(state', r) = Others(state, r)

Next ==
  \E r \in RunIDs :
    \/ Use(r) /\ r \notin misused /\ UNCHANGED misused
    \/ Misuse(r)

Spec == Init /\ [][Next]_vars
===============================================================================
