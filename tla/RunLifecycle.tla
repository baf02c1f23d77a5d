------------------------------ MODULE RunLifecycle ------------------------------
(***************************************************************************)
(* What a caller of the engine is promised about one persisted workflow    *)
(* run.  The run is created PENDING, becomes RUNNING, reports a progress    *)
(* that never goes back, and ends in exactly one terminal status which is   *)
(* then final.  User code (a step handler) runs only while the persisted    *)
(* run is RUNNING, and each step at most MaxRetries + 1 times.              *)
(***************************************************************************)
EXTENDS Naturals

CONSTANTS
  Steps,       \* the steps of the workflow
  Total,       \* how many there are; progress is counted in finished steps
  MaxRetries   \* ExecutionConfig.MaxRetries of every step

VARIABLES
  status,      \* status of the persisted run, "ABSENT" before CreateRun
  progress,    \* steps the persisted run reports as finished
  calls        \* calls[s]: how often the handler of s was entered

vars == <<status, progress, calls>>

Terminal == {"COMPLETED", "FAILED", "CANCELLED"}

Init ==
  /\ status = "ABSENT"
  /\ progress = 0
  /\ calls = [s \in Steps |-> 0]

\* A status change of the persisted run; the progress it carries may have
\* grown, since reporting progress is best-effort.
Become(old, new) ==
  /\ status = old
  /\ status' = new
  /\ progress' \in progress .. Total
  /\ UNCHANGED calls

Create == Become("ABSENT", "PENDING") /\ progress' = 0

Begin == Become("PENDING", "RUNNING") /\ progress' = 0

Report == Become("RUNNING", "RUNNING")

Complete == Become("RUNNING", "COMPLETED") /\ progress' = Total

Fail == Become("RUNNING", "FAILED")

\* A run whose executor never got to RUNNING can still be cancelled.
Cancel == Become("RUNNING", "CANCELLED") \/ Become("PENDING", "CANCELLED")

Call(s) ==
  /\ status = "RUNNING"
  /\ calls[s] =< MaxRetries[s]
  /\ calls' = [calls EXCEPT ![s] = @ + 1]
  /\ UNCHANGED <<status, progress>>

Next ==
  \/ Create \/ Begin \/ Report \/ Complete \/ Fail \/ Cancel
  \/ \E s \in Steps : Call(s)

Spec == Init /\ [][Next]_vars
=================================================================================
