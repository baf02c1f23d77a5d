--------------------------------- MODULE Stores ---------------------------------
(***************************************************************************)
(* The memory store, LibSQL and Postgres (store/), given the same calls.    *)
(*                                                                          *)
(* A call is one transaction: the memory store's mutex, one SQL statement.  *)
(* It is a record of the operation, the run, the step or key, and the value *)
(* written; its reply is "ok" or the kind of error.  Reads are operators.   *)
(* Of a run's record the status and the resource are kept (a filter uses    *)
(* them), of a step execution the fields that some store treats in a way of *)
(* its own.  Columns nothing reads are left out.  MaxCalls bounds the calls *)
(* of a behaviour.                                                          *)
(***************************************************************************)
EXTENDS Integers, FiniteSets

CONSTANTS
  RunIDs, StepIDs, Keys, Blobs,  \* Blobs: outputs and state values
  Runs,      \* run records, [status, resource]
  Execs,     \* step records, [status, index, attempt, output, error]
  None, MaxCalls

\* A record that is read back: LibSQL writes an error field of its own.
RunRecords == [status : {v.status : v \in Runs}, resource : {v.resource : v \in Runs}]
ExecRecords ==
  [status : {v.status : v \in Execs}, index : {v.index : v \in Execs},
   attempt : {v.attempt : v \in Execs}, output : {v.output : v \in Execs},
   error : {v.error : v \in Execs} \cup {"empty", "text"}]

\* The rows of the two SQL stores: columns, and the record.
RunRows == [status : {v.status : v \in Runs}, resource : {v.resource : v \in Runs}, data : Runs]
ExecRows ==
  [status : {v.status : v \in Execs}, index : {v.index : v \in Execs}, data : ExecRecords]

\* None is the absence of a value.
ASSUME StoresAssumption ==
  /\ Runs \subseteq RunRecords /\ Execs \subseteq ExecRecords
  /\ None \notin Blobs \cup RunRecords \cup ExecRecords \cup RunRows \cup ExecRows
  /\ MaxCalls \in Nat

VARIABLES mem, lib, pg, calls, misused

vars == <<mem, lib, pg, calls, misused>>

RunCells == RunIDs \X StepIDs
StateCells == RunIDs \X Keys

Call(op, keys, values) == [op : {op}, run : RunIDs, key : keys, value : values]
Calls ==
  Call("CreateRun", {None}, Runs) \cup Call("UpdateRun", {None}, Runs)
  \cup Call("CreateStepExecution", StepIDs, {x \in Execs : x.status = "PENDING"})
  \cup Call("UpdateStepExecution", StepIDs, Execs)
  \cup Call("SaveStepOutput", StepIDs, Blobs)
  \cup Call("SaveState", Keys, Blobs) \cup Call("DeleteState", Keys, {None})

Reply(store, err) == [store |-> store, err |-> err]
Cell(c) == <<c.run, c.key>>
Put(table, x, value) == [table EXCEPT ![x] = value]

-----------------------------------------------------------------------------
(* memory.go.  execMaps: the runs that have a map of step executions, which *)
(* is all that UpdateStepExecution asks for.                                *)

NewMemoryStore ==
  [runs |-> [r \in RunIDs |-> None], execs |-> [x \in RunCells |-> None],
   outputs |-> [x \in RunCells |-> None], state |-> [x \in StateCells |-> None],
   execMaps |-> {}]

\* Mutant: the maps of every run are made anew.
ClearedAll(table, r) == [x \in DOMAIN table |-> None]
Cleared(table, r) == [x \in DOMAIN table |-> IF x[1] = r THEN None ELSE table[x]]

MemCreateRun(m, c) ==
  IF m.runs[c.run] # None THEN Reply(m, "exists")
  ELSE Reply([runs |-> Put(m.runs, c.run, c.value), execs |-> Cleared(m.execs, c.run),
              outputs |-> Cleared(m.outputs, c.run), state |-> Cleared(m.state, c.run),
              execMaps |-> m.execMaps \cup {c.run}], "ok")

MemUpdateRun(m, c) ==
  IF m.runs[c.run] = None THEN Reply(m, "not found")
  ELSE Reply([m EXCEPT !.runs[c.run] = c.value], "ok")

MemCreateStepExecution(m, c) ==
  Reply([m EXCEPT !.execs[Cell(c)] = c.value, !.execMaps = @ \cup {c.run}], "ok")

MemUpdateStepExecution(m, c) ==
  IF c.run \notin m.execMaps THEN Reply(m, "not found")
  ELSE Reply([m EXCEPT !.execs[Cell(c)] = c.value], "ok")

MemSaveStepOutput(m, c) == Reply([m EXCEPT !.outputs[Cell(c)] = c.value], "ok")
MemSaveState(m, c) == Reply([m EXCEPT !.state[Cell(c)] = c.value], "ok")
MemDeleteState(m, c) == Reply([m EXCEPT !.state[Cell(c)] = None], "ok")

Memory(m, c) ==
  CASE c.op = "CreateRun" -> MemCreateRun(m, c)
    [] c.op = "UpdateRun" -> MemUpdateRun(m, c)
    [] c.op = "CreateStepExecution" -> MemCreateStepExecution(m, c)
    [] c.op = "UpdateStepExecution" -> MemUpdateStepExecution(m, c)
    [] c.op = "SaveStepOutput" -> MemSaveStepOutput(m, c)
    [] c.op = "SaveState" -> MemSaveState(m, c)
    [] OTHER -> MemDeleteState(m, c)

MemGetRun(m, r) == m.runs[r]
MemGetStepExecution(m, r, s) == m.execs[<<r, s>>]
MemLoadStepOutput(m, r, s) == m.outputs[<<r, s>>]
MemLoadState(m, r, k) == m.state[<<r, k>>]
MemGetAllState(m, r) == {k \in Keys : m.state[<<r, k>>] # None}
MemListRuns(m, f) ==
  {r \in RunIDs : m.runs[r] # None
                  /\ f.status \in {None, m.runs[r].status}
                  /\ f.resource \in {None, m.runs[r].resource}}
\* By the index that orders them.
MemListStepExecutions(m, r, i) ==
  {s \in StepIDs : m.execs[<<r, s>>] # None /\ m.execs[<<r, s>>].index = i}

-----------------------------------------------------------------------------
(* libsql.go and postgres.go: tables with a primary key.  The rows of runs  *)
(* and step executions hold the record as JSON, and columns the queries     *)
(* filter and order by.                                                     *)

NewTables ==
  [runs |-> [r \in RunIDs |-> None], execs |-> [x \in RunCells |-> None],
   outputs |-> [x \in RunCells |-> None], state |-> [x \in StateCells |-> None]]

RunRow(v) == [status |-> v.status, resource |-> v.resource, data |-> v]
ExecRow(v) == [status |-> v.status, index |-> v.index, data |-> v]

\* INSERT, in both.
CreateRun(db, c) ==
  IF db.runs[c.run] # None THEN Reply(db, "exists")
  ELSE Reply([db EXCEPT !.runs[c.run] = RunRow(c.value)], "ok")

\* Mutant: the status column keeps its first value.
SetRunData(db, c) ==
  IF db.runs[c.run] = None THEN db ELSE [db EXCEPT !.runs[c.run].data = c.value]
\* The columns that UPDATE names, where there is a row.
SetRun(db, c) ==
  IF db.runs[c.run] = None THEN db
  ELSE [db EXCEPT !.runs[c.run].status = c.value.status, !.runs[c.run].data = c.value]

\* Mutant: the row is replaced.
InsertOrReplace(db, c) == Reply([db EXCEPT !.execs[Cell(c)] = ExecRow(c.value)], "ok")
CreateStepExecution(db, c) ==
  IF db.execs[Cell(c)] # None THEN Reply(db, "exists")
  ELSE Reply([db EXCEPT !.execs[Cell(c)] = ExecRow(c.value)], "ok")

\* Mutant: the status column keeps its first value.
SetStepData(db, c, data) ==
  IF db.execs[Cell(c)] = None THEN db ELSE [db EXCEPT !.execs[Cell(c)].data = data]
SetStep(db, c, data) ==
  IF db.execs[Cell(c)] = None THEN db
  ELSE [db EXCEPT !.execs[Cell(c)].status = c.value.status, !.execs[Cell(c)].data = data]

\* ON CONFLICT DO UPDATE.
SaveStepOutput(db, c) == Reply([db EXCEPT !.outputs[Cell(c)] = c.value], "ok")
SaveState(db, c) == Reply([db EXCEPT !.state[Cell(c)] = c.value], "ok")
DeleteState(db, c) == Reply([db EXCEPT !.state[Cell(c)] = None], "ok")

\* LibSQL does not look at how many rows an UPDATE affected.
LibUpdateRun(db, c) == Reply(SetRun(db, c), "ok")

\* json_set: status, times, attempt and error only; the error is an object
\* with the text of the error and no code, or with no text where there is no
\* error.
LibData(old, v) ==
  [old EXCEPT !.status = v.status, !.attempt = v.attempt,
              !.error = IF v.error = None THEN "empty" ELSE "text"]
LibUpdateStepExecution(db, c) ==
  Reply(IF db.execs[Cell(c)] = None THEN db
        ELSE SetStep(db, c, LibData(db.execs[Cell(c)].data, c.value)), "ok")

LibSQL(db, c) ==
  CASE c.op = "CreateRun" -> CreateRun(db, c)
    [] c.op = "UpdateRun" -> LibUpdateRun(db, c)
    [] c.op = "CreateStepExecution" -> CreateStepExecution(db, c)
    [] c.op = "UpdateStepExecution" -> LibUpdateStepExecution(db, c)
    [] c.op = "SaveStepOutput" -> SaveStepOutput(db, c)
    [] c.op = "SaveState" -> SaveState(db, c)
    [] OTHER -> DeleteState(db, c)

\* REFERENCES workflow_runs(run_id), in Postgres only.
References(db, c, reply) ==
  IF db.runs[c.run] = None THEN Reply(db, "no run") ELSE reply

PgUpdateRun(db, c) ==
  IF db.runs[c.run] = None THEN Reply(db, "not found") ELSE Reply(SetRun(db, c), "ok")
PgCreateStepExecution(db, c) == References(db, c, CreateStepExecution(db, c))
PgUpdateStepExecution(db, c) ==
  IF db.execs[Cell(c)] = None THEN Reply(db, "not found")
  ELSE Reply(SetStep(db, c, c.value), "ok")
PgSaveStepOutput(db, c) == References(db, c, SaveStepOutput(db, c))
PgSaveState(db, c) == References(db, c, SaveState(db, c))

Postgres(db, c) ==
  CASE c.op = "CreateRun" -> CreateRun(db, c)
    [] c.op = "UpdateRun" -> PgUpdateRun(db, c)
    [] c.op = "CreateStepExecution" -> PgCreateStepExecution(db, c)
    [] c.op = "UpdateStepExecution" -> PgUpdateStepExecution(db, c)
    [] c.op = "SaveStepOutput" -> PgSaveStepOutput(db, c)
    [] c.op = "SaveState" -> PgSaveState(db, c)
    [] OTHER -> DeleteState(db, c)

\* The queries of the two are the same.
Data(row) == IF row = None THEN None ELSE row.data
GetRun(db, r) == Data(db.runs[r])
GetStepExecution(db, r, s) == Data(db.execs[<<r, s>>])
LoadStepOutput(db, r, s) == db.outputs[<<r, s>>]
LoadState(db, r, k) == db.state[<<r, k>>]
GetAllState(db, r) == {k \in Keys : db.state[<<r, k>>] # None}
ListRuns(db, f) ==
  {r \in RunIDs : db.runs[r] # None
                  /\ f.status \in {None, db.runs[r].status}
                  /\ f.resource \in {None, db.runs[r].resource}}
ListStepExecutions(db, r, i) ==
  {s \in StepIDs : db.execs[<<r, s>>] # None /\ db.execs[<<r, s>>].index = i}

-----------------------------------------------------------------------------
SameRun(v, w) == v.resource = w.resource
SameStep(v, w) == v.index = w.index

\* The record the call is about does not exist, or exists already; or the
\* call changes what identifies it.
Misplaced(c, db) ==
  CASE c.op = "UpdateRun" -> db.runs[c.run] = None
    [] c.op = "CreateStepExecution" -> db.runs[c.run] = None \/ db.execs[Cell(c)] # None
    [] c.op = "UpdateStepExecution" -> db.execs[Cell(c)] = None
    [] c.op \in {"SaveStepOutput", "SaveState"} -> db.runs[c.run] = None
    [] OTHER -> FALSE
Moves(c, db) ==
  CASE c.op = "UpdateRun" -> ~SameRun(db.runs[c.run].data, c.value)
    [] c.op = "UpdateStepExecution" -> ~SameStep(db.execs[Cell(c)].data, c.value)
    [] OTHER -> FALSE
Proper(c) == ~Misplaced(c, pg) /\ ~Moves(c, pg)

Init ==
  mem = NewMemoryStore /\ lib = NewTables /\ pg = NewTables /\ calls = 0 /\ misused = {}

Next ==
  \E c \in Calls :
    /\ calls < MaxCalls /\ calls' = calls + 1
    /\ mem' = Memory(mem, c).store
    /\ lib' = LibSQL(lib, c).store
    /\ pg' = Postgres(pg, c).store
    /\ misused' = IF Proper(c) THEN misused ELSE misused \cup {c.run}

Spec == Init /\ [][Next]_vars

-----------------------------------------------------------------------------
(* Every table holds rows of its kind.  The status column always agrees with *)
(* the record in the row; the resource ListRuns filters by and the index    *)
(* that orders the steps agree until the run is misused, since no UPDATE     *)
(* writes these columns (libsql.go:172, 298, postgres.go:163, 290).          *)
StoreTypeOK ==
  /\ \A r \in RunIDs : mem.runs[r] \in Runs \cup {None}
  /\ \A x \in RunCells : mem.execs[x] \in Execs \cup {None}
  /\ \A db \in {lib, pg} :
       /\ \A r \in RunIDs : db.runs[r] # None =>
            /\ db.runs[r] \in RunRows
            /\ db.runs[r].status = db.runs[r].data.status
            /\ r \notin misused => db.runs[r].resource = db.runs[r].data.resource
       /\ \A x \in RunCells : db.execs[x] # None =>
            /\ db.execs[x] \in ExecRows
            /\ db.execs[x].status = db.execs[x].data.status
            /\ x[1] \notin misused => db.execs[x].index = db.execs[x].data.index
       /\ \A x \in RunCells : db.outputs[x] \in Blobs \cup {None}
       /\ \A x \in StateCells : db.state[x] \in Blobs \cup {None}
  /\ mem.execMaps \subseteq RunIDs /\ misused \subseteq RunIDs /\ calls \in 0 .. MaxCalls

\* What LibSQL keeps of a step's record.
Kept(v) == IF v = None THEN None ELSE [status |-> v.status, index |-> v.index, attempt |-> v.attempt]
Filters == [status : {v.status : v \in Runs} \cup {None},
            resource : {v.resource : v \in Runs} \cup {None}]

(* A run that is only used properly reads the same on every store: itself,  *)
(* every list it is in, its steps and their order, its outputs and state.   *)
(* Of a step's record LibSQL is compared on status, index and attempt only: *)
(* its output and its error differ (StepRecordsReadBack).  The next proper  *)
(* call gets the same reply (docs/troubleshooting/faq.md:157).              *)
StoresAgree ==
  \A r \in RunIDs \ misused :
    /\ \A db \in {lib, pg} :
         /\ GetRun(db, r) = MemGetRun(mem, r)
         /\ \A f \in Filters : r \in ListRuns(db, f) <=> r \in MemListRuns(mem, f)
         /\ \A x \in Execs :
              ListStepExecutions(db, r, x.index) = MemListStepExecutions(mem, r, x.index)
         /\ \A s \in StepIDs :
              /\ LoadStepOutput(db, r, s) = MemLoadStepOutput(mem, r, s)
              /\ Kept(GetStepExecution(db, r, s)) = Kept(MemGetStepExecution(mem, r, s))
         /\ GetAllState(db, r) = MemGetAllState(mem, r)
         /\ \A k \in Keys : LoadState(db, r, k) = MemLoadState(mem, r, k)
    /\ \A s \in StepIDs : GetStepExecution(pg, r, s) = MemGetStepExecution(mem, r, s)
    /\ \A c \in {d \in Calls : d.run = r /\ Proper(d)} :
         Memory(mem, c).err = Postgres(pg, c).err /\ LibSQL(lib, c).err = Postgres(pg, c).err

(* What was written of a step of a properly used run is read back on LibSQL *)
(* as in memory: its output, and its error if it failed.                    *)
(* docs/troubleshooting/debugging.md:210 promises both stores alike: "use   *)
(* GetStepExecutions to see the input/output of each step".  libsql.go:312  *)
(* updates neither.                                                         *)
StepRecordsReadBack ==
  \A r \in RunIDs \ misused : \A s \in StepIDs :
    LET written == MemGetStepExecution(mem, r, s)
        read == GetStepExecution(lib, r, s)
    IN written # None =>
         /\ read.output = written.output
         /\ written.error # None => read.error = written.error

MemoryContract == INSTANCE StoreContract WITH
  runs <- mem.runs, execs <- mem.execs, outputs <- mem.outputs, state <- mem.state
LibSQLContract == INSTANCE StoreContract WITH
  runs <- [r \in RunIDs |-> GetRun(lib, r)],
  execs <- [x \in RunCells |-> Data(lib.execs[x])],
  outputs <- lib.outputs, state <- lib.state
PostgresContract == INSTANCE StoreContract WITH
  runs <- [r \in RunIDs |-> GetRun(pg, r)],
  execs <- [x \in RunCells |-> Data(pg.execs[x])],
  outputs <- pg.outputs, state <- pg.state

(* Each store implements the contract: a proper call changes the one record *)
(* it names and keeps its identity, and not even a misused run disturbs     *)
(* another one.                                                             *)
ImplementsContract ==
  MemoryContract!Spec /\ LibSQLContract!Spec /\ PostgresContract!Spec
===============================================================================
