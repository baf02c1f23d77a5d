------------------------------ MODULE StoresProofs ------------------------------
(***************************************************************************)
(* The three stores given the same calls (Stores): every table stays well   *)
(* formed, a run that is only used properly reads the same on all of them,  *)
(* and each one implements StoreContract.                                   *)
(***************************************************************************)
EXTENDS Stores, TLAPS

-----------------------------------------------------------------------------
(* The inductive invariant.                                                 *)

\* The tables of the two SQL stores, and the maps of the memory store.
Tables ==
  [runs : [RunIDs -> RunRows \cup {None}], execs : [RunCells -> ExecRows \cup {None}],
   outputs : [RunCells -> Blobs \cup {None}], state : [StateCells -> Blobs \cup {None}]]
Maps ==
  [runs : [RunIDs -> Runs \cup {None}], execs : [RunCells -> Execs \cup {None}],
   outputs : [RunCells -> Blobs \cup {None}], state : [StateCells -> Blobs \cup {None}],
   execMaps : SUBSET RunIDs]

\* The status column of a row is the status of the record in it.
Columns(db) ==
  /\ \A r \in RunIDs : db.runs[r] # None => db.runs[r].status = db.runs[r].data.status
  /\ \A x \in RunCells : db.execs[x] # None => db.execs[x].status = db.execs[x].data.status

WellFormed ==
  /\ mem \in Maps /\ lib \in Tables /\ pg \in Tables
  /\ Columns(lib) /\ Columns(pg)
  /\ misused \subseteq RunIDs /\ calls \in 0 .. MaxCalls

\* Nothing belongs to a run that has no row, in Postgres.
Unowned(r) ==
  /\ \A s \in StepIDs : pg.execs[<<r, s>>] = None /\ pg.outputs[<<r, s>>] = None
  /\ \A k \in Keys : pg.state[<<r, k>>] = None
Owned == \A r \in RunIDs : pg.runs[r] = None => Unowned(r)

\* A run and the cells of a step and of a key, in the three stores.
SameRuns(r) ==
  /\ pg.runs[r] = IF mem.runs[r] = None THEN None ELSE RunRow(mem.runs[r])
  /\ lib.runs[r] = pg.runs[r]
  /\ mem.runs[r] # None => r \in mem.execMaps
SameExecs(x) ==
  /\ pg.execs[x] = IF mem.execs[x] = None THEN None ELSE ExecRow(mem.execs[x])
  /\ lib.execs[x] = None <=> pg.execs[x] = None
  /\ lib.execs[x] # None =>
       /\ lib.execs[x].index = pg.execs[x].index
       /\ Kept(lib.execs[x].data) = Kept(pg.execs[x].data)
SameOutputs(x) == lib.outputs[x] = mem.outputs[x] /\ pg.outputs[x] = mem.outputs[x]
SameState(x) == lib.state[x] = mem.state[x] /\ pg.state[x] = mem.state[x]
Same(r) ==
  /\ SameRuns(r)
  /\ \A s \in StepIDs : SameExecs(<<r, s>>) /\ SameOutputs(<<r, s>>)
  /\ \A k \in Keys : SameState(<<r, k>>)
Agreement == \A r \in RunIDs \ misused : Same(r)

StoresInv == WellFormed /\ Owned /\ Agreement

-----------------------------------------------------------------------------
(* Calls.                                                                   *)

IsCall(c, op, keys, values) ==
  c.op = op /\ c.run \in RunIDs /\ c.key \in keys /\ c.value \in values

\* A call is one of the seven operations, with arguments of its kind.
LEMMA CallKinds ==
  ASSUME NEW c \in Calls
  PROVE \/ IsCall(c, "CreateRun", {None}, Runs)
        \/ IsCall(c, "UpdateRun", {None}, Runs)
        \/ IsCall(c, "CreateStepExecution", StepIDs, Execs)
        \/ IsCall(c, "UpdateStepExecution", StepIDs, Execs)
        \/ IsCall(c, "SaveStepOutput", StepIDs, Blobs)
        \/ IsCall(c, "SaveState", Keys, Blobs)
        \/ IsCall(c, "DeleteState", Keys, {None})
BY DEF Calls, Call, IsCall

\* A row holds the record it was made of, and is not None.
LEMMA Rows ==
  /\ \A v \in Runs : RunRow(v) \in RunRows /\ RunRow(v) # None /\ v # None
  /\ \A v \in Execs : ExecRow(v) \in ExecRows /\ ExecRow(v) # None /\ v # None
  /\ \A v \in Runs : v = [status |-> v.status, resource |-> v.resource]
  /\ \A v \in RunRows :
       /\ v = [status |-> v.status, resource |-> v.resource, data |-> v.data]
       /\ v.data \in Runs /\ v # None
  /\ \A v \in ExecRows :
       /\ v = [status |-> v.status, index |-> v.index, data |-> v.data]
       /\ v.data \in ExecRecords /\ v # None /\ v.data # None
  /\ \A v \in Blobs : v # None
<1>1. Runs \subseteq RunRecords /\ Execs \subseteq ExecRecords
  BY StoresAssumption
<1>2. None \notin Blobs /\ None \notin RunRecords /\ None \notin ExecRecords
      /\ None \notin RunRows /\ None \notin ExecRows
  BY StoresAssumption
<1>3. \A v \in Runs : RunRow(v) \in RunRows
  BY DEF RunRow, RunRows
<1>4. \A v \in Execs : ExecRow(v) \in ExecRows
  BY <1>1 DEF ExecRow, ExecRows
<1>5. \A v \in Runs : v = [status |-> v.status, resource |-> v.resource]
  BY <1>1 DEF RunRecords
<1>6. \A v \in RunRows :
        v = [status |-> v.status, resource |-> v.resource, data |-> v.data] /\ v.data \in Runs
  BY DEF RunRows
<1>7. \A v \in ExecRows :
        v = [status |-> v.status, index |-> v.index, data |-> v.data] /\ v.data \in ExecRecords
  BY DEF ExecRows
<1> QED
  BY <1>1, <1>2, <1>3, <1>4, <1>5, <1>6, <1>7

-----------------------------------------------------------------------------
(* One cell of a store changes.                                             *)

PutsRun(db, next, r, v) ==
  /\ next.runs = [db.runs EXCEPT ![r] = v]
  /\ next.execs = db.execs /\ next.outputs = db.outputs /\ next.state = db.state
PutsExec(db, next, x, v) ==
  /\ next.execs = [db.execs EXCEPT ![x] = v]
  /\ next.runs = db.runs /\ next.outputs = db.outputs /\ next.state = db.state
PutsOutput(db, next, x, v) ==
  /\ next.outputs = [db.outputs EXCEPT ![x] = v]
  /\ next.runs = db.runs /\ next.execs = db.execs /\ next.state = db.state
PutsState(db, next, x, v) ==
  /\ next.state = [db.state EXCEPT ![x] = v]
  /\ next.runs = db.runs /\ next.execs = db.execs /\ next.outputs = db.outputs

\* A row as UPDATE leaves it.
LEMMA UpdatedRow ==
  ASSUME NEW db \in Tables, NEW c, c.run \in RunIDs, c.value \in Runs, db.runs[c.run] # None
  PROVE LET row == [status |-> c.value.status, resource |-> db.runs[c.run].resource, data |-> c.value]
        IN /\ row \in RunRows
           /\ SetRun(db, c) = [db EXCEPT !.runs = [db.runs EXCEPT ![c.run] = row]]
           /\ PutsRun(db, SetRun(db, c), c.run, row)
<1> DEFINE row == [status |-> c.value.status, resource |-> db.runs[c.run].resource, data |-> c.value]
           set == [db.runs[c.run] EXCEPT !.status = c.value.status, !.data = c.value]
<1>1. db.runs[c.run] \in RunRows
  BY DEF Tables
<1>2. row \in RunRows
  BY <1>1 DEF RunRows
<1>3. set \in RunRows
  BY <1>1 DEF RunRows
<1>4. set.status = row.status /\ set.resource = row.resource /\ set.data = row.data
  BY <1>1 DEF RunRows
<1>5. set = row
  BY <1>2, <1>3, <1>4 DEF RunRows
<1>6. SetRun(db, c) = [db EXCEPT !.runs = [db.runs EXCEPT ![c.run] = set]]
  BY DEF SetRun
<1> HIDE DEF set, row
<1>7. SetRun(db, c) = [db EXCEPT !.runs = [db.runs EXCEPT ![c.run] = row]]
  BY <1>5, <1>6
<1>8. PutsRun(db, SetRun(db, c), c.run, row)
  BY <1>7 DEF PutsRun, Tables
<1> QED BY <1>2, <1>7, <1>8 DEF row

\* The row that an update of a step leaves.
LEMMA UpdatedStepRow ==
  ASSUME NEW db \in Tables, NEW c, c.run \in RunIDs, c.key \in StepIDs, c.value \in Execs,
         NEW data \in ExecRecords, db.execs[Cell(c)] # None
  PROVE LET row == [status |-> c.value.status, index |-> db.execs[Cell(c)].index, data |-> data]
        IN /\ row \in ExecRows
           /\ SetStep(db, c, data) = [db EXCEPT !.execs = [db.execs EXCEPT ![Cell(c)] = row]]
           /\ PutsExec(db, SetStep(db, c, data), Cell(c), row)
<1> DEFINE row == [status |-> c.value.status, index |-> db.execs[Cell(c)].index, data |-> data]
           set == [db.execs[Cell(c)] EXCEPT !.status = c.value.status, !.data = data]
<1>0. Cell(c) \in RunCells
  BY DEF Cell, RunCells
<1>1. db.execs[Cell(c)] \in ExecRows
  BY <1>0 DEF Tables
<1>2. row \in ExecRows
  BY <1>1 DEF ExecRows
<1>3. set \in ExecRows
  BY <1>1 DEF ExecRows
<1>4. set.status = row.status /\ set.index = row.index /\ set.data = row.data
  BY <1>1 DEF ExecRows
<1>5. set = row
  BY <1>2, <1>3, <1>4 DEF ExecRows
<1>6. SetStep(db, c, data) = [db EXCEPT !.execs = [db.execs EXCEPT ![Cell(c)] = set]]
  BY DEF SetStep
<1> HIDE DEF set, row
<1>7. SetStep(db, c, data) = [db EXCEPT !.execs = [db.execs EXCEPT ![Cell(c)] = row]]
  BY <1>5, <1>6
<1>8. PutsExec(db, SetStep(db, c, data), Cell(c), row)
  BY <1>7 DEF PutsExec, Tables
<1> QED BY <1>2, <1>7, <1>8 DEF row

-----------------------------------------------------------------------------
(* What a call does to one store: its tables stay tables, and only cells of *)
(* the run it names change.                                                 *)

OnlyRun(db, next, r) ==
  /\ \A q \in RunIDs \ {r} : next.runs[q] = db.runs[q]
  /\ \A q \in RunIDs \ {r}, s \in StepIDs :
       next.execs[<<q, s>>] = db.execs[<<q, s>>] /\ next.outputs[<<q, s>>] = db.outputs[<<q, s>>]
  /\ \A q \in RunIDs \ {r}, k \in Keys : next.state[<<q, k>>] = db.state[<<q, k>>]

\* The memory store.
LEMMA MemoryStep ==
  ASSUME NEW m \in Maps, NEW c \in Calls
  PROVE /\ Memory(m, c).store \in Maps
        /\ OnlyRun(m, Memory(m, c).store, c.run)
        /\ m.execMaps \subseteq Memory(m, c).store.execMaps
<1>0. c.run \in RunIDs
  BY CallKinds DEF IsCall
<1>1. CASE IsCall(c, "CreateRun", {None}, Runs)
  <2>1. Memory(m, c) = MemCreateRun(m, c)
    BY <1>1 DEF IsCall, Memory
  <2>2. \A x \in RunCells : Cleared(m.execs, c.run)[x] = IF x[1] = c.run THEN None ELSE m.execs[x]
    BY DEF Cleared, Maps
  <2>3. CASE m.runs[c.run] # None
    BY <2>1, <2>3 DEF MemCreateRun, Reply, OnlyRun
  <2>4. CASE m.runs[c.run] = None
    BY <1>0, <1>1, <2>1, <2>4
    DEF IsCall, MemCreateRun, Reply, OnlyRun, Maps, Cleared, Put, RunCells, StateCells
  <2> QED BY <2>3, <2>4
<1>2. CASE IsCall(c, "UpdateRun", {None}, Runs)
  BY <1>0, <1>2 DEF IsCall, Memory, MemUpdateRun, Reply, OnlyRun, Maps
<1>3. CASE IsCall(c, "CreateStepExecution", StepIDs, Execs)
  BY <1>0, <1>3 DEF IsCall, Memory, MemCreateStepExecution, Reply, OnlyRun, Maps, RunCells, Cell
<1>4. CASE IsCall(c, "UpdateStepExecution", StepIDs, Execs)
  BY <1>0, <1>4 DEF IsCall, Memory, MemUpdateStepExecution, Reply, OnlyRun, Maps, RunCells, Cell
<1>5. CASE IsCall(c, "SaveStepOutput", StepIDs, Blobs)
  BY <1>0, <1>5 DEF IsCall, Memory, MemSaveStepOutput, Reply, OnlyRun, Maps, RunCells, Cell
<1>6. CASE IsCall(c, "SaveState", Keys, Blobs)
  BY <1>0, <1>6 DEF IsCall, Memory, MemSaveState, Reply, OnlyRun, Maps, StateCells, Cell
<1>7. CASE IsCall(c, "DeleteState", Keys, {None})
  BY <1>0, <1>7 DEF IsCall, Memory, MemDeleteState, Reply, OnlyRun, Maps, StateCells, Cell
<1> QED
  BY CallKinds, <1>1, <1>2, <1>3, <1>4, <1>5, <1>6, <1>7

\* A change of the tables that a call of the run r may make.
Change(db, next, r) ==
  next \in Tables /\ OnlyRun(db, next, r) /\ (Columns(db) => Columns(next))

\* A statement that matches nothing.
LEMMA NoChange ==
  ASSUME NEW db \in Tables, NEW r \in RunIDs PROVE Change(db, db, r)
BY DEF Change, OnlyRun

\* The statements on the runs.
LEMMA RunStatements ==
  ASSUME NEW db \in Tables, NEW c, c.run \in RunIDs, c.value \in Runs
  PROVE Change(db, CreateRun(db, c).store, c.run) /\ Change(db, SetRun(db, c), c.run)
<1>1. RunRow(c.value) \in RunRows /\ RunRow(c.value).status = RunRow(c.value).data.status
  BY Rows DEF RunRow
<1>2. Change(db, CreateRun(db, c).store, c.run)
  <2>1. CASE db.runs[c.run] # None
    BY <2>1, NoChange DEF CreateRun, Reply
  <2>2. CASE db.runs[c.run] = None
    <3> DEFINE next == [db EXCEPT !.runs[c.run] = RunRow(c.value)]
    <3>1. next \in Tables
      BY <1>1 DEF Tables
    <3>2. \A q \in RunIDs : next.runs[q] = IF q = c.run THEN RunRow(c.value) ELSE db.runs[q]
      BY DEF Tables
    <3>3. next.execs = db.execs /\ next.outputs = db.outputs /\ next.state = db.state
      BY DEF Tables
    <3>4. CreateRun(db, c).store = next
      BY <2>2 DEF CreateRun, Reply
    <3> HIDE DEF next
    <3> QED BY <1>1, <3>1, <3>2, <3>3, <3>4 DEF Change, OnlyRun, Columns
  <2> QED BY <2>1, <2>2
<1>3. Change(db, SetRun(db, c), c.run)
  <2>1. CASE db.runs[c.run] = None
    BY <2>1, NoChange DEF SetRun
  <2>2. CASE db.runs[c.run] # None
    <3> DEFINE row == [status |-> c.value.status, resource |-> db.runs[c.run].resource, data |-> c.value]
               next == [db EXCEPT !.runs = [db.runs EXCEPT ![c.run] = row]]
    <3>2. row \in RunRows /\ SetRun(db, c) = next
      BY <2>2, UpdatedRow
    <3>4. next \in Tables
      BY <3>2 DEF Tables
    <3>5. \A q \in RunIDs : next.runs[q] = IF q = c.run THEN row ELSE db.runs[q]
      BY DEF Tables
    <3>6. next.execs = db.execs /\ next.outputs = db.outputs /\ next.state = db.state
      BY DEF Tables
    <3>7. row.status = row.data.status
      OBVIOUS
    <3> HIDE DEF next, row
    <3> QED BY <3>2, <3>4, <3>5, <3>6, <3>7 DEF Change, OnlyRun, Columns
  <2> QED BY <2>1, <2>2
<1> QED BY <1>2, <1>3

\* The statements on the step executions; data is what the row then holds.
LEMMA StepStatements ==
  ASSUME NEW db \in Tables, NEW c, c.run \in RunIDs, c.key \in StepIDs, c.value \in Execs,
         NEW data, db.execs[Cell(c)] # None => data \in ExecRecords /\ data.status = c.value.status
  PROVE /\ Change(db, CreateStepExecution(db, c).store, c.run)
        /\ Change(db, SetStep(db, c, data), c.run)
<1>1. ExecRow(c.value) \in ExecRows /\ ExecRow(c.value).status = ExecRow(c.value).data.status
  BY Rows DEF ExecRow
<1>0. Cell(c) \in RunCells /\ Cell(c) = <<c.run, c.key>>
  BY DEF Cell, RunCells
<1>2. Change(db, CreateStepExecution(db, c).store, c.run)
  <2>1. CASE db.execs[Cell(c)] # None
    BY <2>1, NoChange DEF CreateStepExecution, Reply
  <2>2. CASE db.execs[Cell(c)] = None
    <3> DEFINE next == [db EXCEPT !.execs[Cell(c)] = ExecRow(c.value)]
    <3>1. next \in Tables
      BY <1>0, <1>1 DEF Tables
    <3>2. \A x \in RunCells : next.execs[x] = IF x = Cell(c) THEN ExecRow(c.value) ELSE db.execs[x]
      BY DEF Tables
    <3>3. next.runs = db.runs /\ next.outputs = db.outputs /\ next.state = db.state
      BY DEF Tables
    <3>4. CreateStepExecution(db, c).store = next
      BY <2>2 DEF CreateStepExecution, Reply
    <3> HIDE DEF next
    <3> QED BY <1>0, <1>1, <3>1, <3>2, <3>3, <3>4 DEF Change, OnlyRun, Columns, RunCells
  <2> QED BY <2>1, <2>2
<1>3. Change(db, SetStep(db, c, data), c.run)
  <2>1. CASE db.execs[Cell(c)] = None
    BY <2>1, NoChange DEF SetStep
  <2>2. CASE db.execs[Cell(c)] # None
    <3> DEFINE row == [status |-> c.value.status, index |-> db.execs[Cell(c)].index, data |-> data]
               next == [db EXCEPT !.execs = [db.execs EXCEPT ![Cell(c)] = row]]
    <3>2. row \in ExecRows /\ SetStep(db, c, data) = next
      BY <2>2, UpdatedStepRow
    <3>4. next \in Tables
      BY <1>0, <3>2 DEF Tables
    <3>5. \A x \in RunCells : next.execs[x] = IF x = Cell(c) THEN row ELSE db.execs[x]
      BY DEF Tables
    <3>6. next.runs = db.runs /\ next.outputs = db.outputs /\ next.state = db.state
      BY DEF Tables
    <3>7. row.status = row.data.status
      BY <2>2
    <3> HIDE DEF next, row
    <3> QED BY <1>0, <3>2, <3>4, <3>5, <3>6, <3>7 DEF Change, OnlyRun, Columns, RunCells
  <2> QED BY <2>1, <2>2
<1> QED BY <1>2, <1>3

\* The statements on the outputs and the state.
LEMMA OutputStatements ==
  ASSUME NEW db \in Tables, NEW c, c.run \in RunIDs, c.key \in StepIDs, c.value \in Blobs
  PROVE Change(db, SaveStepOutput(db, c).store, c.run)
BY DEF Change, OnlyRun, Columns, SaveStepOutput, Reply, Tables, RunCells, Cell

\* The statements on the state.
LEMMA StateStatements ==
  ASSUME NEW db \in Tables, NEW c, c.run \in RunIDs, c.key \in Keys
  PROVE /\ c.value \in Blobs => Change(db, SaveState(db, c).store, c.run)
        /\ Change(db, DeleteState(db, c).store, c.run)
BY DEF Change, OnlyRun, Columns, SaveState, DeleteState, Reply, Tables, StateCells, Cell

\* What json_set leaves is a record with the status of the update.
LEMMA JsonSet ==
  ASSUME NEW old \in ExecRecords, NEW v \in Execs
  PROVE /\ LibData(old, v) \in ExecRecords
        /\ LibData(old, v).status = v.status /\ LibData(old, v).index = old.index
        /\ LibData(old, v).attempt = v.attempt
BY StoresAssumption DEF LibData, ExecRecords

\* Every call of the libSQL store is one change of one run.
LEMMA LibSQLStep ==
  ASSUME NEW db \in Tables, NEW c \in Calls
  PROVE Change(db, LibSQL(db, c).store, c.run)
<1>0. c.run \in RunIDs
  BY CallKinds DEF IsCall
<1>1. CASE IsCall(c, "CreateRun", {None}, Runs)
  BY <1>1, RunStatements DEF IsCall, LibSQL
<1>2. CASE IsCall(c, "UpdateRun", {None}, Runs)
  BY <1>2, RunStatements DEF IsCall, LibSQL, LibUpdateRun, Reply
<1>3. CASE IsCall(c, "CreateStepExecution", StepIDs, Execs)
  <2>1. c.value \in ExecRecords
    BY <1>3, StoresAssumption DEF IsCall
  <2> QED BY <1>3, <2>1, StepStatements DEF IsCall, LibSQL
<1>4. CASE IsCall(c, "UpdateStepExecution", StepIDs, Execs)
  <2>1. LibSQL(db, c) = LibUpdateStepExecution(db, c)
    BY <1>4 DEF IsCall, LibSQL
  <2>2. CASE db.execs[Cell(c)] = None
    BY <1>0, <2>1, <2>2, NoChange DEF LibUpdateStepExecution, Reply
  <2>3. CASE db.execs[Cell(c)] # None
    <3> DEFINE data == LibData(db.execs[Cell(c)].data, c.value)
    <3>1. db.execs[Cell(c)] \in ExecRows
      BY <1>4, <2>3 DEF IsCall, Cell, RunCells, Tables
    <3>2. data \in ExecRecords /\ data.status = c.value.status
      BY <1>4, <3>1, JsonSet, Rows DEF IsCall
    <3>3. LibSQL(db, c).store = SetStep(db, c, data)
      BY <2>1, <2>3 DEF LibUpdateStepExecution, Reply
    <3> HIDE DEF data
    <3> QED BY <1>4, <3>2, <3>3, StepStatements DEF IsCall
  <2> QED BY <2>2, <2>3
<1>5. CASE IsCall(c, "SaveStepOutput", StepIDs, Blobs)
  BY <1>5, OutputStatements DEF IsCall, LibSQL
<1>6. CASE IsCall(c, "SaveState", Keys, Blobs)
  BY <1>6, StateStatements DEF IsCall, LibSQL
<1>7. CASE IsCall(c, "DeleteState", Keys, {None})
  BY <1>7, StateStatements DEF IsCall, LibSQL
<1> QED
  BY CallKinds, <1>1, <1>2, <1>3, <1>4, <1>5, <1>6, <1>7

\* So is every call of the PostgreSQL store.
LEMMA PostgresStep ==
  ASSUME NEW db \in Tables, NEW c \in Calls
  PROVE Change(db, Postgres(db, c).store, c.run)
<1>0. c.run \in RunIDs
  BY CallKinds DEF IsCall
<1>1. CASE IsCall(c, "CreateRun", {None}, Runs)
  BY <1>1, RunStatements DEF IsCall, Postgres
<1>2. CASE IsCall(c, "UpdateRun", {None}, Runs)
  BY <1>0, <1>2, RunStatements, NoChange DEF IsCall, Postgres, PgUpdateRun, Reply
<1>3. CASE IsCall(c, "CreateStepExecution", StepIDs, Execs)
  <2>1. c.value \in ExecRecords
    BY <1>3, StoresAssumption DEF IsCall
  <2> QED
    BY <1>0, <1>3, <2>1, StepStatements, NoChange
    DEF IsCall, Postgres, PgCreateStepExecution, References, Reply
<1>4. CASE IsCall(c, "UpdateStepExecution", StepIDs, Execs)
  <2>1. c.value \in ExecRecords
    BY <1>4, StoresAssumption DEF IsCall
  <2> QED
    BY <1>0, <1>4, <2>1, StepStatements, NoChange DEF IsCall, Postgres, PgUpdateStepExecution, Reply
<1>5. CASE IsCall(c, "SaveStepOutput", StepIDs, Blobs)
  BY <1>0, <1>5, OutputStatements, NoChange DEF IsCall, Postgres, PgSaveStepOutput, References, Reply
<1>6. CASE IsCall(c, "SaveState", Keys, Blobs)
  BY <1>0, <1>6, StateStatements, NoChange DEF IsCall, Postgres, PgSaveState, References, Reply
<1>7. CASE IsCall(c, "DeleteState", Keys, {None})
  BY <1>7, StateStatements DEF IsCall, Postgres
<1> QED
  BY CallKinds, <1>1, <1>2, <1>3, <1>4, <1>5, <1>6, <1>7

-----------------------------------------------------------------------------
(* One step.                                                                *)

Step(c) ==
  /\ mem' = Memory(mem, c).store
  /\ lib' = LibSQL(lib, c).store
  /\ pg' = Postgres(pg, c).store

\* The empty stores satisfy the invariant.
LEMMA InitialStores ==
  ASSUME Init PROVE StoresInv
<1>1. WellFormed
  BY StoresAssumption
  DEF Init, WellFormed, NewMemoryStore, NewTables, Maps, Tables, Columns, RunCells, StateCells
<1>2. Owned
  BY DEF Init, Owned, Unowned, NewTables, RunCells, StateCells
<1>3. Agreement
  <2> SUFFICES ASSUME NEW r \in RunIDs PROVE Same(r)
    BY DEF Agreement
  <2>1. SameRuns(r)
    BY DEF Init, SameRuns, NewMemoryStore, NewTables
  <2>2. \A s \in StepIDs : SameExecs(<<r, s>>) /\ SameOutputs(<<r, s>>)
    BY DEF Init, SameExecs, SameOutputs, NewMemoryStore, NewTables, RunCells
  <2>3. \A k \in Keys : SameState(<<r, k>>)
    BY DEF Init, SameState, NewMemoryStore, NewTables, StateCells
  <2> QED BY <2>1, <2>2, <2>3 DEF Same
<1> QED BY <1>1, <1>2, <1>3 DEF StoresInv

\* Every call keeps the three stores in their types.
LEMMA WellFormedStep ==
  ASSUME WellFormed, NEW c \in Calls, calls < MaxCalls, calls' = calls + 1, Step(c),
         misused' = misused \/ misused' = misused \cup {c.run}
  PROVE WellFormed'
<1>1. mem' \in Maps
  BY MemoryStep DEF Step, WellFormed
<1>2. lib' \in Tables /\ Columns(lib')
  BY LibSQLStep DEF Step, WellFormed, Change
<1>3. pg' \in Tables /\ Columns(pg')
  BY PostgresStep DEF Step, WellFormed, Change
<1>4. misused' \subseteq RunIDs
  BY CallKinds DEF WellFormed, IsCall
<1>5. calls' \in 0 .. MaxCalls
  BY StoresAssumption DEF WellFormed
<1> QED
  BY <1>1, <1>2, <1>3, <1>4, <1>5 DEF WellFormed, Columns

\* Postgres keeps what it has, and adds nothing to a run that has no row.
LEMMA OwnedStep ==
  ASSUME WellFormed, Owned, NEW c \in Calls, Step(c)
  PROVE Owned'
<1> SUFFICES ASSUME NEW r \in RunIDs, pg'.runs[r] = None PROVE Unowned(r)'
  BY DEF Owned
<1>1. pg \in Tables /\ c.run \in RunIDs /\ Change(pg, pg', c.run)
  BY CallKinds, PostgresStep DEF Step, WellFormed, IsCall
<1>2. CASE r # c.run
  BY <1>1, <1>2 DEF Change, OnlyRun, Owned, Unowned
<1>3. CASE r = c.run /\ pg.runs[r] # None
  <2>2. CASE IsCall(c, "UpdateRun", {None}, Runs)
    <3>1. pg' = SetRun(pg, c)
      BY <1>3, <2>2 DEF Step, IsCall, Postgres, PgUpdateRun, Reply
    <3> DEFINE row == [status |-> c.value.status, resource |-> pg.runs[r].resource, data |-> c.value]
    <3>2. row \in RunRows /\ PutsRun(pg, SetRun(pg, c), r, row)
      BY <1>1, <1>3, <2>2, UpdatedRow DEF IsCall
    <3>3. pg'.runs[r] = row
      BY <1>1, <3>1, <3>2 DEF PutsRun, Tables
    <3> HIDE DEF row
    <3> QED BY <3>2, <3>3, Rows
  <2>3. CASE ~IsCall(c, "UpdateRun", {None}, Runs)
    <3>1. pg'.runs = pg.runs
      BY <1>1, <1>3, <2>3, CallKinds
      DEF Step, IsCall, Postgres, CreateRun, PgCreateStepExecution, CreateStepExecution, References,
          PgUpdateStepExecution, SetStep, PgSaveStepOutput, SaveStepOutput, PgSaveState, SaveState,
          DeleteState, Reply, Tables
    <3> QED BY <1>3, <3>1
  <2> QED BY <2>2, <2>3
<1>4. CASE r = c.run /\ pg.runs[r] = None
  <2>0. Unowned(r)
    BY <1>4 DEF Owned
  <2>1. CASE IsCall(c, "CreateRun", {None}, Runs)
    <3>1. pg'.runs[r] = RunRow(c.value)
      BY <1>1, <1>4, <2>1 DEF Step, IsCall, Postgres, CreateRun, Reply, Tables
    <3> QED BY <2>1, <3>1, Rows DEF IsCall
  <2>2. CASE IsCall(c, "UpdateStepExecution", StepIDs, Execs)
    <3>1. pg.execs[Cell(c)] = None
      BY <1>4, <2>0, <2>2 DEF Unowned, IsCall, Cell
    <3> QED BY <2>0, <2>2, <3>1 DEF Step, IsCall, Postgres, PgUpdateStepExecution, Reply, Unowned
  <2>3. CASE IsCall(c, "DeleteState", Keys, {None})
    <3>1. pg' = [pg EXCEPT !.state = [pg.state EXCEPT ![Cell(c)] = None]]
      BY <2>3 DEF Step, IsCall, Postgres, DeleteState, Reply
    <3> QED BY <1>1, <2>0, <2>3, <3>1 DEF IsCall, Cell, Unowned, Tables, StateCells
  <2>4. CASE \/ IsCall(c, "UpdateRun", {None}, Runs)
             \/ IsCall(c, "CreateStepExecution", StepIDs, Execs)
             \/ IsCall(c, "SaveStepOutput", StepIDs, Blobs)
             \/ IsCall(c, "SaveState", Keys, Blobs)
    <3>1. pg' = pg
      BY <1>4, <2>4
      DEF Step, IsCall, Postgres, PgUpdateRun, PgCreateStepExecution, PgSaveStepOutput, PgSaveState,
          References, Reply
    <3> QED BY <2>0, <3>1 DEF Unowned
  <2> QED BY CallKinds, <2>1, <2>2, <2>3, <2>4
<1> QED BY <1>2, <1>3, <1>4

-----------------------------------------------------------------------------
(* What a proper call about a run that was never misused does: the same     *)
(* cell changes in the three stores.                                        *)

ProperCall(c) == StoresInv /\ Step(c) /\ Proper(c) /\ c.run \notin misused

\* What a proper CreateRun does to the three stores.
LEMMA CreateRunEffect ==
  ASSUME NEW c, IsCall(c, "CreateRun", {None}, Runs), ProperCall(c)
  PROVE \/ /\ UNCHANGED <<mem, lib, pg>> /\ mem.runs[c.run] # None
        \/ /\ mem.runs[c.run] = None /\ lib.runs[c.run] = None /\ pg.runs[c.run] = None
           /\ PutsRun(mem, mem', c.run, c.value) /\ mem'.execMaps = mem.execMaps \cup {c.run}
           /\ PutsRun(lib, lib', c.run, RunRow(c.value))
           /\ PutsRun(pg, pg', c.run, RunRow(c.value))
<1> USE DEF ProperCall, IsCall
<1>1. mem \in Maps /\ lib \in Tables /\ pg \in Tables /\ Same(c.run)
  BY DEF StoresInv, WellFormed, Agreement
<1>2. /\ mem.runs[c.run] = None <=> pg.runs[c.run] = None
      /\ lib.runs[c.run] = pg.runs[c.run]
  <2>1. mem.runs[c.run] # None => mem.runs[c.run] \in Runs
    BY <1>1 DEF Maps
  <2> QED BY <1>1, <2>1, Rows DEF Same, SameRuns
<1>3. /\ mem' = MemCreateRun(mem, c).store
      /\ lib' = CreateRun(lib, c).store /\ pg' = CreateRun(pg, c).store
  BY DEF Step, Memory, LibSQL, Postgres
<1>4. CASE mem.runs[c.run] # None
  BY <1>2, <1>3, <1>4 DEF MemCreateRun, CreateRun, Reply
<1>5. CASE mem.runs[c.run] = None
  <2>1. Unowned(c.run)
    BY <1>2, <1>5 DEF StoresInv, Owned
  <2>2. \A s \in StepIDs : mem.execs[<<c.run, s>>] = None /\ mem.outputs[<<c.run, s>>] = None
    <3> TAKE s \in StepIDs
    <3>1. pg.execs[<<c.run, s>>] = None /\ pg.outputs[<<c.run, s>>] = None
      BY <2>1 DEF Unowned
    <3>2. SameExecs(<<c.run, s>>) /\ SameOutputs(<<c.run, s>>)
      BY <1>1 DEF Same
    <3>3. mem.execs[<<c.run, s>>] # None => mem.execs[<<c.run, s>>] \in Execs
      BY <1>1 DEF Maps, RunCells
    <3> QED BY <3>1, <3>2, <3>3, Rows DEF SameExecs, SameOutputs
  <2>3. \A k \in Keys : mem.state[<<c.run, k>>] = None
    BY <1>1, <2>1 DEF Same, SameState, Unowned
  <2>4. Cleared(mem.execs, c.run) = mem.execs
    BY <1>1, <2>2 DEF Cleared, Maps, RunCells
  <2>5. Cleared(mem.outputs, c.run) = mem.outputs
    BY <1>1, <2>2 DEF Cleared, Maps, RunCells
  <2>6. Cleared(mem.state, c.run) = mem.state
    BY <1>1, <2>3 DEF Cleared, Maps, StateCells
  <2>7. PutsRun(mem, mem', c.run, c.value) /\ mem'.execMaps = mem.execMaps \cup {c.run}
    BY <1>1, <1>3, <1>5, <2>4, <2>5, <2>6 DEF MemCreateRun, Put, Reply, PutsRun
  <2>8. PutsRun(lib, lib', c.run, RunRow(c.value)) /\ PutsRun(pg, pg', c.run, RunRow(c.value))
    BY <1>1, <1>2, <1>3, <1>5 DEF CreateRun, Reply, PutsRun, Tables
  <2> QED BY <1>2, <1>5, <2>7, <2>8
<1> QED BY <1>4, <1>5

\* What a proper UpdateRun does to the three stores.
LEMMA UpdateRunEffect ==
  ASSUME NEW c, IsCall(c, "UpdateRun", {None}, Runs), ProperCall(c)
  PROVE /\ mem.runs[c.run] # None /\ lib.runs[c.run] # None /\ pg.runs[c.run] # None
        /\ SameRun(mem.runs[c.run], c.value)
        /\ lib.runs[c.run].data = mem.runs[c.run] /\ pg.runs[c.run].data = mem.runs[c.run]
        /\ PutsRun(mem, mem', c.run, c.value) /\ mem'.execMaps = mem.execMaps
        /\ PutsRun(lib, lib', c.run, RunRow(c.value))
        /\ PutsRun(pg, pg', c.run, RunRow(c.value))
<1> USE DEF ProperCall, IsCall
<1>1. mem \in Maps /\ lib \in Tables /\ pg \in Tables /\ Same(c.run)
  BY DEF StoresInv, WellFormed, Agreement
<1>2. pg.runs[c.run] # None /\ SameRun(pg.runs[c.run].data, c.value)
  BY DEF Proper, Misplaced, Moves
<1>3. /\ mem.runs[c.run] # None /\ pg.runs[c.run] = RunRow(mem.runs[c.run])
      /\ lib.runs[c.run] = pg.runs[c.run]
  BY <1>1, <1>2 DEF Same, SameRuns
<1>4. pg.runs[c.run].data = mem.runs[c.run] /\ pg.runs[c.run].resource = mem.runs[c.run].resource
  BY <1>3 DEF RunRow
<1>5. SameRun(mem.runs[c.run], c.value) /\ mem.runs[c.run].resource = c.value.resource
  BY <1>2, <1>4 DEF SameRun
<1>6. PutsRun(mem, mem', c.run, c.value) /\ mem'.execMaps = mem.execMaps
  BY <1>1, <1>3 DEF Step, Memory, MemUpdateRun, Reply, PutsRun, Maps
<1>7. lib' = SetRun(lib, c) /\ pg' = SetRun(pg, c)
  BY <1>2 DEF Step, LibSQL, Postgres, LibUpdateRun, PgUpdateRun, Reply
<1>8. PutsRun(lib, lib', c.run, RunRow(c.value)) /\ PutsRun(pg, pg', c.run, RunRow(c.value))
  BY <1>1, <1>2, <1>3, <1>4, <1>5, <1>7, UpdatedRow DEF RunRow
<1> QED BY <1>2, <1>3, <1>4, <1>5, <1>6, <1>8

\* A row of step executions of a run, in the memory store and the two others.
LEMMA ExecCells ==
  ASSUME WellFormed, NEW r \in RunIDs, NEW s \in StepIDs, SameExecs(<<r, s>>)
  PROVE /\ <<r, s>> \in RunCells
        /\ mem.execs[<<r, s>>] \in Execs \cup {None}
        /\ lib.execs[<<r, s>>] \in ExecRows \cup {None}
        /\ pg.execs[<<r, s>>] \in ExecRows \cup {None}
        /\ mem.execs[<<r, s>>] = None <=> pg.execs[<<r, s>>] = None
        /\ mem.execs[<<r, s>>] = None <=> lib.execs[<<r, s>>] = None
<1>1. <<r, s>> \in RunCells
  BY DEF RunCells
<1>2. /\ mem.execs[<<r, s>>] \in Execs \cup {None}
      /\ lib.execs[<<r, s>>] \in ExecRows \cup {None}
      /\ pg.execs[<<r, s>>] \in ExecRows \cup {None}
  BY <1>1 DEF WellFormed, Maps, Tables
<1> QED BY <1>1, <1>2, Rows DEF SameExecs

\* What a proper CreateStepExecution does to the three stores.
LEMMA CreateStepEffect ==
  ASSUME NEW c, IsCall(c, "CreateStepExecution", StepIDs, Execs), ProperCall(c)
  PROVE /\ mem.runs[c.run] # None /\ lib.runs[c.run] # None /\ pg.runs[c.run] # None
        /\ mem.execs[Cell(c)] = None /\ lib.execs[Cell(c)] = None /\ pg.execs[Cell(c)] = None
        /\ PutsExec(mem, mem', Cell(c), c.value) /\ mem'.execMaps = mem.execMaps \cup {c.run}
        /\ PutsExec(lib, lib', Cell(c), ExecRow(c.value))
        /\ PutsExec(pg, pg', Cell(c), ExecRow(c.value))
<1> USE DEF ProperCall, IsCall
<1>1. mem \in Maps /\ lib \in Tables /\ pg \in Tables /\ Same(c.run) /\ WellFormed
  BY DEF StoresInv, WellFormed, Agreement
<1>2. pg.runs[c.run] # None /\ pg.execs[Cell(c)] = None
  BY DEF Proper, Misplaced
<1>3. mem.runs[c.run] # None /\ lib.runs[c.run] # None
  BY <1>1, <1>2 DEF Same, SameRuns
<1>4. mem.execs[Cell(c)] = None /\ lib.execs[Cell(c)] = None
  BY <1>1, <1>2, ExecCells DEF Same, Cell
<1>5. PutsExec(mem, mem', Cell(c), c.value) /\ mem'.execMaps = mem.execMaps \cup {c.run}
  BY <1>1 DEF Step, Memory, MemCreateStepExecution, Reply, PutsExec, Maps
<1>6. lib' = CreateStepExecution(lib, c).store /\ pg' = CreateStepExecution(pg, c).store
  BY <1>2 DEF Step, LibSQL, Postgres, PgCreateStepExecution, References
<1>7. PutsExec(lib, lib', Cell(c), ExecRow(c.value)) /\ PutsExec(pg, pg', Cell(c), ExecRow(c.value))
  BY <1>1, <1>2, <1>4, <1>6 DEF CreateStepExecution, Reply, PutsExec, Tables
<1> QED BY <1>2, <1>3, <1>4, <1>5, <1>7

\* What a proper UpdateStepExecution does to the three stores.
LEMMA UpdateStepEffect ==
  ASSUME NEW c, IsCall(c, "UpdateStepExecution", StepIDs, Execs), ProperCall(c)
  PROVE /\ mem.runs[c.run] # None /\ lib.runs[c.run] # None /\ pg.runs[c.run] # None
        /\ mem.execs[Cell(c)] # None /\ lib.execs[Cell(c)] # None /\ pg.execs[Cell(c)] # None
        /\ pg.execs[Cell(c)].data = mem.execs[Cell(c)]
        /\ lib.execs[Cell(c)].data \in ExecRecords
        /\ lib.execs[Cell(c)].data.index = c.value.index
        /\ mem.execs[Cell(c)].index = c.value.index
        /\ PutsExec(mem, mem', Cell(c), c.value) /\ mem'.execMaps = mem.execMaps
        /\ PutsExec(pg, pg', Cell(c), ExecRow(c.value))
        /\ PutsExec(lib, lib', Cell(c),
             [status |-> c.value.status, index |-> c.value.index,
              data |-> LibData(lib.execs[Cell(c)].data, c.value)])
<1> USE DEF ProperCall, IsCall
<1>1. mem \in Maps /\ lib \in Tables /\ pg \in Tables /\ Same(c.run) /\ WellFormed
  BY DEF StoresInv, WellFormed, Agreement
<1>2. pg.execs[Cell(c)] # None /\ SameStep(pg.execs[Cell(c)].data, c.value)
  BY DEF Proper, Misplaced, Moves
<1>3. SameExecs(Cell(c)) /\ Cell(c) = <<c.run, c.key>> /\ Cell(c) \in RunCells
  BY <1>1 DEF Same, Cell, RunCells
<1>4. /\ mem.execs[Cell(c)] \in Execs /\ lib.execs[Cell(c)] \in ExecRows
      /\ mem.execs[Cell(c)] # None /\ lib.execs[Cell(c)] # None
  BY <1>1, <1>2, <1>3, ExecCells
<1>5. pg.execs[Cell(c)] = ExecRow(mem.execs[Cell(c)])
  BY <1>3, <1>4 DEF SameExecs
<1>6. /\ pg.execs[Cell(c)].data = mem.execs[Cell(c)]
      /\ pg.execs[Cell(c)].index = mem.execs[Cell(c)].index
  BY <1>5 DEF ExecRow
<1>7. mem.execs[Cell(c)].index = c.value.index
  BY <1>2, <1>6 DEF SameStep
<1>8. lib.execs[Cell(c)].data \in ExecRecords /\ lib.execs[Cell(c)].data # None
      /\ mem.execs[Cell(c)] # None
  BY <1>4, Rows
<1>9. /\ Kept(lib.execs[Cell(c)].data) = Kept(mem.execs[Cell(c)])
      /\ lib.execs[Cell(c)].index = c.value.index
  BY <1>3, <1>4, <1>6, <1>7 DEF SameExecs
<1>10. lib.execs[Cell(c)].data.index = c.value.index
  <2>1. Kept(lib.execs[Cell(c)].data).index = lib.execs[Cell(c)].data.index
    BY <1>8 DEF Kept
  <2>2. Kept(mem.execs[Cell(c)]).index = mem.execs[Cell(c)].index
    BY <1>8 DEF Kept
  <2> QED BY <1>7, <1>9, <2>1, <2>2
<1>11. pg.runs[c.run] # None
  BY <1>2, <1>3 DEF StoresInv, Owned, Unowned
<1>12. mem.runs[c.run] # None /\ lib.runs[c.run] # None /\ c.run \in mem.execMaps
  BY <1>1, <1>11 DEF Same, SameRuns
<1>13. PutsExec(mem, mem', Cell(c), c.value) /\ mem'.execMaps = mem.execMaps
  BY <1>1, <1>12 DEF Step, Memory, MemUpdateStepExecution, Reply, PutsExec, Maps
<1>14. PutsExec(pg, pg', Cell(c), ExecRow(c.value))
  <2>1. pg' = SetStep(pg, c, c.value)
    BY <1>2 DEF Step, Postgres, PgUpdateStepExecution, Reply
  <2>2. c.value \in ExecRecords
    BY StoresAssumption
  <2> QED BY <1>1, <1>2, <1>6, <1>7, <2>1, <2>2, UpdatedStepRow DEF ExecRow
<1>15. PutsExec(lib, lib', Cell(c),
         [status |-> c.value.status, index |-> c.value.index,
          data |-> LibData(lib.execs[Cell(c)].data, c.value)])
  <2>1. lib' = SetStep(lib, c, LibData(lib.execs[Cell(c)].data, c.value))
    BY <1>4 DEF Step, LibSQL, LibUpdateStepExecution, Reply
  <2>2. LibData(lib.execs[Cell(c)].data, c.value) \in ExecRecords
    BY <1>8, JsonSet
  <2> QED BY <1>1, <1>4, <1>9, <2>1, <2>2, UpdatedStepRow
<1> QED BY <1>2, <1>4, <1>6, <1>7, <1>8, <1>10, <1>11, <1>12, <1>13, <1>14, <1>15

\* What a proper SaveStepOutput does to the three stores.
LEMMA SaveOutputEffect ==
  ASSUME NEW c, IsCall(c, "SaveStepOutput", StepIDs, Blobs), ProperCall(c)
  PROVE /\ mem.runs[c.run] # None /\ lib.runs[c.run] # None /\ pg.runs[c.run] # None
        /\ PutsOutput(mem, mem', Cell(c), c.value) /\ mem'.execMaps = mem.execMaps
        /\ PutsOutput(lib, lib', Cell(c), c.value)
        /\ PutsOutput(pg, pg', Cell(c), c.value)
<1> USE DEF ProperCall, IsCall
<1>1. mem \in Maps /\ lib \in Tables /\ pg \in Tables /\ Same(c.run)
  BY DEF StoresInv, WellFormed, Agreement
<1>2. pg.runs[c.run] # None
  BY DEF Proper, Misplaced
<1>3. mem.runs[c.run] # None /\ lib.runs[c.run] # None
  BY <1>1, <1>2 DEF Same, SameRuns
<1>4. PutsOutput(mem, mem', Cell(c), c.value) /\ mem'.execMaps = mem.execMaps
  BY <1>1 DEF Step, Memory, MemSaveStepOutput, Reply, PutsOutput, Maps
<1>5. PutsOutput(lib, lib', Cell(c), c.value) /\ PutsOutput(pg, pg', Cell(c), c.value)
  BY <1>1, <1>2
  DEF Step, LibSQL, Postgres, PgSaveStepOutput, References, SaveStepOutput, Reply, PutsOutput, Tables
<1> QED BY <1>2, <1>3, <1>4, <1>5

\* What a proper SaveState does to the three stores.
LEMMA SaveStateEffect ==
  ASSUME NEW c, IsCall(c, "SaveState", Keys, Blobs), ProperCall(c)
  PROVE /\ mem.runs[c.run] # None /\ lib.runs[c.run] # None /\ pg.runs[c.run] # None
        /\ PutsState(mem, mem', Cell(c), c.value) /\ mem'.execMaps = mem.execMaps
        /\ PutsState(lib, lib', Cell(c), c.value)
        /\ PutsState(pg, pg', Cell(c), c.value)
<1> USE DEF ProperCall, IsCall
<1>1. mem \in Maps /\ lib \in Tables /\ pg \in Tables /\ Same(c.run)
  BY DEF StoresInv, WellFormed, Agreement
<1>2. pg.runs[c.run] # None
  BY DEF Proper, Misplaced
<1>3. mem.runs[c.run] # None /\ lib.runs[c.run] # None
  BY <1>1, <1>2 DEF Same, SameRuns
<1>4. PutsState(mem, mem', Cell(c), c.value) /\ mem'.execMaps = mem.execMaps
  BY <1>1 DEF Step, Memory, MemSaveState, Reply, PutsState, Maps
<1>5. PutsState(lib, lib', Cell(c), c.value) /\ PutsState(pg, pg', Cell(c), c.value)
  BY <1>1, <1>2 DEF Step, LibSQL, Postgres, PgSaveState, References, SaveState, Reply, PutsState, Tables
<1> QED BY <1>2, <1>3, <1>4, <1>5

\* What a proper DeleteState does to the three stores.
LEMMA DeleteStateEffect ==
  ASSUME NEW c, IsCall(c, "DeleteState", Keys, {None}), ProperCall(c)
  PROVE /\ PutsState(mem, mem', Cell(c), None) /\ mem'.execMaps = mem.execMaps
        /\ PutsState(lib, lib', Cell(c), None)
        /\ PutsState(pg, pg', Cell(c), None)
BY DEF IsCall, ProperCall, StoresInv, WellFormed, Step, Memory, LibSQL, Postgres,
       MemDeleteState, DeleteState, Reply, PutsState, Maps, Tables

-----------------------------------------------------------------------------
(* The invariant is kept.                                                   *)

\* A run that a call is not about.
LEMMA OtherRuns ==
  ASSUME StoresInv, NEW c \in Calls, Step(c), NEW r \in RunIDs \ {c.run}, Same(r)
  PROVE Same(r)'
<1>1. OnlyRun(mem, mem', c.run) /\ mem.execMaps \subseteq mem'.execMaps
  BY MemoryStep DEF Step, StoresInv, WellFormed
<1>2. OnlyRun(lib, lib', c.run) /\ OnlyRun(pg, pg', c.run)
  BY LibSQLStep, PostgresStep DEF Step, StoresInv, WellFormed, Change
<1>3. /\ mem'.runs[r] = mem.runs[r] /\ lib'.runs[r] = lib.runs[r] /\ pg'.runs[r] = pg.runs[r]
      /\ r \in mem.execMaps => r \in mem'.execMaps
  BY <1>1, <1>2 DEF OnlyRun
<1>4. SameRuns(r)'
  BY <1>3 DEF Same, SameRuns
<1>5. ASSUME NEW s \in StepIDs PROVE SameExecs(<<r, s>>)' /\ SameOutputs(<<r, s>>)'
  <2>1. /\ mem'.execs[<<r, s>>] = mem.execs[<<r, s>>] /\ mem'.outputs[<<r, s>>] = mem.outputs[<<r, s>>]
        /\ lib'.execs[<<r, s>>] = lib.execs[<<r, s>>] /\ lib'.outputs[<<r, s>>] = lib.outputs[<<r, s>>]
        /\ pg'.execs[<<r, s>>] = pg.execs[<<r, s>>] /\ pg'.outputs[<<r, s>>] = pg.outputs[<<r, s>>]
    BY <1>1, <1>2 DEF OnlyRun
  <2>2. SameExecs(<<r, s>>) /\ SameOutputs(<<r, s>>)
    BY DEF Same
  <2> QED BY <2>1, <2>2 DEF SameExecs, SameOutputs
<1>6. ASSUME NEW k \in Keys PROVE SameState(<<r, k>>)'
  <2>1. /\ mem'.state[<<r, k>>] = mem.state[<<r, k>>] /\ lib'.state[<<r, k>>] = lib.state[<<r, k>>]
        /\ pg'.state[<<r, k>>] = pg.state[<<r, k>>]
    BY <1>1, <1>2 DEF OnlyRun
  <2>2. SameState(<<r, k>>)
    BY DEF Same
  <2> QED BY <2>1, <2>2 DEF SameState
<1> QED BY <1>4, <1>5, <1>6 DEF Same

\* The run that a proper call is about.
LEMMA SameRunsPut ==
  ASSUME StoresInv, NEW r \in RunIDs, Same(r), NEW v \in Runs,
         PutsRun(mem, mem', r, v), PutsRun(lib, lib', r, RunRow(v)), PutsRun(pg, pg', r, RunRow(v)),
         r \in mem'.execMaps
  PROVE Same(r)'
<1>1. mem'.runs[r] = v /\ lib'.runs[r] = RunRow(v) /\ pg'.runs[r] = RunRow(v)
  BY DEF StoresInv, WellFormed, Maps, Tables, PutsRun
<1>2. SameRuns(r)'
  BY <1>1, Rows DEF SameRuns
<1> QED BY <1>2 DEF Same, PutsRun, SameExecs, SameOutputs, SameState

\* Writing the same step everywhere keeps the stores in agreement.
LEMMA SameExecsPut ==
  ASSUME StoresInv, NEW r \in RunIDs, Same(r), NEW x \in StepIDs, NEW v \in Execs, NEW row \in ExecRows,
         PutsExec(mem, mem', <<r, x>>, v), PutsExec(pg, pg', <<r, x>>, ExecRow(v)),
         PutsExec(lib, lib', <<r, x>>, row),
         row.index = v.index, Kept(row.data) = Kept(v), mem.execMaps \subseteq mem'.execMaps
  PROVE Same(r)'
<1>1. <<r, x>> \in RunCells
  BY DEF RunCells
<1>2. /\ mem'.execs[<<r, x>>] = v /\ pg'.execs[<<r, x>>] = ExecRow(v)
      /\ lib'.execs[<<r, x>>] = row
  BY <1>1 DEF StoresInv, WellFormed, Maps, Tables, PutsExec
<1>3. SameExecs(<<r, x>>)'
  <2>1. v # None /\ ExecRow(v) # None /\ row # None
    BY Rows
  <2>2. ExecRow(v).index = v.index /\ ExecRow(v).data = v
    BY DEF ExecRow
  <2> QED BY <1>2, <2>1, <2>2 DEF SameExecs
<1>4. ASSUME NEW s \in StepIDs \ {x} PROVE SameExecs(<<r, s>>)'
  <2>1. <<r, s>> # <<r, x>> /\ <<r, s>> \in RunCells
    BY DEF RunCells
  <2>2. /\ mem'.execs[<<r, s>>] = mem.execs[<<r, s>>]
        /\ lib'.execs[<<r, s>>] = lib.execs[<<r, s>>]
        /\ pg'.execs[<<r, s>>] = pg.execs[<<r, s>>]
    BY <2>1 DEF StoresInv, WellFormed, Maps, Tables, PutsExec
  <2>3. SameExecs(<<r, s>>)
    BY DEF Same
  <2> QED BY <2>2, <2>3 DEF SameExecs
<1>5. SameRuns(r)'
  BY DEF Same, SameRuns, PutsExec
<1>6. \A s \in StepIDs : SameOutputs(<<r, s>>)'
  BY DEF Same, SameOutputs, PutsExec
<1>7. \A k \in Keys : SameState(<<r, k>>)'
  BY DEF Same, SameState, PutsExec
<1> QED BY <1>3, <1>4, <1>5, <1>6, <1>7 DEF Same

\* Writing the same output everywhere keeps the stores in agreement.
LEMMA SameOutputsPut ==
  ASSUME StoresInv, NEW r \in RunIDs, Same(r), NEW x \in StepIDs, NEW v,
         PutsOutput(mem, mem', <<r, x>>, v), PutsOutput(lib, lib', <<r, x>>, v),
         PutsOutput(pg, pg', <<r, x>>, v), mem.execMaps \subseteq mem'.execMaps
  PROVE Same(r)'
<1>1. SameRuns(r)'
  BY DEF Same, SameRuns, PutsOutput
<1>2. \A s \in StepIDs : SameExecs(<<r, s>>)'
  BY DEF Same, SameExecs, PutsOutput
<1>3. ASSUME NEW s \in StepIDs PROVE SameOutputs(<<r, s>>)'
  <2>1. <<r, s>> \in RunCells
    BY DEF RunCells
  <2>2. SameOutputs(<<r, s>>)
    BY DEF Same
  <2> QED BY <2>1, <2>2 DEF StoresInv, WellFormed, Maps, Tables, PutsOutput, SameOutputs
<1>4. \A k \in Keys : SameState(<<r, k>>)'
  BY DEF Same, SameState, PutsOutput
<1> QED BY <1>1, <1>2, <1>3, <1>4 DEF Same

\* Writing the same state everywhere keeps the stores in agreement.
LEMMA SameStatePut ==
  ASSUME StoresInv, NEW r \in RunIDs, Same(r), NEW x \in Keys, NEW v,
         PutsState(mem, mem', <<r, x>>, v), PutsState(lib, lib', <<r, x>>, v),
         PutsState(pg, pg', <<r, x>>, v), mem.execMaps \subseteq mem'.execMaps
  PROVE Same(r)'
<1>1. SameRuns(r)'
  BY DEF Same, SameRuns, PutsState
<1>2. \A s \in StepIDs : SameExecs(<<r, s>>)' /\ SameOutputs(<<r, s>>)'
  BY DEF Same, SameExecs, SameOutputs, PutsState
<1>3. ASSUME NEW k \in Keys PROVE SameState(<<r, k>>)'
  <2>1. <<r, k>> \in StateCells
    BY DEF StateCells
  <2>2. SameState(<<r, k>>)
    BY DEF Same
  <2> QED BY <2>1, <2>2 DEF StoresInv, WellFormed, Maps, Tables, PutsState, SameState
<1> QED BY <1>1, <1>2, <1>3 DEF Same

\* A proper call leaves the run it is about the same in the three stores.
LEMMA ProperRun ==
  ASSUME NEW c \in Calls, ProperCall(c)
  PROVE Same(c.run)'
<1>0. c.run \in RunIDs /\ Same(c.run) /\ StoresInv /\ mem.execMaps \subseteq mem'.execMaps
  BY CallKinds, MemoryStep DEF ProperCall, StoresInv, Agreement, IsCall, Step, WellFormed
<1>1. CASE IsCall(c, "CreateRun", {None}, Runs)
  <2>1. CASE UNCHANGED <<mem, lib, pg>>
    BY <1>0, <2>1 DEF Same, SameRuns, SameExecs, SameOutputs, SameState
  <2>2. CASE /\ PutsRun(mem, mem', c.run, c.value) /\ mem'.execMaps = mem.execMaps \cup {c.run}
             /\ PutsRun(lib, lib', c.run, RunRow(c.value))
             /\ PutsRun(pg, pg', c.run, RunRow(c.value))
    BY <1>0, <1>1, <2>2, SameRunsPut DEF IsCall
  <2> QED BY <1>1, <2>1, <2>2, CreateRunEffect
<1>2. CASE IsCall(c, "UpdateRun", {None}, Runs)
  <2>1. c.run \in mem'.execMaps
    BY <1>0, <1>2, UpdateRunEffect DEF Same, SameRuns
  <2> QED BY <1>0, <1>2, <2>1, UpdateRunEffect, SameRunsPut DEF IsCall
<1>3. CASE IsCall(c, "CreateStepExecution", StepIDs, Execs)
  <2>1. /\ ExecRow(c.value) \in ExecRows /\ ExecRow(c.value).data = c.value
        /\ ExecRow(c.value).index = c.value.index
    BY <1>3, Rows DEF ExecRow, IsCall
  <2> QED BY <1>0, <1>3, <2>1, CreateStepEffect, SameExecsPut DEF IsCall, Cell
<1>4. CASE IsCall(c, "UpdateStepExecution", StepIDs, Execs)
  <2> DEFINE data == LibData(lib.execs[Cell(c)].data, c.value)
             row == [status |-> c.value.status, index |-> c.value.index, data |-> data]
  <2>1. lib.execs[Cell(c)].data \in ExecRecords /\ lib.execs[Cell(c)].data.index = c.value.index
    BY <1>4, UpdateStepEffect
  <2>2. /\ data \in ExecRecords /\ data.status = c.value.status /\ data.index = c.value.index
        /\ data.attempt = c.value.attempt
    BY <1>4, <2>1, JsonSet DEF IsCall
  <2>3. data # None /\ c.value # None
    BY <1>4, <2>2, StoresAssumption DEF IsCall
  <2>4. Kept(data) = Kept(c.value)
    BY <2>2, <2>3 DEF Kept
  <2>5. row \in ExecRows /\ row.index = c.value.index /\ row.data = data
    BY <1>4, <2>2 DEF IsCall, ExecRows
  <2>6. /\ PutsExec(mem, mem', Cell(c), c.value) /\ PutsExec(pg, pg', Cell(c), ExecRow(c.value))
        /\ PutsExec(lib, lib', Cell(c), row)
    BY <1>4, UpdateStepEffect
  <2> HIDE DEF data, row
  <2> QED BY <1>0, <1>4, <2>4, <2>5, <2>6, SameExecsPut DEF IsCall, Cell
<1>5. CASE IsCall(c, "SaveStepOutput", StepIDs, Blobs)
  BY <1>0, <1>5, SaveOutputEffect, SameOutputsPut DEF IsCall, Cell
<1>6. CASE IsCall(c, "SaveState", Keys, Blobs)
  BY <1>0, <1>6, SaveStateEffect, SameStatePut DEF IsCall, Cell
<1>7. CASE IsCall(c, "DeleteState", Keys, {None})
  BY <1>0, <1>7, DeleteStateEffect, SameStatePut DEF IsCall, Cell
<1> QED
  BY CallKinds, <1>1, <1>2, <1>3, <1>4, <1>5, <1>6, <1>7

\* A step of the specification, as one call or none.
LEMMA NextStep ==
  ASSUME [Next]_vars
  PROVE \/ UNCHANGED vars
        \/ \E c \in Calls :
             /\ calls < MaxCalls /\ calls' = calls + 1 /\ Step(c)
             /\ misused' = IF Proper(c) THEN misused ELSE misused \cup {c.run}
BY DEF Next, Step

\* The invariant is inductive.
LEMMA KeepsStoresInv ==
  ASSUME StoresInv, [Next]_vars
  PROVE StoresInv'
<1>1. CASE UNCHANGED vars
  BY <1>1
  DEF vars, StoresInv, WellFormed, Columns, Owned, Unowned, Agreement, Same, SameRuns, SameExecs,
      SameOutputs, SameState
<1>2. ASSUME NEW c \in Calls, calls < MaxCalls, calls' = calls + 1, Step(c),
             misused' = IF Proper(c) THEN misused ELSE misused \cup {c.run}
      PROVE StoresInv'
  <2>1. WellFormed'
    BY <1>2, WellFormedStep DEF StoresInv
  <2>2. Owned'
    BY <1>2, OwnedStep DEF StoresInv
  <2>3. ASSUME NEW r \in RunIDs \ misused' PROVE Same(r)'
    <3>1. r \notin misused /\ Same(r)
      BY <1>2 DEF StoresInv, Agreement
    <3>2. CASE r # c.run
      BY <1>2, <3>1, <3>2, OtherRuns
    <3>3. CASE r = c.run
      BY <1>2, <3>1, <3>3, ProperRun DEF ProperCall
    <3> QED BY <3>2, <3>3
  <2> QED BY <2>1, <2>2, <2>3 DEF StoresInv, Agreement
<1> QED BY <1>1, <1>2, NextStep

(* In every reachable state the tables are well formed, nothing is left     *)
(* without its run in Postgres, and the runs that were only used properly   *)
(* are the same in the three stores, for any number of runs, steps, keys    *)
(* and calls.                                                               *)
THEOREM StoresInvariance == Spec => []StoresInv
<1>1. Init => StoresInv
  BY InitialStores
<1>2. StoresInv /\ [Next]_vars => StoresInv'
  BY KeepsStoresInv
<1> QED BY <1>1, <1>2, PTL DEF Spec

\* Of a run that was never misused the columns no UPDATE writes agree with the
\* records in the rows.
LEMMA KeptColumns ==
  ASSUME StoresInv, NEW r \in RunIDs \ misused
  PROVE \A db \in {lib, pg} :
          /\ db.runs[r] # None => db.runs[r].resource = db.runs[r].data.resource
          /\ \A s \in StepIDs : db.execs[<<r, s>>] # None =>
               db.execs[<<r, s>>].index = db.execs[<<r, s>>].data.index
<1>1. Same(r)
  BY DEF StoresInv, Agreement
<1>2. lib.runs[r] = pg.runs[r] /\ (pg.runs[r] # None => pg.runs[r] = RunRow(mem.runs[r]))
  BY <1>1 DEF Same, SameRuns
<1>3. ASSUME NEW s \in StepIDs, lib.execs[<<r, s>>] # None \/ pg.execs[<<r, s>>] # None
      PROVE /\ pg.execs[<<r, s>>].index = pg.execs[<<r, s>>].data.index
            /\ lib.execs[<<r, s>>].index = lib.execs[<<r, s>>].data.index
  <2>1. SameExecs(<<r, s>>) /\ lib.execs[<<r, s>>] # None /\ pg.execs[<<r, s>>] # None
    BY <1>1, <1>3 DEF Same, SameExecs
  <2>2. pg.execs[<<r, s>>] = ExecRow(mem.execs[<<r, s>>])
    BY <2>1 DEF SameExecs
  <2>3. lib.execs[<<r, s>>].index = pg.execs[<<r, s>>].index
        /\ Kept(lib.execs[<<r, s>>].data) = Kept(pg.execs[<<r, s>>].data)
    BY <2>1 DEF SameExecs
  <2>4. lib.execs[<<r, s>>] \in ExecRows /\ pg.execs[<<r, s>>] \in ExecRows
    BY <2>1 DEF StoresInv, WellFormed, Tables, RunCells
  <2>5. lib.execs[<<r, s>>].data # None /\ pg.execs[<<r, s>>].data # None
    BY <2>4, Rows
  <2>6. lib.execs[<<r, s>>].data.index = pg.execs[<<r, s>>].data.index
    BY <2>3, <2>5 DEF Kept
  <2> QED BY <2>2, <2>3, <2>6 DEF ExecRow
<1> QED BY <1>2, <1>3 DEF RunRow

(* The tables hold rows of their kinds; the status column always agrees     *)
(* with the record in the row, and the resource and the index do as long as *)
(* the run is used properly.                                                *)
THEOREM StoresTypeCorrect == Spec => []StoreTypeOK
<1>1. StoresInv => StoreTypeOK
  <2> SUFFICES ASSUME StoresInv PROVE StoreTypeOK
    OBVIOUS
  <2>1. /\ \A r \in RunIDs : mem.runs[r] \in Runs \cup {None}
        /\ \A x \in RunCells : mem.execs[x] \in Execs \cup {None}
        /\ mem.execMaps \subseteq RunIDs
    BY DEF StoresInv, WellFormed, Maps
  <2>2. ASSUME NEW db \in {lib, pg}
        PROVE /\ \A r \in RunIDs : db.runs[r] # None =>
                   /\ db.runs[r] \in RunRows
                   /\ db.runs[r].status = db.runs[r].data.status
                   /\ r \notin misused => db.runs[r].resource = db.runs[r].data.resource
              /\ \A x \in RunCells : db.execs[x] # None =>
                   /\ db.execs[x] \in ExecRows
                   /\ db.execs[x].status = db.execs[x].data.status
                   /\ x[1] \notin misused => db.execs[x].index = db.execs[x].data.index
              /\ \A x \in RunCells : db.outputs[x] \in Blobs \cup {None}
              /\ \A x \in StateCells : db.state[x] \in Blobs \cup {None}
    <3>1. db \in Tables /\ Columns(db)
      BY DEF StoresInv, WellFormed
    <3>2. ASSUME NEW r \in RunIDs, db.runs[r] # None
          PROVE /\ db.runs[r] \in RunRows
                /\ db.runs[r].status = db.runs[r].data.status
                /\ r \notin misused => db.runs[r].resource = db.runs[r].data.resource
      BY <3>1, <3>2, KeptColumns DEF Tables, Columns
    <3>3. ASSUME NEW x \in RunCells, db.execs[x] # None
          PROVE /\ db.execs[x] \in ExecRows
                /\ db.execs[x].status = db.execs[x].data.status
                /\ x[1] \notin misused => db.execs[x].index = db.execs[x].data.index
      <4>1. x[1] \in RunIDs /\ x[2] \in StepIDs /\ x = <<x[1], x[2]>>
        BY DEF RunCells
      <4>2. x[1] \notin misused => db.execs[x].index = db.execs[x].data.index
        BY <3>3, <4>1, KeptColumns
      <4> QED BY <3>1, <3>3, <4>2 DEF Tables, Columns
    <3> QED BY <3>1, <3>2, <3>3 DEF Tables
  <2> QED BY <2>1, <2>2 DEF StoreTypeOK, StoresInv, WellFormed
<1> QED BY <1>1, StoresInvariance, PTL
-----------------------------------------------------------------------------
(* What the stores promise.                                                 *)

\* The reads of a run that was never misused.
LEMMA SameReads ==
  ASSUME StoresInv, NEW r \in RunIDs \ misused, NEW db \in {lib, pg}
  PROVE /\ GetRun(db, r) = MemGetRun(mem, r)
        /\ \A f \in Filters : r \in ListRuns(db, f) <=> r \in MemListRuns(mem, f)
        /\ \A x \in Execs :
             ListStepExecutions(db, r, x.index) = MemListStepExecutions(mem, r, x.index)
        /\ \A s \in StepIDs :
             /\ LoadStepOutput(db, r, s) = MemLoadStepOutput(mem, r, s)
             /\ Kept(GetStepExecution(db, r, s)) = Kept(MemGetStepExecution(mem, r, s))
        /\ GetAllState(db, r) = MemGetAllState(mem, r)
        /\ \A k \in Keys : LoadState(db, r, k) = MemLoadState(mem, r, k)
        /\ \A s \in StepIDs : GetStepExecution(pg, r, s) = MemGetStepExecution(mem, r, s)
<1>1. Same(r) /\ r \in RunIDs /\ WellFormed
  BY DEF StoresInv, Agreement
<1>2. /\ db.runs[r] = IF mem.runs[r] = None THEN None ELSE RunRow(mem.runs[r])
      /\ mem.runs[r] \in Runs \cup {None}
  BY <1>1 DEF Same, SameRuns, WellFormed, Maps
<1>4. mem.runs[r] # None =>
        /\ db.runs[r] # None /\ db.runs[r].data = mem.runs[r]
        /\ db.runs[r].status = mem.runs[r].status /\ db.runs[r].resource = mem.runs[r].resource
  BY <1>2, Rows DEF RunRow
<1>5. GetRun(db, r) = MemGetRun(mem, r)
  BY <1>2, <1>4 DEF GetRun, MemGetRun, Data
<1>6. \A f \in Filters : r \in ListRuns(db, f) <=> r \in MemListRuns(mem, f)
  BY <1>1, <1>2, <1>4 DEF ListRuns, MemListRuns
<1>7. ASSUME NEW s \in StepIDs
      PROVE /\ mem.execs[<<r, s>>] = None <=> db.execs[<<r, s>>] = None
            /\ mem.execs[<<r, s>>] # None => db.execs[<<r, s>>].index = mem.execs[<<r, s>>].index
            /\ Kept(GetStepExecution(db, r, s)) = Kept(MemGetStepExecution(mem, r, s))
            /\ GetStepExecution(pg, r, s) = MemGetStepExecution(mem, r, s)
  <2>1. SameExecs(<<r, s>>)
    BY <1>1 DEF Same
  <2>2. /\ mem.execs[<<r, s>>] = None <=> pg.execs[<<r, s>>] = None
        /\ mem.execs[<<r, s>>] = None <=> lib.execs[<<r, s>>] = None
    BY <1>1, <2>1, ExecCells
  <2>3. mem.execs[<<r, s>>] # None =>
          /\ pg.execs[<<r, s>>].data = mem.execs[<<r, s>>]
          /\ pg.execs[<<r, s>>].index = mem.execs[<<r, s>>].index
    BY <2>1 DEF SameExecs, ExecRow
  <2>4. GetStepExecution(pg, r, s) = MemGetStepExecution(mem, r, s)
    BY <2>2, <2>3 DEF GetStepExecution, MemGetStepExecution, Data
  <2>5. Kept(GetStepExecution(lib, r, s)) = Kept(MemGetStepExecution(mem, r, s))
    BY <2>1, <2>2, <2>3 DEF SameExecs, GetStepExecution, MemGetStepExecution, Data
  <2>6. mem.execs[<<r, s>>] # None => lib.execs[<<r, s>>].index = mem.execs[<<r, s>>].index
    BY <2>1, <2>2, <2>3 DEF SameExecs
  <2> QED BY <2>2, <2>3, <2>4, <2>5, <2>6
<1>8. \A x \in Execs :
        ListStepExecutions(db, r, x.index) = MemListStepExecutions(mem, r, x.index)
  BY <1>7 DEF ListStepExecutions, MemListStepExecutions
<1>9. \A s \in StepIDs : LoadStepOutput(db, r, s) = MemLoadStepOutput(mem, r, s)
  BY <1>1 DEF Same, SameOutputs, LoadStepOutput, MemLoadStepOutput
<1>10. \A k \in Keys : db.state[<<r, k>>] = mem.state[<<r, k>>]
  BY <1>1 DEF Same, SameState
<1>11. GetAllState(db, r) = MemGetAllState(mem, r)
  BY <1>10 DEF GetAllState, MemGetAllState
<1>12. \A k \in Keys : LoadState(db, r, k) = MemLoadState(mem, r, k)
  BY <1>10 DEF LoadState, MemLoadState
<1> QED BY <1>5, <1>6, <1>7, <1>8, <1>9, <1>11, <1>12

\* The replies to a proper call.
LEMMA SameReplies ==
  ASSUME StoresInv, NEW c \in Calls, c.run \notin misused, Proper(c)
  PROVE Memory(mem, c).err = Postgres(pg, c).err /\ LibSQL(lib, c).err = Postgres(pg, c).err
<1>1. Same(c.run) /\ c.run \in RunIDs /\ WellFormed
  BY CallKinds DEF StoresInv, Agreement, IsCall
<1>2. /\ mem.runs[c.run] = None <=> pg.runs[c.run] = None
      /\ lib.runs[c.run] = pg.runs[c.run]
      /\ mem.runs[c.run] # None => c.run \in mem.execMaps
  <2>1. mem.runs[c.run] # None => mem.runs[c.run] \in Runs
    BY <1>1 DEF WellFormed, Maps
  <2> QED BY <1>1, <2>1, Rows DEF Same, SameRuns
<1>3. CASE IsCall(c, "CreateRun", {None}, Runs)
  BY <1>2, <1>3 DEF IsCall, Memory, LibSQL, Postgres, MemCreateRun, CreateRun, Reply
<1>4. CASE IsCall(c, "UpdateRun", {None}, Runs)
  <2>1. pg.runs[c.run] # None
    BY <1>4 DEF Proper, Misplaced, IsCall
  <2> QED
    BY <1>2, <1>4, <2>1
    DEF IsCall, Memory, LibSQL, Postgres, MemUpdateRun, LibUpdateRun, PgUpdateRun, Reply
<1>5. CASE IsCall(c, "CreateStepExecution", StepIDs, Execs)
  <2>1. pg.runs[c.run] # None /\ pg.execs[Cell(c)] = None
    BY <1>5 DEF Proper, Misplaced, IsCall
  <2>2. lib.execs[Cell(c)] = None
    BY <1>1, <1>5, <2>1, ExecCells DEF IsCall, Same, Cell
  <2> QED
    BY <1>5, <2>1, <2>2
    DEF IsCall, Memory, LibSQL, Postgres, MemCreateStepExecution, CreateStepExecution,
        PgCreateStepExecution, References, Reply
<1>6. CASE IsCall(c, "UpdateStepExecution", StepIDs, Execs)
  <2>1. pg.execs[Cell(c)] # None
    BY <1>6 DEF Proper, Misplaced, IsCall
  <2>2. pg.runs[c.run] # None
    BY <1>1, <1>6, <2>1 DEF IsCall, StoresInv, Owned, Unowned, Cell
  <2> QED
    BY <1>2, <1>6, <2>1, <2>2
    DEF IsCall, Memory, LibSQL, Postgres, MemUpdateStepExecution, LibUpdateStepExecution,
        PgUpdateStepExecution, Reply
<1>7. CASE IsCall(c, "SaveStepOutput", StepIDs, Blobs) \/ IsCall(c, "SaveState", Keys, Blobs)
  <2>1. pg.runs[c.run] # None
    BY <1>7 DEF Proper, Misplaced, IsCall
  <2> QED
    BY <1>7, <2>1
    DEF IsCall, Memory, LibSQL, Postgres, MemSaveStepOutput, MemSaveState, SaveStepOutput, SaveState,
        PgSaveStepOutput, PgSaveState, References, Reply
<1>8. CASE IsCall(c, "DeleteState", Keys, {None})
  BY <1>8 DEF IsCall, Memory, LibSQL, Postgres, MemDeleteState, DeleteState, Reply
<1> QED
  BY CallKinds, <1>3, <1>4, <1>5, <1>6, <1>7, <1>8

(* The stores can be swapped: a run that is only used properly reads the    *)
(* same on each, but for the output and the error of a step's record on     *)
(* LibSQL, and the next proper call gets the same reply.                    *)
THEOREM StoresAreInterchangeable == Spec => []StoresAgree
<1>1. StoresInv => StoresAgree
  <2> SUFFICES ASSUME StoresInv, NEW r \in RunIDs \ misused
               PROVE StoresAgree!(r)
    BY DEF StoresAgree
  <2> QED BY SameReads, SameReplies
<1> QED BY <1>1, StoresInvariance, PTL
-----------------------------------------------------------------------------
(* Each store implements the contract.                                      *)

\* An empty memory store is an empty contract.
LEMMA MemoryStarts ==
  ASSUME Init PROVE MemoryContract!Init
BY DEF Init, NewMemoryStore, RunCells, StateCells, MemoryContract!Init

\* A proper call is a use of the run, or changes nothing.
LEMMA MemoryUses ==
  ASSUME NEW c \in Calls, ProperCall(c), UNCHANGED misused
  PROVE MemoryContract!Use(c.run) \/ UNCHANGED MemoryContract!vars
<1>0. mem \in Maps /\ c.run \in RunIDs
  BY CallKinds DEF ProperCall, StoresInv, WellFormed, IsCall
<1>1. CASE IsCall(c, "CreateRun", {None}, Runs)
  <2>1. c.value # None
    BY <1>1, Rows DEF IsCall
  <2>2. CASE UNCHANGED mem
    BY <2>2 DEF MemoryContract!vars, MemoryContract!cells
  <2>3. CASE mem.runs[c.run] = None /\ PutsRun(mem, mem', c.run, c.value)
    <3>1. MemoryContract!CreateRun(c.run)
      BY <1>0, <2>1, <2>3 DEF Maps, PutsRun, MemoryContract!CreateRun, MemoryContract!Puts
    <3> QED BY <3>1 DEF MemoryContract!Use
  <2> QED BY <1>1, <2>2, <2>3, CreateRunEffect
<1>2. CASE IsCall(c, "UpdateRun", {None}, Runs)
  <2>1. c.value # None
    BY <1>2, Rows DEF IsCall
  <2>2. mem.runs[c.run] # None /\ SameRun(mem.runs[c.run], c.value) /\ PutsRun(mem, mem', c.run, c.value)
    BY <1>2, UpdateRunEffect
  <2>3. MemoryContract!UpdateRun(c.run)
    BY <1>0, <2>1, <2>2 DEF Maps, PutsRun, MemoryContract!UpdateRun, MemoryContract!Puts
  <2> QED BY <2>3 DEF MemoryContract!Use
<1>3. CASE \/ IsCall(c, "CreateStepExecution", StepIDs, Execs)
           \/ IsCall(c, "UpdateStepExecution", StepIDs, Execs)
  <2>1. c.value # None /\ c.key \in StepIDs /\ Cell(c) = <<c.run, c.key>> /\ Cell(c) \in RunCells
    BY <1>0, <1>3, Rows DEF IsCall, Cell, RunCells
  <2>2. /\ mem.runs[c.run] # None /\ PutsExec(mem, mem', Cell(c), c.value)
        /\ mem.execs[Cell(c)] # None => SameStep(mem.execs[Cell(c)], c.value)
    BY <1>3, CreateStepEffect, UpdateStepEffect DEF SameStep
  <2>3. MemoryContract!PutStep(c.run, c.key)
    BY <1>0, <2>1, <2>2 DEF Maps, PutsExec, MemoryContract!PutStep, MemoryContract!Puts
  <2> QED BY <2>1, <2>3 DEF MemoryContract!Use
<1>4. CASE IsCall(c, "SaveStepOutput", StepIDs, Blobs)
  <2>1. c.value # None /\ c.key \in StepIDs /\ Cell(c) = <<c.run, c.key>> /\ Cell(c) \in RunCells
    BY <1>0, <1>4, Rows DEF IsCall, Cell, RunCells
  <2>2. mem.runs[c.run] # None /\ PutsOutput(mem, mem', Cell(c), c.value)
    BY <1>4, SaveOutputEffect
  <2>3. MemoryContract!SaveOutput(c.run, c.key)
    BY <1>0, <2>1, <2>2 DEF Maps, PutsOutput, MemoryContract!SaveOutput, MemoryContract!Puts
  <2> QED BY <2>1, <2>3 DEF MemoryContract!Use
<1>5. CASE IsCall(c, "SaveState", Keys, Blobs)
  <2>1. c.value # None /\ c.key \in Keys /\ Cell(c) = <<c.run, c.key>> /\ Cell(c) \in StateCells
    BY <1>0, <1>5, Rows DEF IsCall, Cell, StateCells
  <2>2. mem.runs[c.run] # None /\ PutsState(mem, mem', Cell(c), c.value)
    BY <1>5, SaveStateEffect
  <2>3. MemoryContract!SaveState(c.run, c.key)
    BY <1>0, <2>1, <2>2 DEF Maps, PutsState, MemoryContract!SaveState, MemoryContract!Puts
  <2> QED BY <2>1, <2>3 DEF MemoryContract!Use
<1>6. CASE IsCall(c, "DeleteState", Keys, {None})
  <2>1. c.key \in Keys /\ Cell(c) = <<c.run, c.key>> /\ PutsState(mem, mem', Cell(c), None)
    BY <1>6, DeleteStateEffect DEF IsCall, Cell
  <2>2. MemoryContract!DeleteState(c.run, c.key)
    BY <2>1 DEF PutsState, MemoryContract!DeleteState
  <2> QED BY <2>1, <2>2 DEF MemoryContract!Use
<1> QED
  BY CallKinds, <1>1, <1>2, <1>3, <1>4, <1>5, <1>6

\* Any other call may spoil the run it is about, and no other.
LEMMA MemoryMisuses ==
  ASSUME StoresInv, NEW c \in Calls, Step(c), misused' = misused \cup {c.run}
  PROVE MemoryContract!Misuse(c.run)
<1>1. mem \in Maps /\ mem' \in Maps /\ OnlyRun(mem, mem', c.run)
  BY MemoryStep DEF Step, StoresInv, WellFormed
<1>2. MemoryContract!Others(mem'.execs, c.run) = MemoryContract!Others(mem.execs, c.run)
  BY <1>1 DEF OnlyRun, Maps, RunCells, MemoryContract!Others
<1>3. MemoryContract!Others(mem'.outputs, c.run) = MemoryContract!Others(mem.outputs, c.run)
  BY <1>1 DEF OnlyRun, Maps, RunCells, MemoryContract!Others
<1>4. MemoryContract!Others(mem'.state, c.run) = MemoryContract!Others(mem.state, c.run)
  BY <1>1 DEF OnlyRun, Maps, StateCells, MemoryContract!Others
<1> QED BY <1>1, <1>2, <1>3, <1>4 DEF OnlyRun, MemoryContract!Misuse

\* The records of the tables, as the contract sees them.
RunsOf(db) == [r \in RunIDs |-> GetRun(db, r)]
ExecsOf(db) == [x \in RunCells |-> Data(db.execs[x])]

\* What readers see of a run that was written.
LEMMA PutRunReads ==
  ASSUME NEW db \in Tables, NEW next \in Tables, NEW r \in RunIDs, NEW row \in RunRows,
         PutsRun(db, next, r, row)
  PROVE /\ RunsOf(next) = [RunsOf(db) EXCEPT ![r] = RunsOf(next)[r]]
        /\ RunsOf(next)[r] = row.data /\ RunsOf(next)[r] # None
        /\ ExecsOf(next) = ExecsOf(db) /\ next.outputs = db.outputs /\ next.state = db.state
<1>1. row # None /\ row.data \in Runs /\ row.data # None
  BY Rows
<1>2. \A q \in RunIDs : next.runs[q] = IF q = r THEN row ELSE db.runs[q]
  BY DEF Tables, PutsRun
<1>3. RunsOf(next)[r] = row.data
  BY <1>1, <1>2 DEF RunsOf, GetRun, Data
<1>4. RunsOf(next) = [RunsOf(db) EXCEPT ![r] = RunsOf(next)[r]]
  BY <1>2 DEF RunsOf, GetRun
<1>5. ExecsOf(next) = ExecsOf(db)
  BY DEF ExecsOf, PutsRun
<1> QED BY <1>1, <1>3, <1>4, <1>5 DEF PutsRun

\* What readers see of a step that was written.
LEMMA PutExecReads ==
  ASSUME NEW db \in Tables, NEW next \in Tables, NEW x \in RunCells, NEW row \in ExecRows,
         PutsExec(db, next, x, row)
  PROVE /\ ExecsOf(next) = [ExecsOf(db) EXCEPT ![x] = ExecsOf(next)[x]]
        /\ ExecsOf(next)[x] = row.data /\ ExecsOf(next)[x] # None
        /\ RunsOf(next) = RunsOf(db) /\ next.outputs = db.outputs /\ next.state = db.state
<1>1. row # None /\ row.data # None
  BY Rows
<1>2. \A y \in RunCells : next.execs[y] = IF y = x THEN row ELSE db.execs[y]
  BY DEF Tables, PutsExec
<1>3. ExecsOf(next)[x] = row.data
  BY <1>1, <1>2 DEF ExecsOf, Data
<1>4. ExecsOf(next) = [ExecsOf(db) EXCEPT ![x] = ExecsOf(next)[x]]
  BY <1>2 DEF ExecsOf
<1>5. RunsOf(next) = RunsOf(db)
  BY DEF RunsOf, GetRun, PutsExec
<1> QED BY <1>1, <1>3, <1>4, <1>5 DEF PutsExec

\* The steps of a run that a call is not about, and the tables' shape.
LEMMA TablesMisuse ==
  ASSUME NEW db \in Tables, NEW next \in Tables, NEW r \in RunIDs, OnlyRun(db, next, r)
  PROVE /\ \A q \in RunIDs \ {r} : RunsOf(next)[q] = RunsOf(db)[q]
        /\ \A x \in RunCells : x[1] # r => ExecsOf(next)[x] = ExecsOf(db)[x]
        /\ \A x \in RunCells : x[1] # r => next.outputs[x] = db.outputs[x]
        /\ \A x \in StateCells : x[1] # r => next.state[x] = db.state[x]
<1>1. \A x \in RunCells : x[1] # r => next.execs[x] = db.execs[x] /\ next.outputs[x] = db.outputs[x]
  BY DEF OnlyRun, RunCells
<1>2. \A x \in StateCells : x[1] # r => next.state[x] = db.state[x]
  BY DEF OnlyRun, StateCells
<1> QED BY <1>1, <1>2 DEF RunsOf, ExecsOf, GetRun, OnlyRun

\* An empty database is an empty contract.
LEMMA LibSQLStarts ==
  ASSUME Init PROVE LibSQLContract!Init
BY DEF Init, NewTables, RunCells, StateCells, GetRun, Data, LibSQLContract!Init

\* A proper call of the libSQL store is a use, or changes nothing to see.
LEMMA LibSQLUses ==
  ASSUME NEW c \in Calls, ProperCall(c), UNCHANGED misused
  PROVE LibSQLContract!Use(c.run) \/ UNCHANGED LibSQLContract!vars
<1>0. lib \in Tables /\ lib' \in Tables /\ c.run \in RunIDs
  BY CallKinds, LibSQLStep DEF ProperCall, StoresInv, WellFormed, IsCall, Step, Change
<1>8. lib.runs[c.run] # None => RunsOf(lib)[c.run] = lib.runs[c.run].data /\ RunsOf(lib)[c.run] # None
  BY <1>0, Rows DEF RunsOf, GetRun, Data, Tables
<1>1. CASE IsCall(c, "CreateRun", {None}, Runs)
  <2>1. RunRow(c.value) \in RunRows
    BY <1>1, Rows DEF IsCall
  <2>2. CASE UNCHANGED lib
    BY <2>2 DEF GetRun, Data, LibSQLContract!vars, LibSQLContract!cells
  <2>3. CASE lib.runs[c.run] = None /\ PutsRun(lib, lib', c.run, RunRow(c.value))
    <3>1. RunsOf(lib)[c.run] = None
      BY <1>0, <2>3 DEF RunsOf, GetRun, Data
    <3>2. /\ RunsOf(lib') = [RunsOf(lib) EXCEPT ![c.run] = RunsOf(lib')[c.run]]
          /\ RunsOf(lib')[c.run] # None /\ ExecsOf(lib') = ExecsOf(lib)
          /\ lib'.outputs = lib.outputs /\ lib'.state = lib.state
      BY <1>0, <2>1, <2>3, PutRunReads
    <3>3. LibSQLContract!CreateRun(c.run)
      BY <3>1, <3>2 DEF LibSQLContract!CreateRun, LibSQLContract!Puts, RunsOf, ExecsOf
    <3> QED BY <3>3 DEF LibSQLContract!Use
  <2> QED BY <1>1, <2>2, <2>3, CreateRunEffect
<1>2. CASE IsCall(c, "UpdateRun", {None}, Runs)
  <2>1. RunRow(c.value) \in RunRows /\ RunRow(c.value).data = c.value
    BY <1>2, Rows DEF IsCall, RunRow
  <2>2. /\ lib.runs[c.run] # None /\ SameRun(lib.runs[c.run].data, c.value)
        /\ PutsRun(lib, lib', c.run, RunRow(c.value))
    BY <1>2, UpdateRunEffect
  <2>3. RunsOf(lib)[c.run] # None /\ SameRun(RunsOf(lib)[c.run], RunsOf(lib')[c.run])
    <3>1. RunsOf(lib')[c.run] = c.value
      BY <1>0, <2>1, <2>2, PutRunReads
    <3> QED BY <1>8, <2>2, <3>1 DEF SameRun
  <2>4. LibSQLContract!UpdateRun(c.run)
    BY <1>0, <2>1, <2>2, <2>3, PutRunReads
    DEF LibSQLContract!UpdateRun, LibSQLContract!Puts, RunsOf, ExecsOf
  <2> QED BY <2>4 DEF LibSQLContract!Use
<1>3. CASE IsCall(c, "CreateStepExecution", StepIDs, Execs)
  <2>1. c.key \in StepIDs /\ Cell(c) = <<c.run, c.key>> /\ Cell(c) \in RunCells /\ c.value \in Execs
    BY <1>0, <1>3 DEF IsCall, Cell, RunCells
  <2>2. /\ lib.runs[c.run] # None /\ lib.execs[Cell(c)] = None
        /\ PutsExec(lib, lib', Cell(c), ExecRow(c.value))
    BY <1>3, CreateStepEffect
  <2>3. ExecRow(c.value) \in ExecRows
    BY <2>1, Rows
  <2>4. ExecsOf(lib)[Cell(c)] = None /\ RunsOf(lib)[c.run] # None
    BY <1>0, <1>8, <2>1, <2>2 DEF ExecsOf, Data
  <2>5. /\ ExecsOf(lib') = [ExecsOf(lib) EXCEPT ![Cell(c)] = ExecsOf(lib')[Cell(c)]]
        /\ ExecsOf(lib')[Cell(c)] # None /\ RunsOf(lib') = RunsOf(lib)
        /\ lib'.outputs = lib.outputs /\ lib'.state = lib.state
    BY <1>0, <2>1, <2>2, <2>3, PutExecReads
  <2>6. LibSQLContract!PutStep(c.run, c.key)
    BY <2>1, <2>4, <2>5 DEF LibSQLContract!PutStep, LibSQLContract!Puts, RunsOf, ExecsOf
  <2> QED BY <2>1, <2>6 DEF LibSQLContract!Use
<1>4. CASE IsCall(c, "UpdateStepExecution", StepIDs, Execs)
  <2> DEFINE data == LibData(lib.execs[Cell(c)].data, c.value)
             row == [status |-> c.value.status, index |-> c.value.index, data |-> data]
  <2>1. c.key \in StepIDs /\ Cell(c) = <<c.run, c.key>> /\ Cell(c) \in RunCells /\ c.value \in Execs
    BY <1>0, <1>4 DEF IsCall, Cell, RunCells
  <2>2. /\ lib.runs[c.run] # None /\ lib.execs[Cell(c)] # None /\ PutsExec(lib, lib', Cell(c), row)
        /\ lib.execs[Cell(c)].data \in ExecRecords /\ lib.execs[Cell(c)].data.index = c.value.index
    BY <1>4, UpdateStepEffect
  <2>3. data \in ExecRecords /\ data.index = c.value.index
    BY <2>1, <2>2, JsonSet
  <2>4. row \in ExecRows /\ row.data = data
    BY <2>1, <2>3 DEF ExecRows
  <2>5. ExecsOf(lib)[Cell(c)] = lib.execs[Cell(c)].data /\ RunsOf(lib)[c.run] # None
    BY <1>0, <1>8, <2>1, <2>2 DEF ExecsOf, Data
  <2>6. SameStep(ExecsOf(lib)[Cell(c)], ExecsOf(lib')[Cell(c)])
    <3>1. ExecsOf(lib')[Cell(c)] = data
      BY <1>0, <2>1, <2>2, <2>4, PutExecReads
    <3> QED BY <2>2, <2>3, <2>5, <3>1 DEF SameStep
  <2> HIDE DEF row, data
  <2>7. /\ ExecsOf(lib') = [ExecsOf(lib) EXCEPT ![Cell(c)] = ExecsOf(lib')[Cell(c)]]
        /\ ExecsOf(lib')[Cell(c)] # None /\ RunsOf(lib') = RunsOf(lib)
        /\ lib'.outputs = lib.outputs /\ lib'.state = lib.state
    BY <1>0, <2>1, <2>2, <2>4, PutExecReads
  <2>8. LibSQLContract!PutStep(c.run, c.key)
    BY <2>1, <2>5, <2>6, <2>7 DEF LibSQLContract!PutStep, LibSQLContract!Puts, RunsOf, ExecsOf
  <2> QED BY <2>1, <2>8 DEF LibSQLContract!Use
<1>5. CASE IsCall(c, "SaveStepOutput", StepIDs, Blobs)
  <2>1. c.value # None /\ c.key \in StepIDs /\ Cell(c) = <<c.run, c.key>> /\ Cell(c) \in RunCells
    BY <1>0, <1>5, Rows DEF IsCall, Cell, RunCells
  <2>2. lib.runs[c.run] # None /\ PutsOutput(lib, lib', Cell(c), c.value)
    BY <1>5, SaveOutputEffect
  <2>3. RunsOf(lib') = RunsOf(lib) /\ ExecsOf(lib') = ExecsOf(lib)
    BY <2>2 DEF PutsOutput, RunsOf, ExecsOf, GetRun
  <2>4. LibSQLContract!SaveOutput(c.run, c.key)
    BY <1>0, <1>8, <2>1, <2>2, <2>3
    DEF Tables, PutsOutput, LibSQLContract!SaveOutput, LibSQLContract!Puts, RunsOf, ExecsOf
  <2> QED BY <2>1, <2>4 DEF LibSQLContract!Use
<1>6. CASE IsCall(c, "SaveState", Keys, Blobs)
  <2>1. c.value # None /\ c.key \in Keys /\ Cell(c) = <<c.run, c.key>> /\ Cell(c) \in StateCells
    BY <1>0, <1>6, Rows DEF IsCall, Cell, StateCells
  <2>2. lib.runs[c.run] # None /\ PutsState(lib, lib', Cell(c), c.value)
    BY <1>6, SaveStateEffect
  <2>3. RunsOf(lib') = RunsOf(lib) /\ ExecsOf(lib') = ExecsOf(lib)
    BY <2>2 DEF PutsState, RunsOf, ExecsOf, GetRun
  <2>4. LibSQLContract!SaveState(c.run, c.key)
    BY <1>0, <1>8, <2>1, <2>2, <2>3
    DEF Tables, PutsState, LibSQLContract!SaveState, LibSQLContract!Puts, RunsOf, ExecsOf
  <2> QED BY <2>1, <2>4 DEF LibSQLContract!Use
<1>7. CASE IsCall(c, "DeleteState", Keys, {None})
  <2>1. c.key \in Keys /\ Cell(c) = <<c.run, c.key>> /\ PutsState(lib, lib', Cell(c), None)
    BY <1>7, DeleteStateEffect DEF IsCall, Cell
  <2>2. RunsOf(lib') = RunsOf(lib) /\ ExecsOf(lib') = ExecsOf(lib)
    BY <2>1 DEF PutsState, RunsOf, ExecsOf, GetRun
  <2>3. LibSQLContract!DeleteState(c.run, c.key)
    BY <2>1, <2>2 DEF PutsState, LibSQLContract!DeleteState, RunsOf, ExecsOf
  <2> QED BY <2>1, <2>3 DEF LibSQLContract!Use
<1> QED
  BY CallKinds, <1>1, <1>2, <1>3, <1>4, <1>5, <1>6, <1>7

\* A call outside the contract touches its own run alone.
LEMMA LibSQLMisuses ==
  ASSUME StoresInv, NEW c \in Calls, Step(c), misused' = misused \cup {c.run}
  PROVE LibSQLContract!Misuse(c.run)
<1>1. lib \in Tables /\ lib' \in Tables /\ OnlyRun(lib, lib', c.run) /\ c.run \in RunIDs
  BY CallKinds, LibSQLStep DEF Step, StoresInv, WellFormed, Change, IsCall
<1>2. LibSQLContract!Others(ExecsOf(lib'), c.run) = LibSQLContract!Others(ExecsOf(lib), c.run)
  BY <1>1, TablesMisuse DEF ExecsOf, LibSQLContract!Others
<1>3. LibSQLContract!Others(lib'.outputs, c.run) = LibSQLContract!Others(lib.outputs, c.run)
  BY <1>1, TablesMisuse DEF Tables, LibSQLContract!Others
<1>4. LibSQLContract!Others(lib'.state, c.run) = LibSQLContract!Others(lib.state, c.run)
  BY <1>1, TablesMisuse DEF Tables, LibSQLContract!Others
<1>5. \A q \in RunIDs \ {c.run} : RunsOf(lib')[q] = RunsOf(lib)[q]
  BY <1>1, TablesMisuse
<1> QED BY <1>2, <1>3, <1>4, <1>5 DEF RunsOf, ExecsOf, LibSQLContract!Misuse

\* An empty database is an empty contract.
LEMMA PostgresStarts ==
  ASSUME Init PROVE PostgresContract!Init
BY DEF Init, NewTables, RunCells, StateCells, GetRun, Data, PostgresContract!Init

\* A proper call of the PostgreSQL store is a use, or changes nothing to see.
LEMMA PostgresUses ==
  ASSUME NEW c \in Calls, ProperCall(c), UNCHANGED misused
  PROVE PostgresContract!Use(c.run) \/ UNCHANGED PostgresContract!vars
<1>0. pg \in Tables /\ pg' \in Tables /\ c.run \in RunIDs
  BY CallKinds, PostgresStep DEF ProperCall, StoresInv, WellFormed, IsCall, Step, Change
<1>8. pg.runs[c.run] # None => RunsOf(pg)[c.run] = pg.runs[c.run].data /\ RunsOf(pg)[c.run] # None
  BY <1>0, Rows DEF RunsOf, GetRun, Data, Tables
<1>1. CASE IsCall(c, "CreateRun", {None}, Runs)
  <2>1. RunRow(c.value) \in RunRows
    BY <1>1, Rows DEF IsCall
  <2>2. CASE UNCHANGED pg
    BY <2>2 DEF GetRun, Data, PostgresContract!vars, PostgresContract!cells
  <2>3. CASE pg.runs[c.run] = None /\ PutsRun(pg, pg', c.run, RunRow(c.value))
    <3>1. RunsOf(pg)[c.run] = None
      BY <1>0, <2>3 DEF RunsOf, GetRun, Data
    <3>2. /\ RunsOf(pg') = [RunsOf(pg) EXCEPT ![c.run] = RunsOf(pg')[c.run]]
          /\ RunsOf(pg')[c.run] # None /\ ExecsOf(pg') = ExecsOf(pg)
          /\ pg'.outputs = pg.outputs /\ pg'.state = pg.state
      BY <1>0, <2>1, <2>3, PutRunReads
    <3>3. PostgresContract!CreateRun(c.run)
      BY <3>1, <3>2 DEF PostgresContract!CreateRun, PostgresContract!Puts, RunsOf, ExecsOf
    <3> QED BY <3>3 DEF PostgresContract!Use
  <2> QED BY <1>1, <2>2, <2>3, CreateRunEffect
<1>2. CASE IsCall(c, "UpdateRun", {None}, Runs)
  <2>1. RunRow(c.value) \in RunRows /\ RunRow(c.value).data = c.value
    BY <1>2, Rows DEF IsCall, RunRow
  <2>2. /\ pg.runs[c.run] # None /\ SameRun(pg.runs[c.run].data, c.value)
        /\ PutsRun(pg, pg', c.run, RunRow(c.value))
    BY <1>2, UpdateRunEffect
  <2>3. RunsOf(pg)[c.run] # None /\ SameRun(RunsOf(pg)[c.run], RunsOf(pg')[c.run])
    <3>1. RunsOf(pg')[c.run] = c.value
      BY <1>0, <2>1, <2>2, PutRunReads
    <3> QED BY <1>8, <2>2, <3>1 DEF SameRun
  <2>4. PostgresContract!UpdateRun(c.run)
    BY <1>0, <2>1, <2>2, <2>3, PutRunReads
    DEF PostgresContract!UpdateRun, PostgresContract!Puts, RunsOf, ExecsOf
  <2> QED BY <2>4 DEF PostgresContract!Use
<1>3. CASE IsCall(c, "CreateStepExecution", StepIDs, Execs)
  <2>1. c.key \in StepIDs /\ Cell(c) = <<c.run, c.key>> /\ Cell(c) \in RunCells /\ c.value \in Execs
    BY <1>0, <1>3 DEF IsCall, Cell, RunCells
  <2>2. /\ pg.runs[c.run] # None /\ pg.execs[Cell(c)] = None
        /\ PutsExec(pg, pg', Cell(c), ExecRow(c.value))
    BY <1>3, CreateStepEffect
  <2>3. ExecRow(c.value) \in ExecRows
    BY <2>1, Rows
  <2>4. ExecsOf(pg)[Cell(c)] = None /\ RunsOf(pg)[c.run] # None
    BY <1>0, <1>8, <2>1, <2>2 DEF ExecsOf, Data
  <2>5. /\ ExecsOf(pg') = [ExecsOf(pg) EXCEPT ![Cell(c)] = ExecsOf(pg')[Cell(c)]]
        /\ ExecsOf(pg')[Cell(c)] # None /\ RunsOf(pg') = RunsOf(pg)
        /\ pg'.outputs = pg.outputs /\ pg'.state = pg.state
    BY <1>0, <2>1, <2>2, <2>3, PutExecReads
  <2>6. PostgresContract!PutStep(c.run, c.key)
    BY <2>1, <2>4, <2>5 DEF PostgresContract!PutStep, PostgresContract!Puts, RunsOf, ExecsOf
  <2> QED BY <2>1, <2>6 DEF PostgresContract!Use
<1>4. CASE IsCall(c, "UpdateStepExecution", StepIDs, Execs)
  <2>1. c.key \in StepIDs /\ Cell(c) = <<c.run, c.key>> /\ Cell(c) \in RunCells /\ c.value \in Execs
    BY <1>0, <1>4 DEF IsCall, Cell, RunCells
  <2>2. /\ pg.runs[c.run] # None /\ pg.execs[Cell(c)] # None
        /\ PutsExec(pg, pg', Cell(c), ExecRow(c.value))
        /\ pg.execs[Cell(c)].data.index = c.value.index
    BY <1>4, UpdateStepEffect
  <2>3. ExecRow(c.value) \in ExecRows /\ ExecRow(c.value).data = c.value
    BY <2>1, Rows DEF ExecRow
  <2>4. ExecsOf(pg)[Cell(c)] = pg.execs[Cell(c)].data /\ RunsOf(pg)[c.run] # None
    BY <1>0, <1>8, <2>1, <2>2 DEF ExecsOf, Data
  <2>5. SameStep(ExecsOf(pg)[Cell(c)], ExecsOf(pg')[Cell(c)])
    <3>1. ExecsOf(pg')[Cell(c)] = c.value
      BY <1>0, <2>1, <2>2, <2>3, PutExecReads
    <3> QED BY <2>2, <2>4, <3>1 DEF SameStep
  <2>6. /\ ExecsOf(pg') = [ExecsOf(pg) EXCEPT ![Cell(c)] = ExecsOf(pg')[Cell(c)]]
        /\ ExecsOf(pg')[Cell(c)] # None /\ RunsOf(pg') = RunsOf(pg)
        /\ pg'.outputs = pg.outputs /\ pg'.state = pg.state
    BY <1>0, <2>1, <2>2, <2>3, PutExecReads
  <2>7. PostgresContract!PutStep(c.run, c.key)
    BY <2>1, <2>4, <2>5, <2>6 DEF PostgresContract!PutStep, PostgresContract!Puts, RunsOf, ExecsOf
  <2> QED BY <2>1, <2>7 DEF PostgresContract!Use
<1>5. CASE IsCall(c, "SaveStepOutput", StepIDs, Blobs)
  <2>1. c.value # None /\ c.key \in StepIDs /\ Cell(c) = <<c.run, c.key>> /\ Cell(c) \in RunCells
    BY <1>0, <1>5, Rows DEF IsCall, Cell, RunCells
  <2>2. pg.runs[c.run] # None /\ PutsOutput(pg, pg', Cell(c), c.value)
    BY <1>5, SaveOutputEffect
  <2>3. RunsOf(pg') = RunsOf(pg) /\ ExecsOf(pg') = ExecsOf(pg)
    BY <2>2 DEF PutsOutput, RunsOf, ExecsOf, GetRun
  <2>4. PostgresContract!SaveOutput(c.run, c.key)
    BY <1>0, <1>8, <2>1, <2>2, <2>3
    DEF Tables, PutsOutput, PostgresContract!SaveOutput, PostgresContract!Puts, RunsOf, ExecsOf
  <2> QED BY <2>1, <2>4 DEF PostgresContract!Use
<1>6. CASE IsCall(c, "SaveState", Keys, Blobs)
  <2>1. c.value # None /\ c.key \in Keys /\ Cell(c) = <<c.run, c.key>> /\ Cell(c) \in StateCells
    BY <1>0, <1>6, Rows DEF IsCall, Cell, StateCells
  <2>2. pg.runs[c.run] # None /\ PutsState(pg, pg', Cell(c), c.value)
    BY <1>6, SaveStateEffect
  <2>3. RunsOf(pg') = RunsOf(pg) /\ ExecsOf(pg') = ExecsOf(pg)
    BY <2>2 DEF PutsState, RunsOf, ExecsOf, GetRun
  <2>4. PostgresContract!SaveState(c.run, c.key)
    BY <1>0, <1>8, <2>1, <2>2, <2>3
    DEF Tables, PutsState, PostgresContract!SaveState, PostgresContract!Puts, RunsOf, ExecsOf
  <2> QED BY <2>1, <2>4 DEF PostgresContract!Use
<1>7. CASE IsCall(c, "DeleteState", Keys, {None})
  <2>1. c.key \in Keys /\ Cell(c) = <<c.run, c.key>> /\ PutsState(pg, pg', Cell(c), None)
    BY <1>7, DeleteStateEffect DEF IsCall, Cell
  <2>2. RunsOf(pg') = RunsOf(pg) /\ ExecsOf(pg') = ExecsOf(pg)
    BY <2>1 DEF PutsState, RunsOf, ExecsOf, GetRun
  <2>3. PostgresContract!DeleteState(c.run, c.key)
    BY <2>1, <2>2 DEF PutsState, PostgresContract!DeleteState, RunsOf, ExecsOf
  <2> QED BY <2>1, <2>3 DEF PostgresContract!Use
<1> QED
  BY CallKinds, <1>1, <1>2, <1>3, <1>4, <1>5, <1>6, <1>7

\* A call outside the contract touches its own run alone.
LEMMA PostgresMisuses ==
  ASSUME StoresInv, NEW c \in Calls, Step(c), misused' = misused \cup {c.run}
  PROVE PostgresContract!Misuse(c.run)
<1>1. pg \in Tables /\ pg' \in Tables /\ OnlyRun(pg, pg', c.run) /\ c.run \in RunIDs
  BY CallKinds, PostgresStep DEF Step, StoresInv, WellFormed, Change, IsCall
<1>2. PostgresContract!Others(ExecsOf(pg'), c.run) = PostgresContract!Others(ExecsOf(pg), c.run)
  BY <1>1, TablesMisuse DEF ExecsOf, PostgresContract!Others
<1>3. PostgresContract!Others(pg'.outputs, c.run) = PostgresContract!Others(pg.outputs, c.run)
  BY <1>1, TablesMisuse DEF Tables, PostgresContract!Others
<1>4. PostgresContract!Others(pg'.state, c.run) = PostgresContract!Others(pg.state, c.run)
  BY <1>1, TablesMisuse DEF Tables, PostgresContract!Others
<1>5. \A q \in RunIDs \ {c.run} : RunsOf(pg')[q] = RunsOf(pg)[q]
  BY <1>1, TablesMisuse
<1> QED BY <1>2, <1>3, <1>4, <1>5 DEF RunsOf, ExecsOf, PostgresContract!Misuse

(* For any number of runs, steps, keys and calls: in each store a proper    *)
(* call about a run that was never misused is one step of the contract or   *)
(* none, and every other call is a misuse of the run it names.              *)
THEOREM StoresImplementContract == Spec => ImplementsContract
<1>1. Init => MemoryContract!Init /\ LibSQLContract!Init /\ PostgresContract!Init
  BY MemoryStarts, LibSQLStarts, PostgresStarts
<1>2. StoresInv /\ [Next]_vars =>
        /\ [MemoryContract!Next]_MemoryContract!vars
        /\ [LibSQLContract!Next]_LibSQLContract!vars
        /\ [PostgresContract!Next]_PostgresContract!vars
  <2> SUFFICES ASSUME StoresInv, [Next]_vars
               PROVE /\ [MemoryContract!Next]_MemoryContract!vars
                     /\ [LibSQLContract!Next]_LibSQLContract!vars
                     /\ [PostgresContract!Next]_PostgresContract!vars
    OBVIOUS
  <2>1. CASE UNCHANGED vars
    BY <2>1
    DEF vars, GetRun, Data, MemoryContract!vars, MemoryContract!cells, LibSQLContract!vars,
        LibSQLContract!cells, PostgresContract!vars, PostgresContract!cells
  <2>2. ASSUME NEW c \in Calls, Step(c),
               misused' = IF Proper(c) THEN misused ELSE misused \cup {c.run}
        PROVE /\ [MemoryContract!Next]_MemoryContract!vars
              /\ [LibSQLContract!Next]_LibSQLContract!vars
              /\ [PostgresContract!Next]_PostgresContract!vars
    <3>1. c.run \in RunIDs
      BY CallKinds DEF IsCall
    <3>2. CASE Proper(c) /\ c.run \notin misused
      <4>1. ProperCall(c) /\ UNCHANGED misused
        BY <2>2, <3>2 DEF ProperCall
      <4> QED
        BY <3>1, <3>2, <4>1, MemoryUses, LibSQLUses, PostgresUses
        DEF MemoryContract!Next, LibSQLContract!Next, PostgresContract!Next
    <3>3. CASE ~(Proper(c) /\ c.run \notin misused)
      <4>1. misused' = misused \cup {c.run}
        BY <2>2, <3>3
      <4> QED
        BY <2>2, <3>1, <4>1, MemoryMisuses, LibSQLMisuses, PostgresMisuses
        DEF MemoryContract!Next, LibSQLContract!Next, PostgresContract!Next
    <3> QED BY <3>2, <3>3
  <2> QED BY <2>1, <2>2, NextStep
<1> QED
  BY <1>1, <1>2, StoresInvariance, PTL
  DEF Spec, ImplementsContract, MemoryContract!Spec, LibSQLContract!Spec, PostgresContract!Spec
===============================================================================
