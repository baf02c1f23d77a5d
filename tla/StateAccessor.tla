----------------------------- MODULE StateAccessor -----------------------------
(***************************************************************************)
(* The data steps share while a parallel level runs (context.go): the one   *)
(* stateAccessor of the run, with its cache and its context, and the        *)
(* stepAccessor each step has for the outputs of others.  executeStep       *)
(* (engine/executor.go) gives both the context of the attempt it starts,    *)
(* and cancels that context when the handler returns.                       *)
(*                                                                          *)
(* A call of a handler is up to three steps: the cache and the context, read *)
(* or changed under the mutex; the store; the cache again.  Every Set       *)
(* writes a value of its own, the step and the number of its call.          *)
(* MaxCalls, MaxAttempts and MaxFaults bound the calls and the attempts of  *)
(* a step, and the faults of the store.                                     *)
(***************************************************************************)
EXTENDS Integers, FiniteSets

CONSTANTS Steps, Keys, NoValue, MaxCalls, MaxAttempts, MaxFaults,
          StoreHonoursCtx  \* TRUE for LibSQL and Postgres

ASSUME AccessorAssumption ==
  /\ {MaxCalls, MaxAttempts, MaxFaults} \subseteq Nat
  /\ StoreHonoursCtx \in BOOLEAN /\ NoValue \notin Steps

VARIABLES
  cache,    \* the accessor's cache
  ctx,      \* the accessor's context
  outCtx,   \* the context of each step's stepAccessor
  outCache, \* and its outputCache: the steps whose output it holds
  db,       \* the stored state
  outputs,  \* steps with a stored output
  step,     \* per step: attempt, whether its handler runs, whether it expired
  call,     \* per step: the state call its handler makes, or made last
  calls,    \* per step: the calls made
  faults,
  clean,    \* history: the last change of the key succeeded alone
  acked     \* history: what that change left

history == <<clean, acked>>
vars == <<cache, ctx, outCtx, outCache, db, outputs, step, call, calls, faults, history>>

Values == Steps \X (1 .. MaxCalls)
Maybe == Values \cup {NoValue}
Empty == [k \in Keys |-> NoValue]
\* An attempt's context is its step and its number; 0 is context.Background.
Contexts == Steps \X (0 .. MaxAttempts)
Live(c) == c[2] = 0 \/ LET s == step[c[1]] IN s.running /\ ~s.expired /\ s.attempt = c[2]
Current(s) == <<s, step[s].attempt>>

NoCall == [pc |-> "none", op |-> "Get", keys |-> {}, ctx |-> NoValue,
           value |-> Empty, alone |-> TRUE, result |-> "ok"]

Init ==
  /\ cache = Empty /\ db = Empty
  /\ \E s \in Steps : ctx = <<s, 0>>
  /\ outCtx = [s \in Steps |-> <<s, 0>>] /\ outCache = [s \in Steps |-> {}]
  /\ outputs = {}
  /\ step = [s \in Steps |-> [attempt |-> 0, running |-> FALSE, expired |-> FALSE]]
  /\ call = [s \in Steps |-> NoCall] /\ calls = [s \in Steps |-> 0]
  /\ faults = MaxFaults
  /\ clean = [k \in Keys |-> TRUE] /\ acked = Empty

-----------------------------------------------------------------------------
(* executeStep.                                                             *)

\* Mutant: the context is set for the first attempt only.
SetStepAccessorCtxOnce(s, c) == outCtx' = IF c[2] = 1 THEN [outCtx EXCEPT ![s] = c] ELSE outCtx
SetStepAccessorCtx(s, c) == outCtx' = [outCtx EXCEPT ![s] = c]
SetStateAccessorCtx(c) == ctx' = c

StartAttempt(s) ==
  LET n == step[s].attempt + 1 IN
  /\ ~step[s].running /\ n <= MaxAttempts /\ s \notin outputs
  /\ step' = [step EXCEPT ![s] = [attempt |-> n, running |-> TRUE, expired |-> FALSE]]
  /\ SetStepAccessorCtx(s, <<s, n>>) /\ SetStateAccessorCtx(<<s, n>>)
  /\ UNCHANGED <<cache, outCache, db, outputs, call, calls, faults, history>>

InCall(s) == call[s].pc \in {"store", "fill"}

\* The handler returns; cancel() ends its context.  An output is saved,
\* best-effort, and an error leads to the next attempt.
EndAttempt(s) ==
  /\ step[s].running /\ ~InCall(s)
  /\ step' = [step EXCEPT ![s].running = FALSE]
  /\ call' = [call EXCEPT ![s] = NoCall]
  /\ outputs' \in {outputs, outputs \cup {s}}
  /\ UNCHANGED <<cache, ctx, outCtx, outCache, db, calls, faults, history>>

\* The attempt's timeout, or the cancellation of the run.
Expire(s) ==
  /\ step[s].running /\ ~step[s].expired
  /\ step' = [step EXCEPT ![s].expired = TRUE]
  /\ UNCHANGED <<cache, ctx, outCtx, outCache, db, outputs, call, calls, faults, history>>

-----------------------------------------------------------------------------
(* The first part of a state call, under the mutex.                         *)

Mutation(op) == op \in {"Set", "Delete"}
\* Calls of others that race with a call op on the keys ks.
Rivals(s, op, ks) ==
  {t \in Steps \ {s} : /\ InCall(t) /\ call[t].keys \cap ks # {}
                       /\ Mutation(op) \/ Mutation(call[t].op)}

MayCall(s) == step[s].running /\ ~InCall(s) /\ calls[s] < MaxCalls

\* s begins op on ks and goes to pc with what it has.
Begin(s, op, ks, pc, value, result) ==
  LET rivals == Rivals(s, op, ks) IN
  /\ MayCall(s)
  /\ calls' = [calls EXCEPT ![s] = @ + 1]
  /\ call' = [t \in Steps |->
       CASE t = s -> [pc |-> pc, op |-> op, keys |-> ks, ctx |-> ctx, value |-> value,
                      alone |-> rivals = {}, result |-> result]
         [] t \in rivals -> [call[t] EXCEPT !.alone = FALSE]
         [] OTHER -> call[t]]
  /\ clean' = [k \in Keys |->
       clean[k] /\ ~(k \in ks /\ \E t \in rivals : k \in call[t].keys)]
  /\ UNCHANGED <<ctx, outCtx, outCache, db, outputs, step, faults, acked>>

\* Mutant: what is cached stays.
CachedOnce(k, v) == IF cache[k] = NoValue THEN [cache EXCEPT ![k] = v] ELSE cache
Cached(k, v) == [cache EXCEPT ![k] = v]

Only(k, v) == [Empty EXCEPT ![k] = v]

Set(s, k) ==
  LET v == <<s, calls[s] + 1>> IN
  /\ Begin(s, "Set", {k}, "store", Only(k, v), "ok")
  /\ cache' = Cached(k, v)

Delete(s, k) ==
  /\ Begin(s, "Delete", {k}, "store", Empty, "ok")
  /\ cache' = Cached(k, NoValue)

\* Get and Has answer from the cache if they can.
Look(s, op, k) ==
  /\ Begin(s, op, {k}, IF cache[k] = NoValue THEN "store" ELSE "done", Only(k, cache[k]), "ok")
  /\ UNCHANGED cache

GetAll(s) == Begin(s, "GetAll", Keys, "store", Empty, "ok") /\ UNCHANGED cache

-----------------------------------------------------------------------------
(* The store, and the cache once more.                                      *)

\* How a store call with the context c may end.
Answer(c, result) ==
  \/ result = "ok" /\ ~(StoreHonoursCtx /\ ~Live(c)) /\ UNCHANGED faults
  \/ result = "refused" /\ StoreHonoursCtx /\ ~Live(c) /\ UNCHANGED faults
  \/ result = "fault" /\ faults > 0 /\ faults' = faults - 1
Results == {"ok", "refused", "fault"}

\* Mutant: Delete leaves the row.
PersistSets(c) ==
  db' = [k \in Keys |-> IF c.op = "Set" /\ k \in c.keys THEN c.value[k] ELSE db[k]]
Persist(c) ==
  db' = [k \in Keys |-> IF Mutation(c.op) /\ k \in c.keys THEN c.value[k] ELSE db[k]]

\* SaveState or DeleteState.
StoreMutation(s) ==
  LET mine == call[s] IN
  /\ mine.pc = "store" /\ Mutation(mine.op)
  /\ \E r \in Results :
       /\ Answer(mine.ctx, r)
       /\ IF r = "ok" THEN Persist(mine) ELSE UNCHANGED db
       /\ call' = [call EXCEPT ![s] = [NoCall EXCEPT !.pc = "done", !.op = mine.op, !.result = r]]
       /\ clean' = [k \in Keys |-> IF k \in mine.keys THEN r = "ok" /\ mine.alone ELSE clean[k]]
       /\ acked' = [k \in Keys |-> IF k \in mine.keys /\ r = "ok" /\ mine.alone
                                   THEN mine.value[k] ELSE acked[k]]
  /\ UNCHANGED <<cache, ctx, outCtx, outCache, outputs, step, calls>>

\* LoadState or GetAllState.  What was found goes to the cache, except for
\* Has.
StoreRead(s) ==
  LET mine == call[s]
      found == [k \in Keys |-> IF k \in mine.keys THEN db[k] ELSE NoValue]
  IN
  /\ mine.pc = "store" /\ ~Mutation(mine.op)
  /\ \E r \in Results :
       /\ Answer(mine.ctx, r)
       /\ call' = [call EXCEPT
            ![s].pc = IF r = "ok" /\ found # Empty /\ mine.op # "Has" THEN "fill" ELSE "done",
            ![s].result = r,
            ![s].value = IF r = "ok" THEN found ELSE Empty]
  /\ UNCHANGED <<cache, ctx, outCtx, outCache, db, outputs, step, calls, history>>

Filled(c) == [k \in Keys |-> IF c.value[k] # NoValue THEN c.value[k] ELSE cache[k]]
Fill(s) ==
  /\ call[s].pc = "fill"
  /\ cache' = Filled(call[s])
  /\ call' = [call EXCEPT ![s].pc = "done"]
  /\ UNCHANGED <<ctx, outCtx, outCache, db, outputs, step, calls, faults, history>>

-----------------------------------------------------------------------------
(* The stepAccessor: GetOutput and HasOutput of another step.  Outputs are  *)
(* written once, so a call is one step.                                     *)

\* Mutant: that there is no output is remembered, too.
RememberAny(s, t, op, r) ==
  outCache' = IF op = "GetOutput" /\ r = "ok" THEN [outCache EXCEPT ![s] = @ \cup {t}] ELSE outCache
Remember(s, t, op, r) ==
  outCache' = IF op = "GetOutput" /\ r = "ok" /\ t \in outputs
              THEN [outCache EXCEPT ![s] = @ \cup {t}] ELSE outCache

ReadOutput(s, t, op) ==
  /\ MayCall(s) /\ t # s
  /\ calls' = [calls EXCEPT ![s] = @ + 1]
  /\ \E r \in Results :
       /\ IF t \in outCache[s] THEN r = "ok" /\ UNCHANGED faults ELSE Answer(outCtx[s], r)
       /\ Remember(s, t, op, r)
       /\ call' = [call EXCEPT ![s] = [NoCall EXCEPT !.pc = "done", !.op = op,
                                                     !.ctx = outCtx[s], !.result = r]]
  /\ UNCHANGED <<cache, ctx, outCtx, db, outputs, step, history>>

Handler(s) ==
  \/ \E k \in Keys : Set(s, k) \/ Delete(s, k) \/ Look(s, "Get", k) \/ Look(s, "Has", k)
  \/ GetAll(s)
  \/ StoreMutation(s) \/ StoreRead(s) \/ Fill(s)
  \/ \E t \in Steps : ReadOutput(s, t, "GetOutput") \/ ReadOutput(s, t, "HasOutput")

Next == \E s \in Steps : StartAttempt(s) \/ EndAttempt(s) \/ Expire(s) \/ Handler(s)

Spec == Init /\ [][Next]_vars

-----------------------------------------------------------------------------
(* Every variable stays in its range, and a call is made by a running       *)
(* handler.                                                                 *)
AccessorTypeOK ==
  /\ cache \in [Keys -> Maybe] /\ db \in [Keys -> Maybe] /\ acked \in [Keys -> Maybe]
  /\ ctx \in Contexts /\ outCtx \in [Steps -> Contexts]
  /\ outCache \in [Steps -> SUBSET outputs] /\ outputs \subseteq Steps
  /\ step \in [Steps -> [attempt : 0 .. MaxAttempts, running : BOOLEAN, expired : BOOLEAN]]
  /\ \A s \in Steps :
       /\ call[s].pc \in {"none", "store", "fill", "done"}
       /\ call[s].value \in [Keys -> Maybe]
       /\ call[s].pc # "none" => step[s].running
  /\ calls \in [Steps -> 0 .. MaxCalls] /\ faults \in 0 .. MaxFaults
  /\ clean \in [Keys -> BOOLEAN]

Changing(k) == \E s \in Steps : InCall(s) /\ Mutation(call[s].op) /\ k \in call[s].keys

(* The cache is only wrong about a key after a change that the store        *)
(* refused, or that overlapped another call on that key; the next change    *)
(* that succeeds alone mends it.  Otherwise the cache and the store hold    *)
(* what the last change left (context.go:209-309).                          *)
CacheCurrent ==
  \A k \in Keys : clean[k] /\ ~Changing(k) =>
    cache[k] \in {NoValue, db[k]} /\ db[k] = acked[k]

Finishes(s) == call'[s].pc = "done" /\ call'[s] # call[s] /\ step'[s] = step[s]

(* A read that no change of its keys overlaps answers what the last change  *)
(* left, whether from the cache or from the store, and even after a sibling *)
(* or an earlier attempt wrote it; without that only after a change that    *)
(* failed or was overlapped (context.go:230).                               *)
ReadsLatest ==
  [][\A s \in Steps : Finishes(s) /\ call'[s].alone /\ call'[s].result = "ok" =>
       \A k \in call'[s].keys : clean'[k] => call'[s].value[k] = acked'[k]]_vars

(* What a step asks of other steps' outputs is refused only once its own    *)
(* attempt is over time or cancelled, in every attempt (executor.go:122).   *)
OutputsFailForOwnReasons ==
  \A s \in Steps : call[s].op \in {"GetOutput", "HasOutput"} /\ call[s].result = "refused" =>
    ~Live(Current(s))

(* A state call of a step is refused only once its own attempt is over time *)
(* or cancelled, whatever its siblings do (context.go:318).                 *)
StateFailsForOwnReasons ==
  \A s \in Steps : call[s].result = "refused" => ~Live(Current(s))
===============================================================================
