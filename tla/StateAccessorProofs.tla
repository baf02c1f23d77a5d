--------------------------- MODULE StateAccessorProofs ---------------------------
(***************************************************************************)
(* Proofs about StateAccessor, for every number of steps, keys, calls,      *)
(* attempts and faults, on stores of both kinds.                            *)
(*                                                                          *)
(* The cache is written before the store (Set, Delete) or after it (Fill).  *)
(* It is right because of what holds while calls are under way: a change    *)
(* that is alone finds in the cache what it put there, a reader that is     *)
(* about to fill the cache still holds what is stored, and two calls that   *)
(* overlap, one of them a change, are marked, and so is their key.          *)
(***************************************************************************)
EXTENDS StateAccessor, TLAPS

Ops == {"Set", "Delete", "Get", "Has", "GetAll", "GetOutput", "HasOutput"}

CallRecord ==
  [pc : {"none", "store", "fill", "done"}, op : Ops, keys : SUBSET Keys,
   ctx : Contexts \cup {NoValue}, value : [Keys -> Maybe], alone : BOOLEAN,
   result : Results]

Typed == AccessorTypeOK /\ call \in [Steps -> CallRecord]

Overlap(s, t, k) ==
  InCall(s) /\ InCall(t) /\ k \in call[s].keys \cap call[t].keys /\ Mutation(call[s].op)

\* Two calls that overlap are marked, and so is the key.
OverlapMarked ==
  \A s, t \in Steps, k \in Keys : s # t /\ Overlap(s, t, k) =>
    ~call[s].alone /\ ~call[t].alone /\ ~clean[k]

\* What a reader will fill the cache with is what is stored.
FillsCurrent ==
  \A s \in Steps : call[s].pc = "fill" =>
    /\ ~Mutation(call[s].op)
    /\ \A k \in Keys : IF k \in call[s].keys THEN clean[k] => call[s].value[k] = db[k]
                       ELSE call[s].value[k] = NoValue

\* A change that is alone finds in the cache what it put there.
ChangeCached ==
  \A s \in Steps, k \in Keys :
    InCall(s) /\ Mutation(call[s].op) /\ k \in call[s].keys /\ call[s].alone =>
      cache[k] = call[s].value[k]

\* A running handler has its own context for the outputs of others, which
\* are read in one step.
OutputContexts ==
  \A s \in Steps :
    /\ step[s].running => outCtx[s] = Current(s)
    /\ call[s].pc # "done" => call[s].op \notin {"GetOutput", "HasOutput"}

Coherent == OverlapMarked /\ FillsCurrent /\ ChangeCached /\ CacheCurrent
IInv == Typed /\ Coherent /\ OutputContexts /\ OutputsFailForOwnReasons

-----------------------------------------------------------------------------
\* No call was made and nothing is stored yet.
LEMMA InitIInv == Init => IInv
<1> SUFFICES ASSUME Init PROVE IInv
  OBVIOUS
<1> USE AccessorAssumption
<1>1. Empty \in [Keys -> Maybe] /\ NoCall \in CallRecord
  BY DEF Empty, Maybe, NoCall, CallRecord, Ops, Results
<1>2. Typed
  <2>1. /\ cache \in [Keys -> Maybe] /\ db \in [Keys -> Maybe] /\ acked \in [Keys -> Maybe]
        /\ clean \in [Keys -> BOOLEAN] /\ faults \in 0 .. MaxFaults
        /\ calls \in [Steps -> 0 .. MaxCalls]
    BY <1>1 DEF Init
  <2>2. ctx \in Contexts /\ outCtx \in [Steps -> Contexts]
    BY DEF Init, Contexts
  <2>3. outCache \in [Steps -> SUBSET outputs] /\ outputs \subseteq Steps
    BY DEF Init
  <2>4. step \in [Steps -> [attempt : 0 .. MaxAttempts, running : BOOLEAN, expired : BOOLEAN]]
    BY DEF Init
  <2>5. call \in [Steps -> CallRecord] /\ \A s \in Steps : call[s] = NoCall
    BY <1>1 DEF Init
  <2>6. QED
    BY <1>1, <2>1, <2>2, <2>3, <2>4, <2>5 DEF Typed, AccessorTypeOK, NoCall
<1>3. Coherent
  BY DEF Init, Coherent, OverlapMarked, Overlap, FillsCurrent, ChangeCached, CacheCurrent, InCall,
         NoCall, Empty
<1>4. OutputContexts /\ OutputsFailForOwnReasons
  BY DEF Init, OutputContexts, OutputsFailForOwnReasons, NoCall, InCall
<1>5. QED
  BY <1>2, <1>3, <1>4 DEF IInv

-----------------------------------------------------------------------------
(* The beginning of a state call.                                           *)

StateOps == {"Set", "Delete", "Get", "Has", "GetAll"}

\* What it changes of the calls.
LEMMA BeginCalls ==
  ASSUME Typed, NEW s \in Steps, NEW op \in StateOps, NEW ks \in SUBSET Keys,
         NEW pc \in {"store", "done"}, NEW value \in [Keys -> Maybe],
         Begin(s, op, ks, pc, value, "ok")
  PROVE  /\ call' \in [Steps -> CallRecord]
         /\ call'[s].pc = pc /\ call'[s].op = op /\ call'[s].keys = ks
         /\ call'[s].value = value /\ call'[s].result = "ok"
         /\ call'[s].alone <=> Rivals(s, op, ks) = {}
         /\ \A t \in Steps \ {s} :
              /\ call'[t].pc = call[t].pc /\ call'[t].op = call[t].op
              /\ call'[t].keys = call[t].keys /\ call'[t].value = call[t].value
              /\ call'[t].result = call[t].result
              /\ call'[t].alone => call'[t] = call[t] /\ t \notin Rivals(s, op, ks)
         /\ \A k \in Keys : clean'[k] <=>
              clean[k] /\ ~(k \in ks /\ \E t \in Rivals(s, op, ks) : k \in call[t].keys)
         /\ clean' \in [Keys -> BOOLEAN]
         /\ calls' \in [Steps -> 0 .. MaxCalls]
<1> DEFINE R == Rivals(s, op, ks)
           new == [pc |-> pc, op |-> op, keys |-> ks, ctx |-> ctx, value |-> value,
                   alone |-> R = {}, result |-> "ok"]
           marked(t) == [call[t] EXCEPT !.alone = FALSE]
<1>1. call \in [Steps -> CallRecord] /\ ctx \in Contexts /\ clean \in [Keys -> BOOLEAN]
      /\ calls \in [Steps -> 0 .. MaxCalls]
  BY DEF Typed, AccessorTypeOK
<1>2. R \subseteq Steps \ {s}
  BY DEF Rivals
<1>3. (R = {}) \in BOOLEAN
  OBVIOUS
<1>4. new \in CallRecord
  BY <1>1, <1>3 DEF CallRecord, StateOps, Ops, Results
<1>5. \A t \in Steps : marked(t) \in CallRecord
  BY <1>1 DEF CallRecord
<1>6. call' = [t \in Steps |-> CASE t = s -> new [] t \in R -> marked(t) [] OTHER -> call[t]]
  BY DEF Begin
<1> HIDE DEF R, new, marked
<1>7. call'[s] = new
  BY <1>2, <1>6
<1>8. \A t \in Steps \ {s} : call'[t] = IF t \in R THEN marked(t) ELSE call[t]
  BY <1>2, <1>6
<1>9. call' \in [Steps -> CallRecord]
  BY <1>1, <1>2, <1>4, <1>5, <1>6
<1>10. /\ new.pc = pc /\ new.op = op /\ new.keys = ks /\ new.value = value
       /\ new.result = "ok"
  BY DEF new
<1>11. new.alone <=> R = {}
  BY Zenon DEF new
<1>12. \A t \in Steps :
         /\ marked(t).pc = call[t].pc /\ marked(t).op = call[t].op
         /\ marked(t).keys = call[t].keys /\ marked(t).value = call[t].value
         /\ marked(t).result = call[t].result /\ ~marked(t).alone
  BY <1>1 DEF marked, CallRecord
<1>13. \A t \in Steps \ {s} :
         /\ call'[t].pc = call[t].pc /\ call'[t].op = call[t].op
         /\ call'[t].keys = call[t].keys /\ call'[t].value = call[t].value
         /\ call'[t].result = call[t].result
         /\ call'[t].alone => call'[t] = call[t] /\ t \notin R
  BY <1>2, <1>8, <1>12
<1>14. /\ \A k \in Keys : clean'[k] <=>
            clean[k] /\ ~(k \in ks /\ \E t \in R : k \in call[t].keys)
       /\ clean' \in [Keys -> BOOLEAN]
  BY <1>1 DEF Begin, R
<1>15. calls' \in [Steps -> 0 .. MaxCalls]
  BY <1>1, AccessorAssumption DEF Begin, MayCall
<1>16. QED
  BY <1>7, <1>9, <1>10, <1>11, <1>13, <1>14, <1>15 DEF R

\* It keeps the invariant, if it puts into the cache what it is to write.
LEMMA BeginStep ==
  ASSUME IInv, NEW s \in Steps, NEW op \in StateOps, NEW ks \in SUBSET Keys,
         NEW pc \in {"store", "done"}, NEW value \in [Keys -> Maybe],
         Begin(s, op, ks, pc, value, "ok"),
         cache' \in [Keys -> Maybe],
         Mutation(op) => pc = "store" /\ \A k \in ks : cache'[k] = value[k],
         \A k \in Keys : k \notin ks \/ ~Mutation(op) => cache'[k] = cache[k]
  PROVE  IInv'
<1> DEFINE R == Rivals(s, op, ks)
<1>1. Typed /\ Coherent /\ OutputContexts /\ OutputsFailForOwnReasons
  BY DEF IInv
<1>2. UNCHANGED <<ctx, outCtx, outCache, db, outputs, step, faults, acked>>
  BY DEF Begin
<1>3. step[s].running /\ ~InCall(s)
  BY DEF Begin, MayCall
<1>4. /\ call' \in [Steps -> CallRecord]
      /\ call'[s].pc = pc /\ call'[s].op = op /\ call'[s].keys = ks
      /\ call'[s].value = value /\ call'[s].result = "ok"
      /\ call'[s].alone <=> R = {}
      /\ \A t \in Steps \ {s} :
           /\ call'[t].pc = call[t].pc /\ call'[t].op = call[t].op
           /\ call'[t].keys = call[t].keys /\ call'[t].value = call[t].value
           /\ call'[t].result = call[t].result
           /\ call'[t].alone => call'[t] = call[t] /\ t \notin R
      /\ \A k \in Keys : clean'[k] <=>
           clean[k] /\ ~(k \in ks /\ \E t \in R : k \in call[t].keys)
      /\ clean' \in [Keys -> BOOLEAN]
      /\ calls' \in [Steps -> 0 .. MaxCalls]
  BY <1>1, BeginCalls, Zenon
<1> HIDE DEF R
<1>5. \A t \in Steps \ {s} :
        /\ call'[t].pc = call[t].pc /\ call'[t].op = call[t].op /\ call'[t].keys = call[t].keys
        /\ call'[t].value = call[t].value /\ call'[t].result = call[t].result
        /\ call'[t].alone => call[t].alone /\ t \notin R
  BY <1>4
<1>6. /\ call'[s].pc = pc /\ call'[s].op = op /\ call'[s].keys = ks /\ call'[s].value = value
      /\ call'[s].result = "ok" /\ (call'[s].alone <=> R = {})
  BY <1>4
<1>7. \A k \in Keys : clean'[k] => clean[k]
  BY <1>4
<1>8. Typed'
  <2>1. outCache' \in [Steps -> SUBSET outputs'] /\ outputs' \subseteq Steps
    BY <1>1, <1>2 DEF Typed, AccessorTypeOK
  <2>2. \A t \in Steps : /\ call'[t].pc \in {"none", "store", "fill", "done"}
                         /\ call'[t].value \in [Keys -> Maybe]
                         /\ call'[t].pc # "none" => step'[t].running
    BY <1>1, <1>2, <1>3, <1>5, <1>6 DEF Typed, AccessorTypeOK
  <2>3. QED
    BY <1>1, <1>2, <1>4, <2>1, <2>2 DEF Typed, AccessorTypeOK
\* Whoever overlaps the new call is its rival.
<1>9. \A t \in Steps \ {s}, k \in Keys :
        InCall(t) /\ k \in ks /\ k \in call[t].keys /\ (Mutation(op) \/ Mutation(call[t].op)) =>
          t \in R /\ ~clean'[k]
  BY <1>4 DEF Rivals, R
<1>10. OverlapMarked'
  <2> SUFFICES ASSUME NEW t \in Steps, NEW u \in Steps, NEW k \in Keys, t # u, Overlap(t, u, k)'
               PROVE  ~call'[t].alone /\ ~call'[u].alone /\ ~clean'[k]
    BY DEF OverlapMarked
  <2>1. CASE t = s
    BY <2>1, <1>5, <1>6, <1>9 DEF Overlap, InCall
  <2>2. CASE u = s
    BY <2>2, <1>5, <1>6, <1>9 DEF Overlap, InCall
  <2>3. CASE t # s /\ u # s
    BY <2>3, <1>1, <1>5, <1>7 DEF Overlap, InCall, OverlapMarked, Coherent
  <2>4. QED
    BY <2>1, <2>2, <2>3
<1>11. FillsCurrent'
  BY <1>1, <1>2, <1>5, <1>6, <1>7 DEF FillsCurrent, Coherent
<1>12. ChangeCached'
  <2> SUFFICES ASSUME NEW t \in Steps, NEW k \in Keys, InCall(t)', Mutation(call'[t].op),
                      k \in call'[t].keys, call'[t].alone
               PROVE  cache'[k] = call'[t].value[k]
    BY DEF ChangeCached
  <2>1. CASE t = s
    BY <2>1, <1>6
  <2>2. CASE t # s
    <3>1. k \notin ks
      BY <2>2, <1>5, <1>9 DEF InCall
    <3>2. QED
      BY <2>2, <3>1, <1>1, <1>5 DEF ChangeCached, InCall, Coherent
  <2>3. QED
    BY <2>1, <2>2
<1>13. CacheCurrent'
  <2> SUFFICES ASSUME NEW k \in Keys, clean'[k], ~Changing(k)'
               PROVE  cache'[k] \in {NoValue, db'[k]} /\ db'[k] = acked'[k]
    BY DEF CacheCurrent
  <2>1. ~(Mutation(op) /\ k \in ks)
    BY <1>6 DEF Changing, InCall
  <2>2. ~Changing(k)
    BY <1>3, <1>5 DEF Changing, InCall
  <2>3. QED
    BY <2>1, <2>2, <1>1, <1>2, <1>7 DEF CacheCurrent, Coherent
<1>14. OutputContexts'
  BY <1>1, <1>2, <1>5, <1>6 DEF OutputContexts, Current, InCall, StateOps
<1>15. OutputsFailForOwnReasons'
  BY <1>1, <1>2, <1>5, <1>6 DEF OutputsFailForOwnReasons, Live, Current
<1>16. QED
  BY <1>8, <1>10, <1>11, <1>12, <1>13, <1>14, <1>15 DEF IInv, Coherent

\* Set, Delete, Get, Has and GetAll.
LEMMA StateCallStep ==
  ASSUME IInv, NEW s \in Steps,
         (\E k \in Keys : Set(s, k) \/ Delete(s, k) \/ Look(s, "Get", k) \/ Look(s, "Has", k))
           \/ GetAll(s)
  PROVE  IInv'
<1>1. cache \in [Keys -> Maybe] /\ calls \in [Steps -> 0 .. MaxCalls] /\ MaxCalls \in Nat
  BY AccessorAssumption DEF IInv, Typed, AccessorTypeOK
<1>2. Empty \in [Keys -> Maybe]
  BY DEF Empty, Maybe
<1>3. \A k \in Keys, v \in Maybe : Only(k, v) \in [Keys -> Maybe] /\ Only(k, v)[k] = v
  BY <1>2 DEF Only
<1>4. ASSUME NEW k \in Keys, Set(s, k)
      PROVE  IInv'
  <2> DEFINE v == <<s, calls[s] + 1>>
  <2>1. v \in Maybe
    BY <1>1, <1>4 DEF Set, Begin, MayCall, Maybe, Values
  <2>2. cache' = [cache EXCEPT ![k] = v] /\ Begin(s, "Set", {k}, "store", Only(k, v), "ok")
    BY <1>4 DEF Set, Cached
  <2> HIDE DEF v
  <2>3. /\ cache' \in [Keys -> Maybe] /\ cache'[k] = Only(k, v)[k]
        /\ \A j \in Keys : j # k => cache'[j] = cache[j]
    BY <1>1, <1>3, <2>1, <2>2
  <2>4. Only(k, v) \in [Keys -> Maybe] /\ "Set" \in StateOps
    BY <1>3, <2>1 DEF StateOps
  <2>5. QED
    BY <2>2, <2>3, <2>4, BeginStep DEF Mutation
<1>5. ASSUME NEW k \in Keys, Delete(s, k)
      PROVE  IInv'
  <2>1. cache' = [cache EXCEPT ![k] = NoValue] /\ Begin(s, "Delete", {k}, "store", Empty, "ok")
    BY <1>5 DEF Delete, Cached
  <2>2. /\ cache' \in [Keys -> Maybe] /\ cache'[k] = Empty[k]
        /\ \A j \in Keys : j # k => cache'[j] = cache[j]
    BY <1>1, <2>1 DEF Empty, Maybe
  <2>3. QED
    BY <1>2, <2>1, <2>2, BeginStep DEF Mutation, StateOps
<1>6. ASSUME NEW k \in Keys, NEW op \in {"Get", "Has"}, Look(s, op, k)
      PROVE  IInv'
  <2>1. Only(k, cache[k]) \in [Keys -> Maybe]
    BY <1>1, <1>3
  <2>2. PICK pc \in {"store", "done"} : Begin(s, op, {k}, pc, Only(k, cache[k]), "ok")
    BY <1>6 DEF Look
  <2>3. cache' = cache /\ ~Mutation(op) /\ op \in StateOps
    BY <1>6 DEF Look, Mutation, StateOps
  <2>4. QED
    BY <1>1, <2>1, <2>2, <2>3, BeginStep
<1>7. CASE GetAll(s)
  BY <1>1, <1>2, <1>7, BeginStep DEF GetAll, Mutation, StateOps
<1>8. QED
  BY <1>4, <1>5, <1>6, <1>7

-----------------------------------------------------------------------------
(* The store, and the cache once more.                                      *)

\* When a change ends, it was alone or its key is marked.
LEMMA StoreMutationStep ==
  ASSUME IInv, NEW s \in Steps, StoreMutation(s)
  PROVE  IInv'
<1>1. /\ Typed /\ OverlapMarked /\ FillsCurrent /\ ChangeCached /\ CacheCurrent
      /\ OutputContexts /\ OutputsFailForOwnReasons
  BY DEF IInv, Coherent
<1>2. call \in [Steps -> CallRecord] /\ call[s] \in CallRecord
  BY <1>1 DEF Typed
<1>3. call[s].pc = "store" /\ Mutation(call[s].op) /\ InCall(s)
  BY DEF StoreMutation, InCall
<1>4. UNCHANGED <<cache, ctx, outCtx, outCache, outputs, step, calls>>
  BY DEF StoreMutation
<1>5. PICK r \in Results :
        /\ Answer(call[s].ctx, r)
        /\ IF r = "ok" THEN Persist(call[s]) ELSE UNCHANGED db
        /\ call' = [call EXCEPT ![s] =
             [NoCall EXCEPT !.pc = "done", !.op = call[s].op, !.result = r]]
        /\ clean' = [k \in Keys |->
             IF k \in call[s].keys THEN r = "ok" /\ call[s].alone ELSE clean[k]]
        /\ acked' = [k \in Keys |-> IF k \in call[s].keys /\ r = "ok" /\ call[s].alone
                                    THEN call[s].value[k] ELSE acked[k]]
  BY DEF StoreMutation
<1>6. /\ call' \in [Steps -> CallRecord] /\ call'[s].pc = "done" /\ call'[s].keys = {}
      /\ call'[s].op \in {"Set", "Delete"} /\ call'[s].value \in [Keys -> Maybe]
      /\ \A t \in Steps \ {s} : call'[t] = call[t]
  BY <1>2, <1>3, <1>5 DEF NoCall, CallRecord, Empty, Maybe, Mutation
<1>7. \A k \in Keys :
        /\ k \notin call[s].keys =>
             clean'[k] = clean[k] /\ acked'[k] = acked[k] /\ db'[k] = db[k]
        /\ k \in call[s].keys /\ clean'[k] =>
             /\ call[s].alone
             /\ acked'[k] = call[s].value[k] /\ db'[k] = call[s].value[k]
  BY <1>1, <1>3, <1>5 DEF Persist, Typed, AccessorTypeOK
<1>8. /\ db' \in [Keys -> Maybe] /\ acked' \in [Keys -> Maybe] /\ clean' \in [Keys -> BOOLEAN]
      /\ faults' \in 0 .. MaxFaults
  <2>1. call[s].value \in [Keys -> Maybe] /\ call[s].alone \in BOOLEAN
    BY <1>2 DEF CallRecord
  <2>2. db' \in [Keys -> Maybe] /\ acked' \in [Keys -> Maybe]
    BY <1>1, <1>5, <2>1 DEF Persist, Typed, AccessorTypeOK
  <2>3. clean' \in [Keys -> BOOLEAN]
    BY <1>1, <1>5, <2>1 DEF Typed, AccessorTypeOK
  <2>4. faults' \in 0 .. MaxFaults
    BY <1>1, <1>5, AccessorAssumption DEF Answer, Typed, AccessorTypeOK
  <2>5. QED
    BY <2>2, <2>3, <2>4
<1>9. Typed'
  BY <1>1, <1>3, <1>4, <1>6, <1>8 DEF Typed, AccessorTypeOK, InCall
\* Somebody who is in a call on a key of s was marked with it.
<1>10. \A t \in Steps \ {s}, k \in Keys :
         InCall(t) /\ k \in call[t].keys /\ k \in call[s].keys => ~clean'[k]
  BY <1>1, <1>3, <1>7 DEF OverlapMarked, Overlap
<1>11. OverlapMarked'
  <2> SUFFICES ASSUME NEW t \in Steps, NEW u \in Steps, NEW k \in Keys, t # u, Overlap(t, u, k)'
               PROVE  ~call'[t].alone /\ ~call'[u].alone /\ ~clean'[k]
    BY DEF OverlapMarked
  <2>1. t # s /\ u # s /\ Overlap(t, u, k)
    BY <1>6 DEF Overlap, InCall
  <2>2. ~call[t].alone /\ ~call[u].alone /\ ~clean[k]
    BY <1>1, <2>1 DEF OverlapMarked
  <2>3. ~clean'[k]
    BY <1>7, <1>10, <2>1, <2>2 DEF Overlap
  <2>4. QED
    BY <1>6, <2>1, <2>2, <2>3
<1>12. FillsCurrent'
  <2> SUFFICES ASSUME NEW t \in Steps, call'[t].pc = "fill"
               PROVE  /\ ~Mutation(call'[t].op)
                      /\ \A k \in Keys :
                           IF k \in call'[t].keys THEN clean'[k] => call'[t].value[k] = db'[k]
                           ELSE call'[t].value[k] = NoValue
    BY DEF FillsCurrent
  <2>1. t # s /\ call'[t] = call[t] /\ InCall(t)
    BY <1>6 DEF InCall
  <2>2. QED
    BY <1>1, <1>7, <1>10, <2>1 DEF FillsCurrent
<1>13. ChangeCached'
  BY <1>1, <1>4, <1>6 DEF ChangeCached, InCall
<1>14. CacheCurrent'
  <2> SUFFICES ASSUME NEW k \in Keys, clean'[k], ~Changing(k)'
               PROVE  cache'[k] \in {NoValue, db'[k]} /\ db'[k] = acked'[k]
    BY DEF CacheCurrent
  <2>1. CASE k \in call[s].keys
    BY <2>1, <1>1, <1>3, <1>4, <1>7 DEF ChangeCached
  <2>2. CASE k \notin call[s].keys
    <3>1. ~Changing(k)
      BY <2>2, <1>6 DEF Changing, InCall
    <3>2. QED
      BY <2>2, <3>1, <1>1, <1>4, <1>7 DEF CacheCurrent
  <2>3. QED
    BY <2>1, <2>2
<1>15. OutputContexts' /\ OutputsFailForOwnReasons'
  BY <1>1, <1>4, <1>6 DEF OutputContexts, OutputsFailForOwnReasons, Live, Current, InCall
<1>16. QED
  BY <1>9, <1>11, <1>12, <1>13, <1>14, <1>15 DEF IInv, Coherent

\* A read answers with what is stored, which it keeps until it fills the cache.
LEMMA StoreReadStep ==
  ASSUME IInv, NEW s \in Steps, StoreRead(s)
  PROVE  IInv'
<1>1. /\ Typed /\ OverlapMarked /\ FillsCurrent /\ ChangeCached /\ CacheCurrent
      /\ OutputContexts /\ OutputsFailForOwnReasons
  BY DEF IInv, Coherent
<1>2. call \in [Steps -> CallRecord] /\ call[s] \in CallRecord
  BY <1>1 DEF Typed
<1> DEFINE found == [k \in Keys |-> IF k \in call[s].keys THEN db[k] ELSE NoValue]
<1>3. /\ call[s].pc = "store" /\ ~Mutation(call[s].op) /\ InCall(s)
      /\ UNCHANGED <<cache, ctx, outCtx, outCache, db, outputs, step, calls, clean, acked>>
  BY DEF StoreRead, InCall, history
<1>4. PICK r \in Results, pc \in {"fill", "done"}, v \in {found, Empty} :
        /\ Answer(call[s].ctx, r)
        /\ call' = [call EXCEPT ![s].pc = pc, ![s].result = r, ![s].value = v]
        /\ pc = "fill" => v = found
  BY DEF StoreRead
<1>5. found \in [Keys -> Maybe] /\ v \in [Keys -> Maybe]
  BY <1>1 DEF Typed, AccessorTypeOK, Empty, Maybe
<1>6. /\ call' \in [Steps -> CallRecord]
      /\ call'[s].pc = pc /\ call'[s].value = v /\ call'[s].op = call[s].op
      /\ call'[s].keys = call[s].keys /\ call'[s].alone = call[s].alone
      /\ \A t \in Steps \ {s} : call'[t] = call[t]
  BY <1>2, <1>4, <1>5 DEF CallRecord
<1>7. faults' \in 0 .. MaxFaults
  BY <1>1, <1>4, AccessorAssumption DEF Answer, Typed, AccessorTypeOK
<1>8. Typed'
  BY <1>1, <1>3, <1>5, <1>6, <1>7 DEF Typed, AccessorTypeOK, InCall
<1>9. OverlapMarked' /\ ChangeCached' /\ CacheCurrent'
  <2>1. \A t \in Steps : /\ call'[t].op = call[t].op /\ call'[t].keys = call[t].keys
                         /\ call'[t].alone = call[t].alone /\ (InCall(t)' => InCall(t))
                         /\ (Mutation(call[t].op) => call'[t] = call[t])
    BY <1>3, <1>4, <1>6 DEF InCall
  <2>2. OverlapMarked'
    BY <1>1, <1>3, <2>1 DEF OverlapMarked, Overlap
  <2>3. ChangeCached'
    BY <1>1, <1>3, <2>1 DEF ChangeCached
  <2>4. \A k \in Keys : Changing(k) => Changing(k)'
    BY <2>1 DEF Changing, InCall
  <2>5. QED
    BY <1>1, <1>3, <2>2, <2>3, <2>4 DEF CacheCurrent
<1>10. FillsCurrent'
  BY <1>1, <1>3, <1>4, <1>6 DEF FillsCurrent
<1>11. OutputContexts'
  BY <1>1, <1>3, <1>6 DEF OutputContexts, Current, InCall
<1>12. OutputsFailForOwnReasons'
  <2>1. call[s].op \notin {"GetOutput", "HasOutput"}
    BY <1>1, <1>3 DEF OutputContexts
  <2>2. QED
    BY <1>1, <1>3, <1>6, <2>1 DEF OutputsFailForOwnReasons, Live, Current
<1>13. QED
  BY <1>8, <1>9, <1>10, <1>11, <1>12 DEF IInv, Coherent

\* A fill puts what is stored into the cache, or a key that is marked.
LEMMA FillStep ==
  ASSUME IInv, NEW s \in Steps, Fill(s)
  PROVE  IInv'
<1>1. /\ Typed /\ OverlapMarked /\ FillsCurrent /\ ChangeCached /\ CacheCurrent
      /\ OutputContexts /\ OutputsFailForOwnReasons
  BY DEF IInv, Coherent
<1>2. call \in [Steps -> CallRecord] /\ call[s] \in CallRecord
  BY <1>1 DEF Typed
<1>3. /\ call[s].pc = "fill" /\ InCall(s) /\ call' = [call EXCEPT ![s].pc = "done"]
      /\ UNCHANGED <<ctx, outCtx, outCache, db, outputs, step, calls, faults, clean, acked>>
  BY DEF Fill, InCall, history
<1>4. cache' = [k \in Keys |-> IF call[s].value[k] # NoValue THEN call[s].value[k] ELSE cache[k]]
  BY DEF Fill, Filled
<1>5. /\ call' \in [Steps -> CallRecord]
      /\ call'[s].pc = "done" /\ call'[s].op = call[s].op /\ call'[s].value = call[s].value
      /\ call'[s].keys = call[s].keys /\ call'[s].alone = call[s].alone
      /\ call'[s].result = call[s].result
      /\ \A t \in Steps \ {s} : call'[t] = call[t]
  BY <1>2, <1>3 DEF CallRecord
<1>6. Typed'
  <2>1. cache' \in [Keys -> Maybe]
    BY <1>1, <1>2, <1>4 DEF Typed, AccessorTypeOK, CallRecord
  <2>2. \A t \in Steps : /\ call'[t].pc \in {"none", "store", "fill", "done"}
                         /\ call'[t].value \in [Keys -> Maybe]
                         /\ call'[t].pc # "none" => step'[t].running
    BY <1>1, <1>3, <1>5 DEF Typed, AccessorTypeOK, InCall
  <2>3. QED
    BY <1>1, <1>3, <1>5, <2>1, <2>2 DEF Typed, AccessorTypeOK
<1>7. \A t \in Steps : /\ call'[t].op = call[t].op /\ call'[t].keys = call[t].keys
                       /\ call'[t].alone = call[t].alone /\ (InCall(t)' => InCall(t) /\ t # s)
                       /\ call'[t].value = call[t].value /\ call'[t].result = call[t].result
  BY <1>3, <1>5 DEF InCall
<1>8. OverlapMarked'
  BY <1>1, <1>3, <1>7 DEF OverlapMarked, Overlap
<1>9. FillsCurrent'
  BY <1>1, <1>3, <1>5 DEF FillsCurrent
\* A change of a key that s is about to fill is not alone.
<1>10. ChangeCached'
  <2> SUFFICES ASSUME NEW t \in Steps, NEW k \in Keys, InCall(t)', Mutation(call'[t].op),
                      k \in call'[t].keys, call'[t].alone
               PROVE  cache'[k] = call'[t].value[k]
    BY DEF ChangeCached
  <2>1. t # s /\ InCall(t) /\ Mutation(call[t].op) /\ k \in call[t].keys /\ call[t].alone
    BY <1>7
  <2>2. k \notin call[s].keys
    BY <1>1, <1>3, <2>1 DEF OverlapMarked, Overlap
  <2>3. cache'[k] = cache[k]
    BY <1>1, <1>3, <1>4, <2>2 DEF FillsCurrent
  <2>4. QED
    BY <1>1, <1>7, <2>1, <2>3 DEF ChangeCached
<1>11. CacheCurrent'
  <2> SUFFICES ASSUME NEW k \in Keys, clean'[k], ~Changing(k)'
               PROVE  cache'[k] \in {NoValue, db'[k]} /\ db'[k] = acked'[k]
    BY DEF CacheCurrent
  <2>1. ~Changing(k)
    BY <1>1, <1>3, <1>5 DEF Changing, InCall, FillsCurrent
  <2>2. cache[k] \in {NoValue, db[k]} /\ db[k] = acked[k]
    BY <1>1, <1>3, <2>1 DEF CacheCurrent
  <2>3. call[s].value[k] \in {NoValue, db[k]}
    BY <1>1, <1>3 DEF FillsCurrent
  <2>4. QED
    BY <1>3, <1>4, <2>2, <2>3
<1>12. OutputContexts' /\ OutputsFailForOwnReasons'
  BY <1>1, <1>3, <1>7 DEF OutputContexts, OutputsFailForOwnReasons, Live, Current
<1>13. QED
  BY <1>6, <1>8, <1>9, <1>10, <1>11, <1>12 DEF IInv, Coherent

-----------------------------------------------------------------------------
(* The other steps.                                                         *)

\* The steps that leave the state, its cache and the state calls alone.
LEMMA CoherentFrame ==
  ASSUME Coherent, UNCHANGED <<cache, db, clean, acked>>,
         \A t \in Steps : call'[t] = call[t] \/ (~InCall(t) /\ ~InCall(t)')
  PROVE  Coherent'
<1>1. \A t \in Steps : /\ InCall(t)' <=> InCall(t)
                       /\ InCall(t) => call'[t] = call[t]
  BY DEF InCall
<1>2. \A k \in Keys : Changing(k) => Changing(k)'
  BY <1>1 DEF Changing
<1>3. OverlapMarked'
  BY <1>1 DEF Coherent, OverlapMarked, Overlap
<1>4. FillsCurrent'
  BY <1>1 DEF Coherent, FillsCurrent, InCall
<1>5. ChangeCached'
  BY <1>1 DEF Coherent, ChangeCached
<1>6. CacheCurrent'
  BY <1>2 DEF Coherent, CacheCurrent
<1>7. QED
  BY <1>3, <1>4, <1>5, <1>6 DEF Coherent

\* A step asks with its own context, so that a refusal is its own.
LEMMA ReadOutputStep ==
  ASSUME IInv, NEW s \in Steps, NEW t \in Steps, NEW op \in {"GetOutput", "HasOutput"},
         ReadOutput(s, t, op)
  PROVE  IInv'
<1>1. Typed /\ Coherent /\ OutputContexts /\ OutputsFailForOwnReasons
  BY DEF IInv
<1>2. call \in [Steps -> CallRecord]
  BY <1>1 DEF Typed
<1>3. /\ step[s].running /\ ~InCall(s) /\ calls[s] < MaxCalls
      /\ calls' = [calls EXCEPT ![s] = @ + 1]
      /\ UNCHANGED <<cache, ctx, outCtx, db, outputs, step, clean, acked>>
  BY DEF ReadOutput, MayCall, history
<1>4. PICK r \in Results :
        /\ IF t \in outCache[s] THEN r = "ok" /\ UNCHANGED faults ELSE Answer(outCtx[s], r)
        /\ Remember(s, t, op, r)
        /\ call' = [call EXCEPT ![s] = [NoCall EXCEPT !.pc = "done", !.op = op,
                                                      !.ctx = outCtx[s], !.result = r]]
  BY DEF ReadOutput
<1>5. outCtx[s] \in Contexts
  BY <1>1 DEF Typed, AccessorTypeOK
<1>6. /\ call' \in [Steps -> CallRecord]
      /\ call'[s].pc = "done" /\ call'[s].op = op /\ call'[s].result = r
      /\ call'[s].value \in [Keys -> Maybe]
      /\ \A u \in Steps \ {s} : call'[u] = call[u]
  BY <1>2, <1>4, <1>5 DEF NoCall, CallRecord, Empty, Maybe, Ops
<1>7. Typed'
  <2>1. calls' \in [Steps -> 0 .. MaxCalls] /\ faults' \in 0 .. MaxFaults
    BY <1>1, <1>3, <1>4, AccessorAssumption DEF Answer, Typed, AccessorTypeOK
  <2>2. outCache' \in [Steps -> SUBSET outputs']
    BY <1>1, <1>3, <1>4 DEF Remember, Typed, AccessorTypeOK
  <2>3. QED
    BY <1>1, <1>3, <1>6, <2>1, <2>2 DEF Typed, AccessorTypeOK
<1>8. Coherent'
  <2>1. \A u \in Steps : call'[u] = call[u] \/ (~InCall(u) /\ ~InCall(u)')
    BY <1>3, <1>6 DEF InCall
  <2>2. QED
    BY <1>1, <1>3, <2>1, CoherentFrame
<1>9. OutputContexts'
  BY <1>1, <1>3, <1>6 DEF OutputContexts, Current, InCall
\* A refusal has its reason in the context of s, which is its own.
<1>10. OutputsFailForOwnReasons'
  <2>1. r = "refused" => ~Live(Current(s))
    BY <1>1, <1>3, <1>4 DEF Answer, OutputContexts
  <2>2. \A u \in Steps : Live(Current(u))' <=> Live(Current(u))
    BY <1>3 DEF Live, Current
  <2>3. QED
    BY <1>1, <1>6, <2>1, <2>2 DEF OutputsFailForOwnReasons
<1>11. QED
  BY <1>7, <1>8, <1>9, <1>10 DEF IInv

\* executeStep: a new attempt has no call yet.
LEMMA AttemptStep ==
  ASSUME IInv, NEW s \in Steps, StartAttempt(s) \/ EndAttempt(s) \/ Expire(s)
  PROVE  IInv'
<1>1. Typed /\ Coherent /\ OutputContexts /\ OutputsFailForOwnReasons
  BY DEF IInv
<1>2. /\ call \in [Steps -> CallRecord] /\ outCtx \in [Steps -> Contexts]
      /\ step \in [Steps -> [attempt : 0 .. MaxAttempts, running : BOOLEAN, expired : BOOLEAN]]
  BY <1>1 DEF Typed, AccessorTypeOK
<1>3. \A t \in Steps : InCall(t) => step[t].running
  BY <1>1 DEF Typed, AccessorTypeOK, InCall
<1>4. CASE StartAttempt(s)
  <2> DEFINE n == step[s].attempt + 1
  <2>1. /\ ~step[s].running /\ n \in 1 .. MaxAttempts
        /\ step' = [step EXCEPT ![s] = [attempt |-> n, running |-> TRUE, expired |-> FALSE]]
        /\ outCtx' = [outCtx EXCEPT ![s] = <<s, n>>] /\ ctx' = <<s, n>>
        /\ UNCHANGED <<cache, outCache, db, outputs, call, calls, faults, clean, acked>>
    BY <1>2, <1>4, AccessorAssumption
    DEF StartAttempt, SetStepAccessorCtx, SetStateAccessorCtx, history
  <2> HIDE DEF n
  <2>2. <<s, n>> \in Contexts
    BY <2>1, AccessorAssumption DEF Contexts
  <2>3. /\ step' \in [Steps -> [attempt : 0 .. MaxAttempts, running : BOOLEAN, expired : BOOLEAN]]
        /\ step'[s].running /\ step'[s].attempt = n
        /\ \A t \in Steps \ {s} : step'[t] = step[t]
    BY <1>2, <2>1, AccessorAssumption
  <2>4. /\ outCtx' \in [Steps -> Contexts] /\ outCtx'[s] = <<s, n>>
        /\ \A t \in Steps \ {s} : outCtx'[t] = outCtx[t]
    BY <1>2, <2>1, <2>2
  <2>5. call[s].pc = "none"
    BY <1>1, <2>1 DEF Typed, AccessorTypeOK
  <2>6. Typed'
    BY <1>1, <2>1, <2>2, <2>3, <2>4, <2>5 DEF Typed, AccessorTypeOK
  <2>7. Coherent'
    BY <1>1, <2>1, CoherentFrame
  <2>8. OutputContexts'
    BY <1>1, <2>1, <2>3, <2>4 DEF OutputContexts, Current, InCall
  <2>9. OutputsFailForOwnReasons'
    <3>1. call[s].op \notin {"GetOutput", "HasOutput"}
      BY <1>1, <2>5 DEF OutputContexts
    <3>2. QED
      BY <1>1, <2>1, <2>3, <3>1 DEF OutputsFailForOwnReasons, Live, Current
  <2>10. QED
    BY <2>6, <2>7, <2>8, <2>9 DEF IInv
<1>5. CASE EndAttempt(s)
  <2>1. /\ step[s].running /\ ~InCall(s) /\ step' = [step EXCEPT ![s].running = FALSE]
        /\ call' = [call EXCEPT ![s] = NoCall] /\ outputs' \in {outputs, outputs \cup {s}}
        /\ UNCHANGED <<cache, ctx, outCtx, outCache, db, calls, faults, clean, acked>>
    BY <1>5 DEF EndAttempt, history
  <2>2. /\ step' \in [Steps -> [attempt : 0 .. MaxAttempts, running : BOOLEAN, expired : BOOLEAN]]
        /\ ~step'[s].running /\ \A t \in Steps \ {s} : step'[t] = step[t]
    BY <1>2, <2>1
  <2>3. /\ call' \in [Steps -> CallRecord]
        /\ call'[s].pc = "none" /\ call'[s].op = "Get" /\ call'[s].value \in [Keys -> Maybe]
        /\ \A t \in Steps \ {s} : call'[t] = call[t]
    BY <1>2, <2>1 DEF NoCall, CallRecord, Empty, Maybe, Ops, Results
  <2>4. outputs' \subseteq Steps /\ outCache' \in [Steps -> SUBSET outputs']
    BY <1>1, <2>1 DEF Typed, AccessorTypeOK
  <2>5. Typed'
    BY <1>1, <2>1, <2>2, <2>3, <2>4 DEF Typed, AccessorTypeOK
  <2>6. Coherent'
    <3>1. \A t \in Steps : call'[t] = call[t] \/ (~InCall(t) /\ ~InCall(t)')
      BY <2>1, <2>3 DEF InCall
    <3>2. QED
      BY <1>1, <2>1, <3>1, CoherentFrame
  <2>7. OutputContexts' /\ OutputsFailForOwnReasons'
    BY <1>1, <2>1, <2>2, <2>3 DEF OutputContexts, OutputsFailForOwnReasons, Live, Current, InCall
  <2>8. QED
    BY <2>5, <2>6, <2>7 DEF IInv
<1>6. CASE Expire(s)
  <2>1. /\ step' = [step EXCEPT ![s].expired = TRUE]
        /\ UNCHANGED <<cache, ctx, outCtx, outCache, db, outputs, call, calls, faults, clean, acked>>
    BY <1>6 DEF Expire, history
  <2>2. /\ step' \in [Steps -> [attempt : 0 .. MaxAttempts, running : BOOLEAN, expired : BOOLEAN]]
        /\ \A t \in Steps : /\ step'[t].running = step[t].running
                            /\ step'[t].attempt = step[t].attempt
                            /\ step[t].expired => step'[t].expired
    BY <1>2, <2>1
  <2>3. Typed'
    BY <1>1, <2>1, <2>2 DEF Typed, AccessorTypeOK
  <2>4. Coherent'
    BY <1>1, <2>1, CoherentFrame
  <2>5. OutputContexts' /\ OutputsFailForOwnReasons'
    BY <1>1, <2>1, <2>2 DEF OutputContexts, OutputsFailForOwnReasons, Live, Current, InCall
  <2>6. QED
    BY <2>3, <2>4, <2>5 DEF IInv
<1>7. QED
  BY <1>4, <1>5, <1>6

\* Every step of every handler keeps the invariant.
LEMMA NextIInv == IInv /\ [Next]_vars => IInv'
<1> SUFFICES ASSUME IInv, [Next]_vars PROVE IInv'
  OBVIOUS
<1>1. ASSUME NEW s \in Steps, StartAttempt(s) \/ EndAttempt(s) \/ Expire(s)
      PROVE  IInv'
  BY <1>1, AttemptStep
<1>2. ASSUME NEW s \in Steps, Handler(s)
      PROVE  IInv'
  BY <1>2, StateCallStep, StoreMutationStep, StoreReadStep, FillStep, ReadOutputStep DEF Handler
<1>3. CASE UNCHANGED vars
  BY <1>3 DEF vars, history, IInv, Typed, AccessorTypeOK, Coherent, OverlapMarked, Overlap,
     FillsCurrent, ChangeCached, CacheCurrent, Changing, OutputContexts,
     OutputsFailForOwnReasons, Live, Current, InCall
<1>4. QED
  BY <1>1, <1>2, <1>3 DEF Next

-----------------------------------------------------------------------------
(* Reads.                                                                   *)

\* What BeginCalls says of the calls that are alone.
LEMMA BeginFacts ==
  ASSUME Typed, NEW s \in Steps, NEW op \in StateOps, NEW ks \in SUBSET Keys,
         NEW pc \in {"store", "done"}, NEW value \in [Keys -> Maybe],
         Begin(s, op, ks, pc, value, "ok")
  PROVE  /\ call'[s].pc = pc /\ call'[s].keys = ks /\ call'[s].value = value
         /\ call'[s].alone <=> Rivals(s, op, ks) = {}
         /\ \A t \in Steps \ {s} : call'[t].alone => call'[t] = call[t]
         /\ \A k \in Keys : clean'[k] => clean[k]
<1> DEFINE R == Rivals(s, op, ks)
<1>1. /\ call' \in [Steps -> CallRecord]
      /\ call'[s].pc = pc /\ call'[s].op = op /\ call'[s].keys = ks
      /\ call'[s].value = value /\ call'[s].result = "ok"
      /\ call'[s].alone <=> R = {}
      /\ \A t \in Steps \ {s} :
           /\ call'[t].pc = call[t].pc /\ call'[t].op = call[t].op
           /\ call'[t].keys = call[t].keys /\ call'[t].value = call[t].value
           /\ call'[t].result = call[t].result
           /\ call'[t].alone => call'[t] = call[t] /\ t \notin R
      /\ \A k \in Keys : clean'[k] <=>
           clean[k] /\ ~(k \in ks /\ \E t \in R : k \in call[t].keys)
      /\ clean' \in [Keys -> BOOLEAN]
      /\ calls' \in [Steps -> 0 .. MaxCalls]
  BY BeginCalls, Zenon
<1> HIDE DEF R
<1>2. /\ call'[s].pc = pc /\ call'[s].keys = ks /\ call'[s].value = value
      /\ call'[s].alone <=> R = {}
      /\ \A t \in Steps \ {s} : call'[t].alone => call'[t] = call[t]
      /\ \A k \in Keys : clean'[k] => clean[k]
  BY <1>1
<1>3. QED
  BY <1>2 DEF R

Answers(s) ==
  Finishes(s) /\ call'[s].alone /\ call'[s].result = "ok" =>
    \A k \in call'[s].keys : clean'[k] => call'[s].value[k] = acked'[k]

\* A read that the cache answers.
LEMMA CacheAnswers ==
  ASSUME IInv, NEW s \in Steps, NEW k \in Keys, NEW op \in {"Get", "Has"}, Look(s, op, k),
         NEW u \in Steps
  PROVE  Answers(u)
<1>1. Typed /\ CacheCurrent /\ cache \in [Keys -> Maybe]
  BY DEF IInv, Coherent, Typed, AccessorTypeOK
<1>2. Only(k, cache[k]) \in [Keys -> Maybe] /\ Only(k, cache[k])[k] = cache[k]
  BY <1>1 DEF Only, Empty, Maybe
<1> DEFINE pc == IF cache[k] = NoValue THEN "store" ELSE "done"
<1>3. Begin(s, op, {k}, pc, Only(k, cache[k]), "ok")
  BY DEF Look
<1>4. /\ op \in StateOps /\ pc \in {"store", "done"} /\ {k} \in SUBSET Keys
      /\ pc = "done" => cache[k] # NoValue
  BY DEF StateOps
<1> HIDE DEF pc
<1>5. /\ call'[s].pc = pc /\ call'[s].keys = {k} /\ call'[s].value = Only(k, cache[k])
      /\ call'[s].alone <=> Rivals(s, op, {k}) = {}
      /\ \A t \in Steps \ {s} : call'[t].alone => call'[t] = call[t]
      /\ \A j \in Keys : clean'[j] => clean[j]
  BY <1>1, <1>2, <1>3, <1>4, BeginFacts
<1>6. UNCHANGED <<db, acked>> /\ ~InCall(s)
  BY <1>3 DEF Begin, MayCall
<1>7. CASE u # s
  BY <1>5, <1>7 DEF Answers, Finishes
<1>8. CASE u = s
  <2> SUFFICES ASSUME call'[s].pc = "done", call'[s].alone, clean'[k]
               PROVE  call'[s].value[k] = acked'[k]
    BY <1>5, <1>8 DEF Answers, Finishes
  <2>1. ~Changing(k)
    BY <1>5, <1>6 DEF Rivals, Changing
  <2>2. cache[k] = acked[k]
    BY <1>1, <1>4, <1>5, <2>1 DEF CacheCurrent
  <2>3. QED
    BY <1>2, <1>5, <1>6, <2>2
<1>9. QED
  BY <1>7, <1>8

\* A read that the store answers, at once or before it fills the cache.
LEMMA StoreAnswers ==
  ASSUME IInv, NEW s \in Steps, StoreRead(s) \/ Fill(s), NEW u \in Steps
  PROVE  Answers(u)
<1>1. Typed /\ OverlapMarked /\ FillsCurrent /\ CacheCurrent
  BY DEF IInv, Coherent
<1>2. call \in [Steps -> CallRecord] /\ call[s] \in CallRecord
  BY <1>1 DEF Typed
<1>3. InCall(s) /\ ~Mutation(call[s].op) /\ UNCHANGED <<db, clean, acked>>
  BY <1>1 DEF StoreRead, Fill, InCall, FillsCurrent, history
<1>4. \A k \in Keys : k \in call[s].keys /\ clean[k] /\ call[s].alone => db[k] = acked[k]
  BY <1>1, <1>3 DEF OverlapMarked, Overlap, CacheCurrent, Changing
<1>5. CASE u # s
  <2>1. call'[u] = call[u]
    BY <1>2, <1>5 DEF StoreRead, Fill
  <2>2. QED
    BY <2>1 DEF Answers, Finishes
<1>6. ASSUME call'[s].alone = call[s].alone, call'[s].keys = call[s].keys, u = s,
             call'[s].result = "ok" => \A k \in Keys :
               k \in call[s].keys /\ clean[k] => call'[s].value[k] = db[k]
      PROVE  Answers(u)
  BY <1>2, <1>3, <1>4, <1>6 DEF Answers, CallRecord
<1>7. CASE u = s /\ StoreRead(s)
  <2> DEFINE found == [k \in Keys |-> IF k \in call[s].keys THEN db[k] ELSE NoValue]
  <2>1. PICK r \in Results, pc \in {"fill", "done"}, v \in {found, Empty} :
          /\ call' = [call EXCEPT ![s].pc = pc, ![s].result = r, ![s].value = v]
          /\ r = "ok" => v = found
    BY <1>7 DEF StoreRead
  <2>2. /\ call'[s].alone = call[s].alone /\ call'[s].keys = call[s].keys
        /\ call'[s].result = r /\ call'[s].value = v
    BY <1>2, <2>1 DEF CallRecord
  <2>3. QED
    BY <1>6, <1>7, <2>1, <2>2
<1>8. CASE u = s /\ Fill(s)
  <2>1. call' = [call EXCEPT ![s].pc = "done"] /\ call[s].pc = "fill"
    BY <1>8 DEF Fill
  <2>2. /\ call'[s].alone = call[s].alone /\ call'[s].keys = call[s].keys
        /\ call'[s].value = call[s].value
    BY <1>2, <2>1 DEF CallRecord
  <2>3. QED
    BY <1>1, <1>6, <1>8, <2>1, <2>2 DEF FillsCurrent
<1>9. QED
  BY <1>5, <1>7, <1>8

\* No other step finishes a read.
LEMMA OthersAnswer ==
  ASSUME IInv, [Next]_vars,
         ~ \E s \in Steps : \/ \E k \in Keys : Look(s, "Get", k) \/ Look(s, "Has", k)
                            \/ StoreRead(s) \/ Fill(s),
         NEW u \in Steps
  PROVE  Answers(u)
<1>1. Typed /\ call \in [Steps -> CallRecord]
  BY DEF IInv, Typed
<1>2. CASE UNCHANGED vars
  BY <1>2 DEF vars, Answers, Finishes
<1>3. ASSUME NEW s \in Steps, StartAttempt(s) \/ Expire(s)
      PROVE  Answers(u)
  BY <1>3 DEF StartAttempt, Expire, Answers, Finishes
<1>4. ASSUME NEW s \in Steps, EndAttempt(s)
      PROVE  Answers(u)
  BY <1>1, <1>4 DEF EndAttempt, Answers, Finishes, NoCall
<1>5. ASSUME NEW s \in Steps, NEW op \in StateOps, NEW ks \in SUBSET Keys,
             NEW v \in [Keys -> Maybe], Begin(s, op, ks, "store", v, "ok")
      PROVE  Answers(u)
  <2>1. call'[s].pc = "store" /\ \A t \in Steps \ {s} : call'[t].alone => call'[t] = call[t]
    BY <1>1, <1>5, BeginFacts
  <2>2. QED
    BY <2>1 DEF Answers, Finishes
<1>6. ASSUME NEW s \in Steps, NEW k \in Keys, Set(s, k) \/ Delete(s, k)
      PROVE  Answers(u)
  <2>1. Empty \in [Keys -> Maybe] /\ calls[s] \in 0 .. MaxCalls /\ MaxCalls \in Nat
    BY <1>1, AccessorAssumption DEF Empty, Maybe, Typed, AccessorTypeOK
  <2>2. CASE Set(s, k)
    <3>1. <<s, calls[s] + 1>> \in Maybe
      BY <2>1, <2>2 DEF Set, Begin, MayCall, Maybe, Values
    <3>2. Only(k, <<s, calls[s] + 1>>) \in [Keys -> Maybe]
      BY <2>1, <3>1 DEF Only
    <3>3. QED
      BY <1>5, <2>2, <3>2 DEF Set, StateOps
  <2>3. CASE Delete(s, k)
    BY <1>5, <2>1, <2>3 DEF Delete, StateOps
  <2>4. QED
    BY <1>6, <2>2, <2>3
<1>7. ASSUME NEW s \in Steps, GetAll(s)
      PROVE  Answers(u)
  BY <1>5, <1>7 DEF GetAll, StateOps, Empty, Maybe
<1>8. ASSUME NEW s \in Steps, StoreMutation(s)
      PROVE  Answers(u)
  BY <1>1, <1>8 DEF StoreMutation, Answers, Finishes, NoCall
<1>9. ASSUME NEW s \in Steps, NEW t \in Steps, NEW op \in {"GetOutput", "HasOutput"},
             ReadOutput(s, t, op)
      PROVE  Answers(u)
  BY <1>1, <1>9 DEF ReadOutput, Answers, Finishes, NoCall
<1>10. QED
  BY <1>2, <1>3, <1>4, <1>6, <1>7, <1>8, <1>9 DEF Next, Handler

-----------------------------------------------------------------------------
(* The inductive invariant: what holds while calls are under way.           *)
THEOREM AccessorInvariance == Spec => []IInv
<1>1. QED
  BY InitIInv, NextIInv, PTL DEF Spec

(* Every variable stays in its range, and a call is made by a running       *)
(* handler, for any number of steps, keys, calls, attempts and faults.      *)
THEOREM AccessorTypeCorrect == Spec => []AccessorTypeOK
<1>1. IInv => AccessorTypeOK
  BY DEF IInv, Typed
<1>2. QED
  BY <1>1, AccessorInvariance, PTL

(* The cache is only wrong about a key after a change that was refused or   *)
(* that overlapped another call, until the next change that succeeds alone. *)
THEOREM CacheIsCurrent == Spec => []CacheCurrent
<1>1. IInv => CacheCurrent
  BY DEF IInv, Coherent
<1>2. QED
  BY <1>1, AccessorInvariance, PTL

(* An output is refused to a step only for the step's own reasons.          *)
THEOREM OutputsRefusedForOwnReasons == Spec => []OutputsFailForOwnReasons
<1>1. IInv => OutputsFailForOwnReasons
  BY DEF IInv
<1>2. QED
  BY <1>1, AccessorInvariance, PTL

(* A read that no change of its keys overlaps answers what the last change  *)
(* left, unless that change was refused or overlapped.                      *)
THEOREM ReadsAreLatest == Spec => ReadsLatest
<1>1. IInv /\ [Next]_vars => [\A s \in Steps : Answers(s)]_vars
  <2> SUFFICES ASSUME IInv, [Next]_vars, NEW s \in Steps PROVE Answers(s)
    OBVIOUS
  <2>1. QED
    BY CacheAnswers, StoreAnswers, OthersAnswer
<1>2. QED
  BY <1>1, AccessorInvariance, PTL DEF Spec, ReadsLatest, Answers
===============================================================================
