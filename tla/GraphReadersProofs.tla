--------------------------- MODULE GraphReadersProofs ---------------------------
(***************************************************************************)
(* Callers that sort and level one graph: proofs for any steps, any edges   *)
(* and any number of callers.                                               *)
(*                                                                          *)
(* The invariant follows each caller through its walks.  What a phase knows *)
(* is what the phases before it found out: after hasCycle the steps can be  *)
(* ranked, after the count everything is reached, and so on until the       *)
(* answer.  It holds of the graph as it is, since the owner changes the     *)
(* graph only when nobody reads it, and the other callers change no more    *)
(* than its caches.                                                         *)
(***************************************************************************)
EXTENDS GraphReaders, ExecutionGraphProofs

-----------------------------------------------------------------------------
(* The invariant.                                                           *)

\* next and previous hold the same edges, between nodes.
GraphInv(g) ==
  /\ Shape(g)
  /\ \A s \in StepIDs : s \notin g.nodes => g.next[s] = <<>>
  /\ \A s, t \in StepIDs : t \in ToSet(g.next[s]) <=> s \in ToSet(g.previous[t])

Sorted(g, order) == Sound(g) /\ order \in Seq(g.nodes) /\ IsTopological(g, order)
Levelled(g, levels) == Sound(g) /\ \E h \in Depths(g) : levels = ByDepth(g, h)

CachesRight(g) ==
  /\ g.sortCache # <<>> => Sorted(g, g.sortCache)
  /\ g.levelCache # <<>> => Levelled(g, g.levelCache)

PCs == {"idle", "missed", "write", "done"} \cup Walking
Answers == [error : BOOLEAN, order : Seq(StepIDs), levels : Seq(SUBSET StepIDs)]
Calls(g) ==
  [pc : PCs, query : Queries, walk : Walk(g), search : Search(g), answer : Answers]

\* An answer that a query may return.
Right(g, query, answer) ==
  /\ answer.error = FALSE
  /\ query = "TopologicalSort" => Sorted(g, answer.order)
  /\ query = "ComputeLevels" => Levelled(g, answer.levels)

\* The walk or the search of the phase, and none outside it.
WalkPart(g, k) ==
  IF k.pc \in {"cycles", "reach", "sort"}
  THEN Walked(g, k.walk) /\ (k.pc # "cycles" => Rooted(g, k.walk))
  ELSE k.walk = NewWalk
SearchPart(g, k) ==
  IF k.pc = "levels" THEN Searched(g, k.search) ELSE k.search = NewSearch

\* What the caller found out so far.
KnownPart(g, k) ==
  /\ k.pc = "idle" => k = NoCall
  /\ k.pc \in Walking => g.entry \in g.nodes /\ k.answer = Answer
  /\ k.pc = "missed" => k.answer = Answer
  /\ k.pc = "reach" => Ranks(g) # {}
  /\ k.pc = "sort" => Sound(g) /\ k.query = "TopologicalSort"
  /\ k.pc = "levels" => Sound(g) /\ k.query = "ComputeLevels"
  /\ k.pc = "write" => Right(g, k.query, k.answer)
  /\ k.pc = "done" => Right(g, k.query, k.answer) \/ (k.answer.error = TRUE /\ ~Sound(g))

CallInv(g, k) == WalkPart(g, k) /\ SearchPart(g, k) /\ KnownPart(g, k)

ReadersInv ==
  /\ GraphInv(graph) /\ CachesRight(graph)
  /\ call \in [Callers -> Calls(graph)]
  /\ \A c \in Callers : CallInv(graph, call[c])

-----------------------------------------------------------------------------
(* The graph and its caches.                                                *)

\* What is said of a graph here does not depend on its caches.
SameSteps(f, g) == f.entry = g.entry /\ f.nodes = g.nodes /\ f.next = g.next

\* Everything said of a graph survives a write to its caches.
LEMMA OnlyStepsMatter ==
  ASSUME NEW f, NEW g, SameSteps(f, g)
  PROVE /\ Ranks(f) = Ranks(g) /\ (Sound(f) <=> Sound(g))
        /\ \A order : Sorted(f, order) <=> Sorted(g, order)
        /\ \A levels : Levelled(f, levels) <=> Levelled(g, levels)
        /\ Calls(f) = Calls(g)
        /\ \A w : (Walked(f, w) <=> Walked(g, w)) /\ (Rooted(f, w) <=> Rooted(g, w))
        /\ \A b : Searched(f, b) <=> Searched(g, b)
        /\ \A k : CallInv(f, k) <=> CallInv(g, k)
<1>1. f.entry = g.entry /\ f.nodes = g.nodes /\ f.next = g.next
  BY DEF SameSteps
<1>2. \A s : Successors(f, s) = Successors(g, s)
  BY <1>1 DEF Successors
<1>3. Ranks(f) = Ranks(g)
  BY <1>1, <1>2 DEF Ranks
<1>4. \A C : Closed(f, C) <=> Closed(g, C)
  BY <1>1, <1>2 DEF Closed
<1>5. Sound(f) <=> Sound(g)
  BY <1>1, <1>3, <1>4 DEF Sound, Reached
<1>6. Depths(f) = Depths(g)
  BY <1>1, <1>2 DEF Depths
<1>7. \A h : ByDepth(f, h) = ByDepth(g, h)
  BY <1>1 DEF ByDepth, Deepest
<1>8. \A order : IsTopological(f, order) <=> IsTopological(g, order)
  BY <1>1 DEF IsTopological
<1>9. \A order : Sorted(f, order) <=> Sorted(g, order)
  BY <1>1, <1>5, <1>8 DEF Sorted
<1>10. \A levels : Levelled(f, levels) <=> Levelled(g, levels)
  BY <1>5, <1>6, <1>7 DEF Levelled
<1>11. Walk(f) = Walk(g) /\ Search(f) = Search(g)
  BY <1>1 DEF Walk, Search
<1>12. Calls(f) = Calls(g)
  BY <1>11 DEF Calls
<1>13. ASSUME NEW w PROVE Walked(f, w) <=> Walked(g, w)
  <2>1. Orderly(f, w) <=> Orderly(g, w)
    BY <1>2, <1>11 DEF Orderly
  <2>2. \A i : Looked(f, w, i) <=> Looked(g, w, i)
    BY <1>2 DEF Looked
  <2>3. Stacked(f, w) <=> Stacked(g, w)
    BY <1>3, <2>2 DEF Stacked
  <2> QED BY <2>1, <2>3 DEF Walked
<1>14. \A w : Rooted(f, w) <=> Rooted(g, w)
  BY <1>1, <1>4 DEF Rooted
<1>15. ASSUME NEW b PROVE Searched(f, b) <=> Searched(g, b)
  <2>1. Queued(f, b) <=> Queued(g, b)
    BY <1>2, <1>11 DEF Queued
  <2>2. Counted(f, b) <=> Counted(g, b)
    BY <1>1, <1>2 DEF Counted
  <2>3. Deepened(f, b) <=> Deepened(g, b)
    BY <1>1, <1>2 DEF Deepened
  <2> QED BY <2>1, <2>2, <2>3 DEF Searched
<1>16. ASSUME NEW k PROVE CallInv(f, k) <=> CallInv(g, k)
  <2>1. WalkPart(f, k) <=> WalkPart(g, k)
    BY <1>13, <1>14 DEF WalkPart
  <2>2. SearchPart(f, k) <=> SearchPart(g, k)
    BY <1>15 DEF SearchPart
  <2>3. Right(f, k.query, k.answer) <=> Right(g, k.query, k.answer)
    BY <1>9, <1>10 DEF Right
  <2>4. KnownPart(f, k) <=> KnownPart(g, k)
    BY <1>1, <1>3, <1>5, <2>3 DEF KnownPart
  <2> QED BY <2>1, <2>2, <2>4 DEF CallInv
<1> QED BY <1>3, <1>5, <1>9, <1>10, <1>12, <1>13, <1>14, <1>15, <1>16

\* A graph is its six fields.
LEMMA GraphFields ==
  ASSUME NEW g, GraphInv(g)
  PROVE /\ g = [entry |-> g.entry, nodes |-> g.nodes, next |-> g.next, previous |-> g.previous,
                sortCache |-> g.sortCache, levelCache |-> g.levelCache]
        /\ g.entry \in StepIDs \cup {NoStep} /\ g.nodes \subseteq StepIDs /\ IsFiniteSet(g.nodes)
        /\ g.next \in [StepIDs -> Seq(StepIDs)] /\ g.previous \in [StepIDs -> Seq(StepIDs)]
        /\ g.sortCache \in Seq(StepIDs) /\ g.levelCache \in Seq(SUBSET StepIDs)
        /\ \A s \in StepIDs : ToSet(g.next[s]) \subseteq g.nodes
<1>1. g \in Graph
  BY DEF GraphInv, Shape
<1> QED BY <1>1 DEF GraphInv, Shape, Graph

\* A mutator returns the graph unchanged, or one with the same properties and
\* without its caches.
LEMMA MutatorsKeepGraph ==
  ASSUME NEW g, GraphInv(g)
  PROVE /\ \A s \in StepIDs : \A f \in {AddNode(g, s), UpdateNodeType(g, s), SetEntryPoint(g, s)} :
             GraphInv(f) /\ (f = g \/ NoCaches(f))
        /\ \A s, t \in StepIDs : LET f == AddEdge(g, s, t) IN GraphInv(f) /\ (f = g \/ NoCaches(f))
        /\ GraphInv(Clone(g)) /\ NoCaches(Clone(g))
<1>1. /\ g \in Graph
      /\ g.entry \in StepIDs \cup {NoStep} /\ g.nodes \subseteq StepIDs /\ IsFiniteSet(g.nodes)
      /\ g.next \in [StepIDs -> Seq(StepIDs)] /\ g.previous \in [StepIDs -> Seq(StepIDs)]
      /\ \A s \in StepIDs : ToSet(g.next[s]) \subseteq g.nodes
      /\ \A s \in StepIDs : s \notin g.nodes => g.next[s] = <<>>
      /\ \A s, t \in StepIDs : t \in ToSet(g.next[s]) <=> s \in ToSet(g.previous[t])
  BY GraphFields DEF GraphInv, Shape
<1>2. ASSUME NEW m \in Graph, IsFiniteSet(m.nodes),
             \A s \in StepIDs : ToSet(m.next[s]) \subseteq m.nodes,
             \A s \in StepIDs : s \notin m.nodes => m.next[s] = <<>>,
             \A s, t \in StepIDs : t \in ToSet(m.next[s]) <=> s \in ToSet(m.previous[t])
      PROVE GraphInv(Invalidated(m)) /\ NoCaches(Invalidated(m))
  <2> DEFINE f == Invalidated(m)
  <2>1. /\ f \in Graph /\ NoCaches(f)
        /\ f.entry = m.entry /\ f.nodes = m.nodes /\ f.next = m.next /\ f.previous = m.previous
    BY InvalidatedFields
  <2> HIDE DEF f
  <2>2. GraphInv(f) /\ NoCaches(f)
    BY <1>2, <2>1 DEF GraphInv, Shape
  <2> QED BY <2>2 DEF f
<1>3. GraphInv(Invalidated(g)) /\ NoCaches(Invalidated(g))
  BY <1>1, <1>2
<1>4. ASSUME NEW s \in StepIDs PROVE GraphInv(AddNode(g, s)) /\ NoCaches(AddNode(g, s))
  <2> DEFINE f == AddNode(g, s)
  <2>1. /\ f \in Graph /\ NoCaches(f) /\ f.nodes = g.nodes \cup {s}
        /\ f.next = g.next /\ f.previous = g.previous
    BY <1>1, AddNodeFields
  <2>2. IsFiniteSet(g.nodes \cup {s})
    BY <1>1, FS_AddElement
  <2> HIDE DEF f
  <2>3. GraphInv(f) /\ NoCaches(f)
    BY <1>1, <2>1, <2>2 DEF GraphInv, Shape
  <2> QED BY <2>3 DEF f
<1>5. ASSUME NEW s \in StepIDs
      PROVE /\ GraphInv(UpdateNodeType(g, s))
            /\ UpdateNodeType(g, s) = g \/ NoCaches(UpdateNodeType(g, s))
  BY <1>3 DEF UpdateNodeType
<1>6. ASSUME NEW s \in StepIDs
      PROVE /\ GraphInv(SetEntryPoint(g, s))
            /\ SetEntryPoint(g, s) = g \/ NoCaches(SetEntryPoint(g, s))
  <2> DEFINE f == SetEntryPoint(g, s)
  <2>1. /\ f \in Graph /\ (f = g \/ NoCaches(f))
        /\ f.nodes = g.nodes /\ f.next = g.next /\ f.previous = g.previous
    BY <1>1, SetEntryFields
  <2> HIDE DEF f
  <2>2. Shape(f)
    BY <1>1, <2>1 DEF Shape
  <2>3. GraphInv(f)
    BY <1>1, <2>1, <2>2 DEF GraphInv
  <2> QED BY <2>1, <2>3 DEF f
<1>7. ASSUME NEW s \in StepIDs, NEW t \in StepIDs
      PROVE GraphInv(AddEdge(g, s, t)) /\ (AddEdge(g, s, t) = g \/ NoCaches(AddEdge(g, s, t)))
  <2>1. CASE ~({s, t} \subseteq g.nodes)
    BY <2>1 DEF AddEdge
  <2>2. CASE {s, t} \subseteq g.nodes
    <3> DEFINE f == AddEdge(g, s, t)
    <3>1. EdgeAdded(g, f, s, t)
      BY <1>1, <2>2, AddEdgeFields
    <3> HIDE DEF f
    <3>2. ASSUME NEW u \in StepIDs PROVE ToSet(f.next[u]) \subseteq f.nodes
      <4>1. ToSet(g.next[u]) \subseteq g.nodes
        BY <1>1
      <4>2. ToSet(f.next[u]) \subseteq ToSet(g.next[u]) \cup {t}
        BY <3>1 DEF EdgeAdded, Successors
      <4> QED BY <2>2, <3>1, <4>1, <4>2 DEF EdgeAdded
    <3>3. \A u \in StepIDs : u \notin f.nodes => f.next[u] = <<>>
      BY <1>1, <2>2, <3>1 DEF EdgeAdded
    <3>4. ASSUME NEW u \in StepIDs, NEW v \in StepIDs
          PROVE v \in ToSet(f.next[u]) <=> u \in ToSet(f.previous[v])
      <4>1. v \in ToSet(f.next[u]) <=> (v \in ToSet(g.next[u]) \/ (u = s /\ v = t))
        BY <3>1 DEF EdgeAdded, Successors
      <4>2. u \in ToSet(f.previous[v]) <=> (u \in ToSet(g.previous[v]) \/ (v = t /\ u = s))
        BY <3>1 DEF EdgeAdded
      <4>3. v \in ToSet(g.next[u]) <=> u \in ToSet(g.previous[v])
        BY <1>1
      <4> QED BY <4>1, <4>2, <4>3
    <3>5. GraphInv(f) /\ NoCaches(f)
      BY <1>1, <3>1, <3>2, <3>3, <3>4 DEF EdgeAdded, GraphInv, Shape
    <3> QED BY <3>5 DEF f
  <2> QED BY <2>1, <2>2
<1> QED BY <1>3, <1>4, <1>5, <1>6, <1>7 DEF Clone
-----------------------------------------------------------------------------
(* The steps of the owner and of the callers.                               *)

\* Walks and searches that have not begun, of any graph.
LEMMA NothingBegun ==
  ASSUME NEW g, Shape(g)
  PROVE NewWalk \in Walk(g) /\ NewSearch \in Search(g)
<1>1. NewWalk \in Walk(g)
  BY DEF NewWalk, Walk
<1>2. [s \in StepIDs |-> -1] \in [StepIDs -> Int] /\ <<>> \in Seq(g.nodes)
  OBVIOUS
<1>3. NewSearch \in Search(g)
  BY <1>2 DEF NewSearch, Search
<1> QED BY <1>1, <1>3

\* A call that is not walking.
Resting(p, q, a) ==
  [pc |-> p, query |-> q, walk |-> NewWalk, search |-> NewSearch, answer |-> a]

\* The calls that Invoke and Answered write, as records.
LEMMA RestingIs ==
  ASSUME NEW p, NEW q, NEW a
  PROVE [NoCall EXCEPT !.pc = p, !.query = q, !.answer = a] = Resting(p, q, a)
<1> DEFINE r0 == [pc |-> "idle", query |-> "TopologicalSort", walk |-> NewWalk,
                  search |-> NewSearch, answer |-> Answer]
           r1 == [pc |-> p, query |-> "TopologicalSort", walk |-> NewWalk,
                  search |-> NewSearch, answer |-> Answer]
           r2 == [pc |-> p, query |-> q, walk |-> NewWalk, search |-> NewSearch, answer |-> Answer]
           r3 == [pc |-> p, query |-> q, walk |-> NewWalk, search |-> NewSearch, answer |-> a]
<1>1. [r0 EXCEPT !.pc = p] = r1
  OBVIOUS
<1>2. [r1 EXCEPT !.query = q] = r2
  OBVIOUS
<1>3. [r2 EXCEPT !.answer = a] = r3
  OBVIOUS
<1>4. NoCall = r0 /\ Resting(p, q, a) = r3
  BY DEF NoCall, Resting
<1> HIDE DEF r0, r1, r2, r3
<1>5. [NoCall EXCEPT !.pc = p, !.query = q, !.answer = a]
        = [[[r0 EXCEPT !.pc = p] EXCEPT !.query = q] EXCEPT !.answer = a]
  BY <1>4
<1> QED BY <1>1, <1>2, <1>3, <1>4, <1>5

\* A caller that is not walking has to know what its phase knows, no more.
LEMMA RestingCalls ==
  ASSUME NEW g, Shape(g), NEW p \in PCs \ Walking, NEW q \in Queries, NEW a \in Answers,
         KnownPart(g, Resting(p, q, a))
  PROVE Resting(p, q, a) \in Calls(g) /\ CallInv(g, Resting(p, q, a))
<1> DEFINE k == Resting(p, q, a)
<1>1. k.pc = p /\ k.query = q /\ k.walk = NewWalk /\ k.search = NewSearch /\ k.answer = a
  BY DEF Resting
<1>2. k \in Calls(g)
  BY NothingBegun DEF Resting, Calls
<1>3. p \notin {"cycles", "reach", "sort", "levels"}
  BY DEF Walking
<1> HIDE DEF k
<1>4. WalkPart(g, k) /\ SearchPart(g, k)
  BY <1>1, <1>3 DEF WalkPart, SearchPart
<1> QED BY <1>2, <1>4 DEF CallInv, k

\* The two answers a call may start from.
LEMMA EmptyAnswers ==
  Error \in Answers /\ Answer \in Answers /\ Error.error = TRUE /\ Answer.error = FALSE
<1>1. <<>> \in Seq(StepIDs) /\ <<>> \in Seq(SUBSET StepIDs)
  OBVIOUS
<1> QED BY <1>1 DEF Error, Answer, Answers

\* A caller that asks nothing is right on every graph.
LEMMA IdleCalls ==
  ASSUME NEW g, Shape(g)
  PROVE NoCall \in Calls(g) /\ CallInv(g, NoCall)
<1>1. NoCall = Resting("idle", "TopologicalSort", Answer)
  BY DEF NoCall, Resting
<1>2. KnownPart(g, Resting("idle", "TopologicalSort", Answer))
  BY <1>1 DEF KnownPart, Walking, Resting
<1>3. "idle" \in PCs \ Walking /\ "TopologicalSort" \in Queries
  BY DEF PCs, Walking, Queries
<1> QED BY <1>1, <1>2, <1>3, EmptyAnswers, RestingCalls

\* Nobody asks anything of a graph without nodes.
LEMMA ReadersInit ==
  Init => ReadersInv
<1> SUFFICES ASSUME Init PROVE ReadersInv
  OBVIOUS
<1> DEFINE g == NewExecutionGraph
<1>1. graph = g /\ call = [c \in Callers |-> NoCall]
  BY DEF Init
<1>2. /\ g.entry = NoStep /\ g.nodes = {} /\ g.sortCache = <<>> /\ g.levelCache = <<>>
      /\ \A s \in StepIDs : g.next[s] = <<>> /\ g.previous[s] = <<>>
  BY DEF NewExecutionGraph
<1>3. g \in Graph
  <2>1. <<>> \in Seq(StepIDs) /\ <<>> \in Seq(SUBSET StepIDs)
    OBVIOUS
  <2>2. [s \in StepIDs |-> <<>>] \in [StepIDs -> Seq(StepIDs)]
    BY <2>1
  <2> QED BY <2>1, <2>2 DEF NewExecutionGraph, Graph
<1> HIDE DEF g
<1>4. ToSet(<<>>) = {}
  BY DEF ToSet
<1>5. IsFiniteSet(g.nodes)
  BY <1>2, FS_EmptySet
<1>6. GraphInv(g)
  BY <1>2, <1>3, <1>4, <1>5 DEF GraphInv, Shape
<1>7. CachesRight(g)
  BY <1>2 DEF CachesRight
<1>8. NoCall \in Calls(g) /\ CallInv(g, NoCall)
  BY <1>6, IdleCalls DEF GraphInv
<1> QED BY <1>1, <1>6, <1>7, <1>8 DEF ReadersInv

\* The owner: nobody has read the graph that changes.
LEMMA MutateKeepsReaders ==
  ASSUME ReadersInv, Mutate
  PROVE ReadersInv'
<1>1. GraphInv(graph) /\ CachesRight(graph) /\ call \in [Callers -> Calls(graph)]
  BY DEF ReadersInv
<1>2. call' = call /\ \A c \in Callers : call[c] = NoCall
  BY DEF Mutate, ReadersInv, CallInv, KnownPart
<1>3. GraphInv(graph') /\ (graph' = graph \/ NoCaches(graph'))
  <2>1. CASE \E s \in StepIDs :
               graph' \in {AddNode(graph, s), UpdateNodeType(graph, s), SetEntryPoint(graph, s)}
    BY <1>1, <2>1, MutatorsKeepGraph
  <2>2. CASE \E e \in Edges : graph' = AddEdge(graph, e[1], e[2])
    <3>1. PICK e \in Edges : graph' = AddEdge(graph, e[1], e[2])
      BY <2>2
    <3>2. e[1] \in StepIDs /\ e[2] \in StepIDs
      BY EdgesAssumption
    <3> DEFINE s == e[1]
               t == e[2]
    <3> HIDE DEF s, t
    <3>3. s \in StepIDs /\ t \in StepIDs /\ graph' = AddEdge(graph, s, t)
      BY <3>1, <3>2 DEF s, t
    <3> QED BY <1>1, <3>3, MutatorsKeepGraph
  <2>3. CASE graph' = Clone(graph)
    BY <1>1, <2>3, MutatorsKeepGraph
  <2> QED BY <2>1, <2>2, <2>3 DEF Mutate
<1>4. CachesRight(graph')
  BY <1>1, <1>3 DEF CachesRight, NoCaches
<1>5. NoCall \in Calls(graph') /\ CallInv(graph', NoCall)
  BY <1>3, IdleCalls DEF GraphInv
<1>6. call' \in [Callers -> Calls(graph')]
  <2>1. \A c \in Callers : call[c] \in Calls(graph')
    BY <1>2, <1>5
  <2>2. call = [c \in Callers |-> call[c]]
    BY <1>1
  <2> QED BY <1>2, <2>1, <2>2
<1> QED BY <1>2, <1>3, <1>4, <1>5, <1>6 DEF ReadersInv

\* A step of one caller that leaves the graph alone.
LEMMA OneCallMoves ==
  ASSUME ReadersInv, NEW c \in Callers, NEW k \in Calls(graph), CallInv(graph, k),
         call' = [call EXCEPT ![c] = k], graph' = graph
  PROVE ReadersInv'
<1>1. call' \in [Callers -> Calls(graph)] /\ \A d \in Callers : call'[d] = IF d = c THEN k ELSE call[d]
  BY DEF ReadersInv
<1>2. \A d \in Callers : CallInv(graph, call'[d])
  BY <1>1 DEF ReadersInv
<1> QED BY <1>1, <1>2 DEF ReadersInv

\* What the invariant says of one caller.
LEMMA CallFacts ==
  ASSUME ReadersInv, NEW c \in Callers
  PROVE LET k == call[c] IN
        /\ k \in Calls(graph) /\ CallInv(graph, k)
        /\ k = [pc |-> k.pc, query |-> k.query, walk |-> k.walk, search |-> k.search,
                answer |-> k.answer]
        /\ k.pc \in PCs /\ k.query \in Queries /\ k.walk \in Walk(graph)
        /\ k.search \in Search(graph) /\ k.answer \in Answers
        /\ Shape(graph)
<1>1. call[c] \in Calls(graph) /\ CallInv(graph, call[c]) /\ Shape(graph)
  BY DEF ReadersInv, GraphInv
<1> QED BY <1>1 DEF Calls

\* A caller returns an answer it knows to be right.
LEMMA AnsweredKeeps ==
  ASSUME ReadersInv, NEW c \in Callers, NEW a \in Answers, Answered(c, a), graph' = graph,
         \/ Right(graph, call[c].query, a)
         \/ a.error = TRUE /\ ~Sound(graph)
  PROVE ReadersInv'
<1> DEFINE k == Resting("done", call[c].query, a)
<1>1. call[c].query \in Queries /\ Shape(graph)
  BY CallFacts
<1>2. call' = [call EXCEPT ![c] = k]
  <2>1. [NoCall EXCEPT !.pc = "done", !.query = call[c].query, !.answer = a] = k
    BY RestingIs
  <2> HIDE DEF k
  <2> QED BY <2>1 DEF Answered
<1>3. k.pc = "done" /\ k.query = call[c].query /\ k.answer = a
  BY DEF Resting
<1>4. "done" \in PCs \ Walking
  BY DEF PCs, Walking
<1>5. KnownPart(graph, k)
  <2> HIDE DEF k
  <2> QED BY <1>3, <1>4 DEF KnownPart
<1>6. k \in Calls(graph) /\ CallInv(graph, k)
  BY <1>1, <1>4, <1>5, RestingCalls
<1> HIDE DEF k
<1> QED BY <1>2, <1>6, OneCallMoves

\* An order or levels in an answer.
LEMMA AnswerFields ==
  /\ \A o \in Seq(StepIDs) : LET a == [Answer EXCEPT !.order = o]
                             IN a \in Answers /\ a.error = FALSE /\ a.order = o
  /\ \A l \in Seq(SUBSET StepIDs) : LET a == [Answer EXCEPT !.levels = l]
                                    IN a \in Answers /\ a.error = FALSE /\ a.levels = l
<1>1. Answer \in Answers /\ Answer.error = FALSE
  BY EmptyAnswers
<1> QED BY <1>1 DEF Answers

\* A cached answer is right, and one that is missed asks for nothing yet.
LEMMA InvokeKeepsReaders ==
  ASSUME ReadersInv, NEW c \in Callers, Invoke(c)
  PROVE ReadersInv'
<1>1. GraphInv(graph) /\ CachesRight(graph) /\ Shape(graph)
  BY DEF ReadersInv, GraphInv
<1>2. graph.sortCache \in Seq(StepIDs) /\ graph.levelCache \in Seq(SUBSET StepIDs)
  BY <1>1, GraphFields
<1>3. PICK q \in Queries :
        call' = [call EXCEPT ![c] =
          IF Cached(q)
          THEN [NoCall EXCEPT !.pc = "done", !.query = q,
                  !.answer = IF q = "TopologicalSort"
                             THEN [Answer EXCEPT !.order = graph.sortCache]
                             ELSE [Answer EXCEPT !.levels = graph.levelCache]]
          ELSE [NoCall EXCEPT !.pc = "missed", !.query = q]]
  BY DEF Invoke
<1>4. graph' = graph
  BY DEF Invoke
<1>5. CASE Cached(q)
  <2> DEFINE a == IF q = "TopologicalSort" THEN [Answer EXCEPT !.order = graph.sortCache]
                  ELSE [Answer EXCEPT !.levels = graph.levelCache]
             k == Resting("done", q, a)
  <2>1. call' = [call EXCEPT ![c] = [NoCall EXCEPT !.pc = "done", !.query = q, !.answer = a]]
    BY <1>3, <1>5
  <2>2. a \in Answers /\ a.error = FALSE
        /\ (q = "TopologicalSort" => a.order = graph.sortCache)
        /\ (q # "TopologicalSort" => a.levels = graph.levelCache)
    BY <1>2, AnswerFields
  <2> HIDE DEF a
  <2>3. Right(graph, q, a)
    <3>1. "TopologicalSort" # "ComputeLevels"
      OBVIOUS
    <3> QED BY <1>1, <1>5, <2>2, <3>1 DEF Right, Cached, CachesRight
  <2>4. call' = [call EXCEPT ![c] = k]
    BY <2>1, RestingIs
  <2>5. k.pc = "done" /\ k.query = q /\ k.answer = a /\ "done" \in PCs \ Walking
    BY DEF Resting, PCs, Walking
  <2>6. KnownPart(graph, k)
    <3> HIDE DEF k
    <3> QED BY <2>3, <2>5 DEF KnownPart
  <2>7. k \in Calls(graph) /\ CallInv(graph, k)
    BY <1>1, <2>2, <2>5, <2>6, RestingCalls
  <2> HIDE DEF k
  <2> QED BY <1>4, <2>4, <2>7, OneCallMoves
<1>6. CASE ~Cached(q)
  <2> DEFINE k == Resting("missed", q, Answer)
  <2>1. [NoCall EXCEPT !.pc = "missed", !.query = q] = k
    <3> DEFINE r0 == [pc |-> "idle", query |-> "TopologicalSort", walk |-> NewWalk,
                      search |-> NewSearch, answer |-> Answer]
               r1 == [pc |-> "missed", query |-> "TopologicalSort", walk |-> NewWalk,
                      search |-> NewSearch, answer |-> Answer]
    <3>1. [r0 EXCEPT !.pc = "missed"] = r1
      OBVIOUS
    <3>2. [r1 EXCEPT !.query = q] = k
      BY DEF Resting
    <3>3. NoCall = r0
      BY DEF NoCall
    <3> HIDE DEF r0, r1, k
    <3>4. [NoCall EXCEPT !.pc = "missed", !.query = q]
            = [[r0 EXCEPT !.pc = "missed"] EXCEPT !.query = q]
      BY <3>3
    <3> QED BY <3>1, <3>2, <3>4
  <2>2. k.pc = "missed" /\ k.query = q /\ k.answer = Answer /\ "missed" \in PCs \ Walking
    BY DEF Resting, PCs, Walking
  <2>3. KnownPart(graph, k)
    <3> HIDE DEF k
    <3> QED BY <2>2 DEF KnownPart
  <2>4. k \in Calls(graph) /\ CallInv(graph, k)
    BY <1>1, <2>2, <2>3, EmptyAnswers, RestingCalls
  <2> HIDE DEF k
  <2> QED BY <1>3, <1>4, <1>6, <2>1, <2>4, OneCallMoves
<1> QED BY <1>5, <1>6

\* Without an entry point the graph is not sound.
LEMMA CheckEntryKeepsReaders ==
  ASSUME ReadersInv, NEW c \in Callers, CheckEntry(c)
  PROVE ReadersInv'
<1> DEFINE k == call[c]
           m == [k EXCEPT !.pc = "cycles"]
<1>1. /\ k \in Calls(graph) /\ CallInv(graph, k) /\ Shape(graph)
      /\ k.pc = "missed" /\ graph' = graph
  BY CallFacts DEF CheckEntry
<1>2. CASE graph.entry \notin graph.nodes
  <2>1. Answered(c, Error) /\ ~Sound(graph)
    BY <1>2 DEF CheckEntry, Sound
  <2> QED BY <1>1, <2>1, EmptyAnswers, AnsweredKeeps
<1>3. CASE graph.entry \in graph.nodes
  <2>1. call' = [call EXCEPT ![c] = m]
    BY <1>3 DEF CheckEntry, Goto
  <2>2. "cycles" \in PCs /\ "cycles" \in Walking
    BY DEF PCs, Walking
  <2> HIDE DEF k
  <2>3. /\ m \in Calls(graph) /\ m.pc = "cycles" /\ m.query = k.query /\ m.walk = k.walk
        /\ m.search = k.search /\ m.answer = k.answer
    BY <1>1, <2>2 DEF Calls
  <2> HIDE DEF m
  <2>4. k.walk = NewWalk /\ k.search = NewSearch /\ k.answer = Answer
    BY <1>1 DEF CallInv, WalkPart, SearchPart, KnownPart
  <2>5. CallInv(graph, m)
    <3>1. Walked(graph, NewWalk)
      BY <1>1, NewWalkIsWalked
    <3>2. WalkPart(graph, m) /\ SearchPart(graph, m)
      BY <2>3, <2>4, <3>1 DEF WalkPart, SearchPart
    <3>3. KnownPart(graph, m)
      BY <1>3, <2>2, <2>3, <2>4 DEF KnownPart
    <3> QED BY <3>2, <3>3 DEF CallInv
  <2> QED BY <1>1, <2>1, <2>3, <2>5, OneCallMoves
<1> QED BY <1>2, <1>3

\* What the phases with a walk know, and how its next walk is put in place.
LEMMA WalkMoves ==
  ASSUME ReadersInv, NEW c \in Callers, graph' = graph, NEW w \in Walk(graph),
         call[c].pc \in {"cycles", "reach", "sort"},
         call' = [call EXCEPT ![c] = [call[c] EXCEPT !.walk = w]],
         Walked(graph, w), call[c].pc # "cycles" => Rooted(graph, w)
  PROVE ReadersInv'
<1> DEFINE k == call[c]
           m == [k EXCEPT !.walk = w]
<1>1. k \in Calls(graph) /\ CallInv(graph, k)
  BY CallFacts
<1>2. call' = [call EXCEPT ![c] = m] /\ k.pc \in {"cycles", "reach", "sort"}
      /\ (k.pc # "cycles" => Rooted(graph, w))
  OBVIOUS
<1> HIDE DEF k
<1>3. /\ m \in Calls(graph) /\ m.pc = k.pc /\ m.query = k.query /\ m.walk = w
      /\ m.search = k.search /\ m.answer = k.answer
  BY <1>1 DEF Calls
<1> HIDE DEF m
<1>4. WalkPart(graph, m) /\ SearchPart(graph, m)
  BY <1>1, <1>2, <1>3 DEF CallInv, WalkPart, SearchPart
<1>5. KnownPart(graph, m)
  BY <1>1, <1>2, <1>3 DEF CallInv, KnownPart
<1> QED BY <1>2, <1>3, <1>4, <1>5, OneCallMoves DEF CallInv

\* From one walk to the next, which starts at the entry point.
LEMMA RootMoves ==
  ASSUME ReadersInv, NEW c \in Callers, graph' = graph, NEW p \in {"reach", "sort"},
         call[c].pc \in {"cycles", "reach"},
         call' = [call EXCEPT ![c] = [[call[c] EXCEPT !.pc = p]
                                         EXCEPT !.walk = Enter(graph, NewWalk, graph.entry)]],
         Ranks(graph) # {}, p = "sort" => Sound(graph) /\ call[c].query = "TopologicalSort"
  PROVE ReadersInv'
<1> DEFINE k == call[c]
           w == Enter(graph, NewWalk, graph.entry)
           j == [k EXCEPT !.pc = p]
           m == [j EXCEPT !.walk = w]
<1>1. k \in Calls(graph) /\ CallInv(graph, k) /\ Shape(graph)
  BY CallFacts
<1>2. p \in PCs /\ p \in Walking /\ k.pc \in Walking /\ k.pc # "levels" /\ p # "levels" /\ p # "cycles"
  BY DEF PCs, Walking
<1>3. graph.entry \in graph.nodes /\ k.answer = Answer /\ k.search = NewSearch
  BY <1>1, <1>2 DEF CallInv, KnownPart, SearchPart
<1>4. Walked(graph, w) /\ Rooted(graph, w)
  <2>1. Walked(graph, NewWalk) /\ NewWalk.frames = <<>> /\ Visited(NewWalk) = {}
        /\ NewWalk.finished = <<>> /\ NewWalk \in Walk(graph)
    BY <1>1, NewWalkIsWalked, NothingBegun
  <2>2. Walked(graph, w)
    BY <1>1, <1>3, <2>1, EnterRoot
  <2>3. /\ w \in Walk(graph) /\ w.finished = NewWalk.finished
        /\ Len(w.frames) = Len(NewWalk.frames) + 1 /\ w.frames # <<>>
        /\ DOMAIN w.frames = 1 .. Len(NewWalk.frames) + 1
        /\ \A i \in 1 .. Len(NewWalk.frames) : w.frames[i] = NewWalk.frames[i]
        /\ w.frames[Len(NewWalk.frames) + 1] = [node |-> graph.entry, left |-> graph.next[graph.entry]]
        /\ RecStack(w) = RecStack(NewWalk) \cup {graph.entry}
    <3> DEFINE s == graph.entry
               v == NewWalk
               e == Enter(graph, v, s)
               n == Len(v.frames)
    <3>1. v \in Walk(graph) /\ s \in graph.nodes
      BY <1>3, <2>1
    <3> HIDE DEF s, v
    <3>2. /\ e \in Walk(graph) /\ e.finished = v.finished
          /\ Len(e.frames) = n + 1 /\ e.frames # <<>> /\ DOMAIN e.frames = 1 .. n + 1
          /\ \A i \in 1 .. n : e.frames[i] = v.frames[i]
          /\ e.frames[n + 1] = [node |-> s, left |-> graph.next[s]]
          /\ RecStack(e) = RecStack(v) \cup {s}
      BY <1>1, <3>1, EnterFacts
    <3> HIDE DEF e, n
    <3> QED BY <3>2 DEF e, n, s, v
  <2>4. Len(NewWalk.frames) = 0
    BY <2>1, EmptySeq
  <2> HIDE DEF w
  <2>5. w.frames[1].node = graph.entry
    BY <2>3, <2>4
  <2>6. Visited(w) = {graph.entry}
    BY <2>1, <2>3 DEF Visited
  <2>7. Rooted(graph, w)
    BY <2>3, <2>5, <2>6 DEF Rooted, Closed
  <2> QED BY <2>2, <2>7 DEF w
<1>5. call' = [call EXCEPT ![c] = m]
  OBVIOUS
<1>6. p = "sort" => Sound(graph) /\ k.query = "TopologicalSort"
  OBVIOUS
<1> HIDE DEF k, w
<1>7. /\ j \in Calls(graph) /\ j.pc = p /\ j.query = k.query /\ j.search = k.search
      /\ j.answer = k.answer
  BY <1>1, <1>2 DEF Calls
<1> HIDE DEF j
<1>8. /\ m \in Calls(graph) /\ m.pc = p /\ m.query = k.query /\ m.walk = w
      /\ m.search = k.search /\ m.answer = k.answer
  BY <1>4, <1>7 DEF Calls, Walked, Orderly
<1> HIDE DEF m
<1>9. WalkPart(graph, m) /\ SearchPart(graph, m)
  BY <1>2, <1>3, <1>4, <1>8 DEF WalkPart, SearchPart
<1>10. KnownPart(graph, m)
  BY <1>2, <1>3, <1>6, <1>8 DEF KnownPart
<1> QED BY <1>5, <1>8, <1>9, <1>10, OneCallMoves DEF CallInv

\* One step of the walk a caller is in.
LEMMA WalkOnKeepsReaders ==
  ASSUME ReadersInv, NEW c \in Callers, graph' = graph, WalkOn(c),
         call[c].pc \in {"cycles", "reach", "sort"},
         call[c].walk.frames # <<>>, ~FindsCycle(call[c].walk)
  PROVE ReadersInv'
<1> DEFINE k == call[c]
           w == WalkStep(graph, k.walk)
<1>1. CallInv(graph, k) /\ Shape(graph) /\ k \in Calls(graph)
  BY CallFacts
<1>2. Walked(graph, k.walk) /\ (k.pc # "cycles" => Rooted(graph, k.walk))
  BY <1>1 DEF CallInv, WalkPart
<1>3. Walked(graph, w) /\ (k.pc # "cycles" => Rooted(graph, w))
  BY <1>1, <1>2, StepKeepsWalked
<1>4. call' = [call EXCEPT ![c] = [k EXCEPT !.walk = w]]
  BY DEF WalkOn
<1>5. w \in Walk(graph)
  BY <1>3 DEF Walked, Orderly
<1> HIDE DEF w
<1> QED BY <1>3, <1>4, <1>5, WalkMoves

\* hasCycle: a successor on the stack forbids ranks, and all roots give some.
LEMMA SearchCyclesKeepsReaders ==
  ASSUME ReadersInv, NEW c \in Callers, SearchCycles(c)
  PROVE ReadersInv'
<1> DEFINE k == call[c]
           w == k.walk
<1>1. /\ k.pc = "cycles" /\ graph' = graph
      /\ \/ w.frames # <<>> /\ FindsCycle(w) /\ Answered(c, Error)
         \/ w.frames # <<>> /\ ~FindsCycle(w) /\ WalkOn(c)
         \/ /\ w.frames = <<>>
            /\ \E root \in graph.nodes \ Visited(w) :
                 call' = [call EXCEPT ![c].walk = Enter(graph, w, root)]
         \/ /\ w.frames = <<>> /\ graph.nodes \subseteq Visited(w)
            /\ call' = [call EXCEPT ![c].pc = "reach",
                                    ![c].walk = Enter(graph, NewWalk, graph.entry)]
  BY DEF SearchCycles
<1>2. CallInv(graph, k) /\ Shape(graph) /\ k \in Calls(graph)
  BY CallFacts
<1>3. Walked(graph, w)
  BY <1>1, <1>2 DEF CallInv, WalkPart
<1>4. CASE w.frames # <<>> /\ FindsCycle(w) /\ Answered(c, Error)
  <2>1. Ranks(graph) = {}
    BY <1>2, <1>3, <1>4, RanksForbidCycles
  <2>2. ~Sound(graph)
    BY <2>1 DEF Sound
  <2> QED BY <1>1, <1>4, <2>2, EmptyAnswers, AnsweredKeeps
<1>5. CASE w.frames # <<>> /\ ~FindsCycle(w) /\ WalkOn(c)
  BY <1>1, <1>5, WalkOnKeepsReaders
<1>6. CASE /\ w.frames = <<>>
           /\ \E root \in graph.nodes \ Visited(w) :
                call' = [call EXCEPT ![c].walk = Enter(graph, w, root)]
  <2>1. PICK root \in graph.nodes \ Visited(w) :
          call' = [call EXCEPT ![c].walk = Enter(graph, w, root)]
    BY <1>6
  <2> DEFINE e == Enter(graph, w, root)
  <2>2. Walked(graph, e)
    BY <1>2, <1>3, <1>6, EnterRoot
  <2>3. call' = [call EXCEPT ![c] = [call[c] EXCEPT !.walk = e]]
    BY <2>1
  <2>4. e \in Walk(graph)
    BY <2>2 DEF Walked, Orderly
  <2> HIDE DEF e
  <2> QED BY <1>1, <2>2, <2>3, <2>4, WalkMoves
<1>7. CASE /\ w.frames = <<>> /\ graph.nodes \subseteq Visited(w)
           /\ call' = [call EXCEPT ![c].pc = "reach",
                                   ![c].walk = Enter(graph, NewWalk, graph.entry)]
  <2>1. Ranks(graph) # {}
    BY <1>2, <1>3, <1>7, WalkRanks
  <2> DEFINE e == Enter(graph, NewWalk, graph.entry)
  <2> HIDE DEF e
  <2>2. call' = [call EXCEPT ![c] = [[call[c] EXCEPT !.pc = "reach"] EXCEPT !.walk = e]]
    <3>1. call' = [call EXCEPT ![c].pc = "reach", ![c].walk = e]
      BY <1>7 DEF e
    <3>2. call \in [Callers -> Calls(graph)]
      BY DEF ReadersInv
    <3> QED BY <3>1, <3>2
  <2>3. "reach" \in {"reach", "sort"} /\ "reach" # "sort" /\ call[c].pc \in {"cycles", "reach"}
    BY <1>1
  <2> QED BY <1>1, <2>1, <2>2, <2>3, RootMoves DEF e
<1> QED BY <1>1, <1>4, <1>5, <1>6, <1>7

\* A validated graph: the sort or the search of levels begins.
LEMMA StartAnswerKeepsReaders ==
  ASSUME ReadersInv, NEW c \in Callers, call[c].pc = "reach", call[c].walk.frames = <<>>,
         StartAnswer(c), graph' = graph
  PROVE ReadersInv'
<1> DEFINE k == call[c]
<1>1. CallInv(graph, k) /\ Shape(graph) /\ k \in Calls(graph) /\ k.query \in Queries
  BY CallFacts
<1>2. /\ Walked(graph, k.walk) /\ Rooted(graph, k.walk) /\ Ranks(graph) # {}
      /\ graph.entry \in graph.nodes /\ k.answer = Answer /\ k.search = NewSearch
  BY <1>1 DEF CallInv, WalkPart, SearchPart, KnownPart, Walking
<1>3. /\ Reached(graph) => Visited(k.walk) = graph.nodes
      /\ Cardinality(Visited(k.walk)) = Cardinality(graph.nodes) => Reached(graph)
  BY <1>1, <1>2, WalkEnded
<1>4. CASE Cardinality(Visited(k.walk)) # Cardinality(graph.nodes)
  <2>1. ~Sound(graph)
    BY <1>3, <1>4 DEF Sound
  <2>2. Answered(c, Error)
    BY <1>4 DEF StartAnswer
  <2> QED BY <2>1, <2>2, EmptyAnswers, AnsweredKeeps
<1>5. CASE Cardinality(Visited(k.walk)) = Cardinality(graph.nodes) /\ k.query = "TopologicalSort"
  <2>1. Sound(graph)
    BY <1>2, <1>3, <1>5 DEF Sound
  <2> DEFINE e == Enter(graph, NewWalk, graph.entry)
  <2>2. call' = [call EXCEPT ![c].pc = "sort", ![c].walk = e]
    BY <1>5 DEF StartAnswer
  <2> HIDE DEF e
  <2>3. call' = [call EXCEPT ![c] = [[call[c] EXCEPT !.pc = "sort"] EXCEPT !.walk = e]]
    <3>1. call \in [Callers -> Calls(graph)]
      BY DEF ReadersInv
    <3> QED BY <2>2, <3>1
  <2>4. "sort" \in {"reach", "sort"} /\ call[c].pc \in {"cycles", "reach"}
    OBVIOUS
  <2> QED BY <1>2, <1>5, <2>1, <2>3, <2>4, RootMoves DEF e
<1>6. CASE Cardinality(Visited(k.walk)) = Cardinality(graph.nodes) /\ k.query # "TopologicalSort"
  <2>1. Sound(graph) /\ k.query = "ComputeLevels"
    BY <1>1, <1>2, <1>3, <1>6 DEF Sound, Queries
  <2> DEFINE b == StartSearch(graph)
             m1 == [k EXCEPT !.pc = "levels"]
             m2 == [m1 EXCEPT !.walk = NewWalk]
             m == [m2 EXCEPT !.search = b]
  <2>2. Searched(graph, b) /\ b \in Search(graph)
    <3>1. Searched(graph, b)
      BY <1>1, <1>2, StartIsSearched
    <3> QED BY <3>1 DEF Searched, Queued
  <2>3. call' = [call EXCEPT ![c].pc = "levels", ![c].walk = NewWalk, ![c].search = b]
    BY <1>6 DEF StartAnswer
  <2> HIDE DEF b
  <2>4. call' = [call EXCEPT ![c] = m]
    <3>1. call \in [Callers -> Calls(graph)]
      BY DEF ReadersInv
    <3> QED BY <2>3, <3>1
  <2>5. "levels" \in PCs /\ NewWalk \in Walk(graph)
    BY <1>1, NothingBegun DEF PCs, Walking
  <2> HIDE DEF k
  <2>6. /\ m1 \in Calls(graph) /\ m1.pc = "levels" /\ m1.query = k.query /\ m1.search = k.search
        /\ m1.answer = k.answer
    BY <1>1, <2>5 DEF Calls
  <2> HIDE DEF m1
  <2>7. /\ m2 \in Calls(graph) /\ m2.pc = "levels" /\ m2.query = k.query /\ m2.walk = NewWalk
        /\ m2.answer = k.answer
    BY <2>5, <2>6 DEF Calls
  <2> HIDE DEF m2
  <2>8. /\ m \in Calls(graph) /\ m.pc = "levels" /\ m.query = k.query /\ m.walk = NewWalk
        /\ m.search = b /\ m.answer = k.answer
    BY <2>2, <2>7 DEF Calls
  <2> HIDE DEF m
  <2>9. WalkPart(graph, m) /\ SearchPart(graph, m)
    BY <2>2, <2>8 DEF WalkPart, SearchPart
  <2>10. KnownPart(graph, m)
    BY <1>2, <2>1, <2>8 DEF KnownPart
  <2> QED BY <2>4, <2>8, <2>9, <2>10, OneCallMoves DEF CallInv
<1> QED BY <1>4, <1>5, <1>6

\* dfsReachable, and the count that follows it.
LEMMA SearchReachableKeepsReaders ==
  ASSUME ReadersInv, NEW c \in Callers, SearchReachable(c)
  PROVE ReadersInv'
<1> DEFINE k == call[c]
<1>1. /\ k.pc = "reach" /\ graph' = graph
      /\ IF k.walk.frames # <<>> THEN WalkOn(c) ELSE StartAnswer(c)
  BY DEF SearchReachable
<1>2. Walked(graph, k.walk) /\ Ranks(graph) # {} /\ Shape(graph)
  <2>1. CallInv(graph, k) /\ Shape(graph)
    BY CallFacts
  <2> QED BY <1>1, <2>1 DEF CallInv, WalkPart, KnownPart
<1>3. CASE k.walk.frames # <<>>
  <2>1. ~FindsCycle(k.walk)
    BY <1>2, <1>3, RanksForbidCycles
  <2> QED BY <1>1, <1>3, <2>1, WalkOnKeepsReaders
<1>4. CASE k.walk.frames = <<>>
  BY <1>1, <1>4, StartAnswerKeepsReaders
<1> QED BY <1>3, <1>4

\* The visit of TopologicalSort, and the reversal that follows it.
LEMMA SortKeepsReaders ==
  ASSUME ReadersInv, NEW c \in Callers, Sort(c)
  PROVE ReadersInv'
<1> DEFINE k == call[c]
           o == Reverse(k.walk.finished)
<1>1. /\ k.pc = "sort" /\ graph' = graph
      /\ IF k.walk.frames # <<>> THEN WalkOn(c)
         ELSE call' = [call EXCEPT ![c].pc = "write", ![c].walk = NewWalk, ![c].answer.order = o]
  BY DEF Sort
<1>2. /\ Walked(graph, k.walk) /\ Rooted(graph, k.walk) /\ Sound(graph) /\ Shape(graph)
      /\ k \in Calls(graph) /\ k.query = "TopologicalSort" /\ k.answer = Answer
      /\ k.search = NewSearch
  <2>1. CallInv(graph, k) /\ Shape(graph) /\ k \in Calls(graph)
    BY CallFacts
  <2> QED BY <1>1, <2>1 DEF CallInv, WalkPart, SearchPart, KnownPart, Walking
<1>3. CASE k.walk.frames # <<>>
  <2>1. ~FindsCycle(k.walk)
    BY <1>2, <1>3, RanksForbidCycles DEF Sound
  <2> QED BY <1>1, <1>3, <2>1, WalkOnKeepsReaders
<1>4. CASE k.walk.frames = <<>>
  <2>1. o \in Seq(graph.nodes) /\ IsTopological(graph, o)
    BY <1>2, <1>4, ReverseIsTopological
  <2>2. o \in Seq(StepIDs)
    <3>1. graph.nodes \subseteq StepIDs
      BY <1>2, ShapeFacts
    <3> HIDE DEF o
    <3> QED BY <2>1, <3>1, SeqMonotonic
  <2> DEFINE a == [Answer EXCEPT !.order = o]
             m1 == [k EXCEPT !.pc = "write"]
             m2 == [m1 EXCEPT !.walk = NewWalk]
             m == [m2 EXCEPT !.answer = a]
  <2>3. call' = [call EXCEPT ![c].pc = "write", ![c].walk = NewWalk, ![c].answer.order = o]
    BY <1>1, <1>4
  <2> HIDE DEF o
  <2>4. call' = [call EXCEPT ![c] = m]
    <3>1. call \in [Callers -> Calls(graph)]
      BY DEF ReadersInv
    <3>2. call' = [call EXCEPT ![c] = [m2 EXCEPT !.answer = [@ EXCEPT !.order = o]]]
      BY <2>3, <3>1
    <3>3. m2.answer = Answer
      BY <1>2 DEF Calls
    <3> HIDE DEF m2
    <3> QED BY <3>2, <3>3
  <2>5. a \in Answers /\ a.error = FALSE /\ a.order = o
    BY <2>2, AnswerFields
  <2>6. "write" \in PCs /\ "write" \notin Walking /\ NewWalk \in Walk(graph)
    BY <1>2, NothingBegun DEF PCs, Walking
  <2> HIDE DEF k, a
  <2>7. /\ m1 \in Calls(graph) /\ m1.pc = "write" /\ m1.query = k.query /\ m1.search = k.search
    BY <1>2, <2>6 DEF Calls
  <2> HIDE DEF m1
  <2>8. /\ m2 \in Calls(graph) /\ m2.pc = "write" /\ m2.query = k.query /\ m2.walk = NewWalk
        /\ m2.search = k.search
    BY <2>6, <2>7 DEF Calls
  <2> HIDE DEF m2
  <2>9. /\ m \in Calls(graph) /\ m.pc = "write" /\ m.query = k.query /\ m.walk = NewWalk
        /\ m.search = k.search /\ m.answer = a
    BY <2>5, <2>8 DEF Calls
  <2> HIDE DEF m
  <2>10. WalkPart(graph, m) /\ SearchPart(graph, m)
    BY <1>2, <2>9 DEF WalkPart, SearchPart
  <2>11. Right(graph, m.query, m.answer)
    <3>1. m.query # "ComputeLevels"
      BY <1>2, <2>9
    <3> QED BY <1>2, <2>1, <2>5, <2>9, <3>1 DEF Right, Sorted
  <2>12. KnownPart(graph, m)
    BY <2>6, <2>9, <2>11 DEF KnownPart
  <2> QED BY <1>1, <2>4, <2>9, <2>10, <2>12, OneCallMoves DEF CallInv
<1> QED BY <1>3, <1>4

\* The search of ComputeLevels, and the levels it fills.
LEMMA LevelStepsKeepsReaders ==
  ASSUME ReadersInv, NEW c \in Callers, LevelSteps(c)
  PROVE ReadersInv'
<1> DEFINE k == call[c]
           l == LevelSets(k.search.level)
<1>1. /\ k.pc = "levels" /\ graph' = graph
      /\ IF k.search.queue # <<>>
         THEN call' = [call EXCEPT ![c].search = SearchStep(graph, @)]
         ELSE call' = [call EXCEPT ![c].pc = "write", ![c].search = NewSearch,
                                   ![c].answer.levels = l]
  BY DEF LevelSteps
<1>2. /\ Searched(graph, k.search) /\ Sound(graph) /\ Shape(graph) /\ CallInv(graph, k)
      /\ k \in Calls(graph) /\ k.query = "ComputeLevels" /\ k.answer = Answer
      /\ k.walk = NewWalk /\ graph.entry \in graph.nodes
  <2>1. CallInv(graph, k) /\ Shape(graph) /\ k \in Calls(graph)
    BY CallFacts
  <2> QED BY <1>1, <2>1 DEF CallInv, WalkPart, SearchPart, KnownPart, Walking
<1>3. CASE k.search.queue # <<>>
  <2> DEFINE b == SearchStep(graph, k.search)
             m == [k EXCEPT !.search = b]
  <2>1. Searched(graph, b)
    BY <1>2, <1>3, StepKeepsSearched
  <2>2. b \in Search(graph)
    BY <2>1 DEF Searched, Queued
  <2>3. call' = [call EXCEPT ![c] = m]
    BY <1>1, <1>3
  <2> HIDE DEF b, k
  <2>4. /\ m \in Calls(graph) /\ m.pc = k.pc /\ m.query = k.query /\ m.walk = k.walk
        /\ m.search = b /\ m.answer = k.answer
    BY <1>2, <2>2 DEF Calls
  <2> HIDE DEF m
  <2>5. WalkPart(graph, m) /\ SearchPart(graph, m)
    BY <1>1, <1>2, <2>1, <2>4 DEF WalkPart, SearchPart
  <2>6. KnownPart(graph, m)
    BY <1>1, <1>2, <2>4 DEF KnownPart
  <2> QED BY <1>1, <2>3, <2>4, <2>5, <2>6, OneCallMoves DEF CallInv
<1>4. CASE k.search.queue = <<>>
  <2>1. PICK h \in Depths(graph) : l = ByDepth(graph, h)
    BY <1>2, <1>4, SearchEnded
  <2>2. l \in Seq(SUBSET StepIDs)
    BY <1>2, <2>1, LevelsTyped
  <2> DEFINE a == [Answer EXCEPT !.levels = l]
             m1 == [k EXCEPT !.pc = "write"]
             m2 == [m1 EXCEPT !.search = NewSearch]
             m == [m2 EXCEPT !.answer = a]
  <2>3. call' = [call EXCEPT ![c].pc = "write", ![c].search = NewSearch, ![c].answer.levels = l]
    BY <1>1, <1>4
  <2> HIDE DEF l
  <2>4. call' = [call EXCEPT ![c] = m]
    <3>1. call \in [Callers -> Calls(graph)]
      BY DEF ReadersInv
    <3>2. call' = [call EXCEPT ![c] = [m2 EXCEPT !.answer = [@ EXCEPT !.levels = l]]]
      BY <2>3, <3>1
    <3>3. m2.answer = Answer
      BY <1>2 DEF Calls
    <3> HIDE DEF m2
    <3> QED BY <3>2, <3>3
  <2>5. a \in Answers /\ a.error = FALSE /\ a.levels = l
    BY <2>2, AnswerFields
  <2>6. "write" \in PCs /\ "write" \notin Walking /\ NewSearch \in Search(graph)
    BY <1>2, NothingBegun DEF PCs, Walking
  <2> HIDE DEF k, a
  <2>7. /\ m1 \in Calls(graph) /\ m1.pc = "write" /\ m1.query = k.query /\ m1.walk = k.walk
    BY <1>2, <2>6 DEF Calls
  <2> HIDE DEF m1
  <2>8. /\ m2 \in Calls(graph) /\ m2.pc = "write" /\ m2.query = k.query /\ m2.walk = k.walk
        /\ m2.search = NewSearch
    BY <2>6, <2>7 DEF Calls
  <2> HIDE DEF m2
  <2>9. /\ m \in Calls(graph) /\ m.pc = "write" /\ m.query = k.query /\ m.walk = k.walk
        /\ m.search = NewSearch /\ m.answer = a
    BY <2>5, <2>8 DEF Calls
  <2> HIDE DEF m
  <2>10. WalkPart(graph, m) /\ SearchPart(graph, m)
    BY <1>2, <2>9 DEF WalkPart, SearchPart
  <2>11. Right(graph, m.query, m.answer)
    <3>1. m.query # "TopologicalSort"
      BY <1>2, <2>9
    <3> QED BY <1>2, <2>1, <2>5, <2>9, <3>1 DEF Right, Levelled
  <2>12. KnownPart(graph, m)
    BY <2>6, <2>9, <2>11 DEF KnownPart
  <2> QED BY <1>1, <2>4, <2>9, <2>10, <2>12, OneCallMoves DEF CallInv
<1> QED BY <1>3, <1>4

\* The answer goes into the cache of the graph the caller walked.
LEMMA WriteCacheKeepsReaders ==
  ASSUME ReadersInv, NEW c \in Callers, WriteCache(c)
  PROVE ReadersInv'
<1> DEFINE k == call[c]
           a == k.answer
           f == IF k.query = "TopologicalSort"
                THEN [graph EXCEPT !.sortCache = a.order]
                ELSE [graph EXCEPT !.levelCache = a.levels]
           m == Resting("done", k.query, a)
<1>1. k.pc = "write" /\ graph' = f /\ Answered(c, a)
  BY DEF WriteCache
<1>2. /\ k \in Calls(graph) /\ k.query \in Queries /\ a \in Answers /\ Right(graph, k.query, a)
      /\ GraphInv(graph) /\ CachesRight(graph) /\ graph \in Graph
  <2>1. k \in Calls(graph) /\ CallInv(graph, k) /\ k.query \in Queries /\ a \in Answers
    BY CallFacts
  <2> QED BY <1>1, <2>1 DEF CallInv, KnownPart, ReadersInv, GraphInv, Shape
<1>3. a.order \in Seq(StepIDs) /\ a.levels \in Seq(SUBSET StepIDs)
  BY <1>2 DEF Answers
<1>4. call' = [call EXCEPT ![c] = m]
  <2>1. [NoCall EXCEPT !.pc = "done", !.query = k.query, !.answer = a] = m
    BY RestingIs
  <2> HIDE DEF m
  <2> QED BY <1>1, <2>1 DEF Answered
<1>5. /\ f \in Graph /\ f.entry = graph.entry /\ f.nodes = graph.nodes /\ f.next = graph.next
      /\ f.previous = graph.previous
      /\ IF k.query = "TopologicalSort"
         THEN f.sortCache = a.order /\ f.levelCache = graph.levelCache
         ELSE f.levelCache = a.levels /\ f.sortCache = graph.sortCache
  <2> HIDE DEF k, a
  <2>1. CASE k.query = "TopologicalSort"
    BY <1>2, <1>3, <2>1 DEF Graph
  <2>2. CASE k.query # "TopologicalSort"
    BY <1>2, <1>3, <2>2 DEF Graph
  <2> QED BY <2>1, <2>2
<1> HIDE DEF f
<1>6. SameSteps(f, graph)
  BY <1>5 DEF SameSteps
<1>7. GraphInv(f)
  BY <1>2, <1>5 DEF GraphInv, Shape
<1>8. CachesRight(f)
  <2>1. /\ \A o : Sorted(f, o) <=> Sorted(graph, o)
        /\ \A l : Levelled(f, l) <=> Levelled(graph, l)
    BY <1>6, OnlyStepsMatter
  <2>2. CASE k.query = "TopologicalSort"
    BY <1>2, <1>5, <2>1, <2>2 DEF CachesRight, Right
  <2>3. CASE k.query # "TopologicalSort"
    BY <1>2, <1>5, <2>1, <2>3 DEF CachesRight, Right, Queries
  <2> QED BY <2>2, <2>3
<1>9. m \in Calls(graph) /\ CallInv(graph, m)
  <2>1. m.pc = "done" /\ m.query = k.query /\ m.answer = a /\ "done" \in PCs \ Walking
    BY DEF Resting, PCs, Walking
  <2>2. KnownPart(graph, m)
    <3> HIDE DEF m
    <3> QED BY <1>2, <2>1 DEF KnownPart
  <2> QED BY <1>2, <2>1, <2>2, RestingCalls DEF GraphInv
<1>10. /\ Calls(f) = Calls(graph)
       /\ \A j : CallInv(f, j) <=> CallInv(graph, j)
  BY <1>6, OnlyStepsMatter
<1> HIDE DEF m
<1>11. /\ call' \in [Callers -> Calls(graph)]
       /\ \A d \in Callers : call'[d] = IF d = c THEN m ELSE call[d]
  BY <1>4, <1>9 DEF ReadersInv
<1>12. \A d \in Callers : CallInv(f, call'[d])
  BY <1>9, <1>10, <1>11 DEF ReadersInv
<1> QED BY <1>1, <1>7, <1>8, <1>10, <1>11, <1>12 DEF ReadersInv

\* A caller forgets its answer.
LEMMA ReturnKeepsReaders ==
  ASSUME ReadersInv, NEW c \in Callers, Return(c)
  PROVE ReadersInv'
<1>1. call' = [call EXCEPT ![c] = NoCall] /\ graph' = graph
  BY DEF Return
<1>2. NoCall \in Calls(graph) /\ CallInv(graph, NoCall)
  BY IdleCalls DEF ReadersInv, GraphInv
<1> QED BY <1>1, <1>2, OneCallMoves

(* The invariant of the graph, its caches and its callers holds in every    *)
(* reachable state (graph.go:60 to 330), for any steps and any number of    *)
(* callers.                                                                 *)
THEOREM ReadersInvariance ==
  Spec => []ReadersInv
<1>1. Init => ReadersInv
  BY ReadersInit
<1>2. ReadersInv /\ [Next]_vars => ReadersInv'
  <2> SUFFICES ASSUME ReadersInv, [Next]_vars PROVE ReadersInv'
    OBVIOUS
  <2>1. CASE Mutate
    BY <2>1, MutateKeepsReaders
  <2>2. ASSUME NEW c \in Callers, Caller(c) PROVE ReadersInv'
    <3>1. CASE Invoke(c)
      BY <3>1, InvokeKeepsReaders
    <3>2. CASE CheckEntry(c)
      BY <3>2, CheckEntryKeepsReaders
    <3>3. CASE SearchCycles(c)
      BY <3>3, SearchCyclesKeepsReaders
    <3>4. CASE SearchReachable(c)
      BY <3>4, SearchReachableKeepsReaders
    <3>5. CASE Sort(c)
      BY <3>5, SortKeepsReaders
    <3>6. CASE LevelSteps(c)
      BY <3>6, LevelStepsKeepsReaders
    <3>7. CASE WriteCache(c)
      BY <3>7, WriteCacheKeepsReaders
    <3>8. CASE Return(c)
      BY <3>8, ReturnKeepsReaders
    <3> QED BY <2>2, <3>1, <3>2, <3>3, <3>4, <3>5, <3>6, <3>7, <3>8 DEF Caller, Walks
  <2>3. CASE UNCHANGED vars
    <3>1. graph' = graph /\ call' = call
      BY <2>3 DEF vars
    <3> QED BY <3>1 DEF ReadersInv
  <2> QED BY <2>1, <2>2, <2>3 DEF Next
<1> QED BY <1>1, <1>2, PTL DEF Spec
-----------------------------------------------------------------------------
(* What the invariant says of the answers.                                  *)

\* The walk that no phase uses is the empty one, so every walk is walked.
LEMMA WalksAreWalked ==
  ASSUME ReadersInv, NEW c \in Callers
  PROVE Orderly(graph, call[c].walk)
<1> DEFINE k == call[c]
<1>1. Shape(graph) /\ WalkPart(graph, k)
  BY CallFacts DEF CallInv
<1>2. Walked(graph, NewWalk)
  BY <1>1, NewWalkIsWalked
<1>3. CASE k.pc \in {"cycles", "reach", "sort"}
  BY <1>1, <1>3 DEF WalkPart, Walked
<1>4. CASE k.pc \notin {"cycles", "reach", "sort"}
  <2>1. k.walk = NewWalk
    BY <1>1, <1>4 DEF WalkPart
  <2> HIDE DEF k
  <2>2. Orderly(graph, k.walk)
    BY <1>2, <2>1 DEF Walked
  <2> QED BY <2>2 DEF k
<1> QED BY <1>3, <1>4

(* Every variable stays in its range; the recursion is never deeper than    *)
(* there are steps and no step is returned from twice (hasCycle,            *)
(* dfsReachable and the visit of TopologicalSort, graph.go:210 to 330).     *)
THEOREM ReadersTypeCorrect ==
  Spec => []GraphTypeOK
<1>1. ReadersInv => GraphTypeOK
  <2> SUFFICES ASSUME ReadersInv PROVE GraphTypeOK
    OBVIOUS
  <2>1. graph \in Graph /\ Shape(graph)
    BY DEF ReadersInv, GraphInv, Shape
  <2>2. ASSUME NEW c \in Callers
        PROVE /\ call[c].pc \in PCs /\ call[c].query \in Queries
              /\ call[c].walk \in Walk(graph) /\ call[c].search \in Search(graph)
              /\ Len(call[c].walk.frames) <= Cardinality(graph.nodes)
              /\ IsInjective(call[c].walk.finished)
    <3>1. call[c] \in Calls(graph)
      BY CallFacts
    <3>2. Orderly(graph, call[c].walk)
      BY WalksAreWalked
    <3>3. Len(call[c].walk.frames) <= Cardinality(graph.nodes)
      BY <2>1, <3>2, StackIsShort
    <3>4. IsInjective(call[c].walk.finished)
      BY <3>2 DEF Orderly
    <3> QED BY <3>1, <3>3, <3>4 DEF Calls
  <2> QED BY <2>1, <2>2 DEF GraphTypeOK, PCs
<1> QED BY <1>1, ReadersInvariance, PTL

\* What the callers know of an order or of levels is what the definition asks.
LEMMA KnownIsRight ==
  ASSUME NEW g, Shape(g)
  PROVE /\ \A order : Sorted(g, order) => Valid(g) /\ IsTopological(g, order)
        /\ \A levels : Levelled(g, levels) => Valid(g) /\ levels = Levels(g)
<1>1. Sound(g) => Valid(g)
  BY SoundIsValid
<1>2. ASSUME NEW levels, Levelled(g, levels) PROVE levels = Levels(g)
  BY <1>2, LevelsByDepth DEF Levelled
<1> QED BY <1>1, <1>2 DEF Sorted, Levelled

(* The caches are right for the graph as it is now, whoever filled them and *)
(* whatever the owner did since (graph.go:62, 73, 96, 107).                 *)
THEOREM CachesAreCurrent ==
  Spec => []CachesCurrent
<1>1. ReadersInv => CachesCurrent
  BY KnownIsRight DEF ReadersInv, GraphInv, CachesRight, CachesCurrent
<1> QED BY <1>1, ReadersInvariance, PTL

(* A query fails exactly on a graph that has a cycle or a step that cannot  *)
(* be reached; an order is topological and a level is the length of the     *)
(* longest path (Validate, TopologicalSort and ComputeLevels), for every    *)
(* graph, every order of its edges and every order of the map.              *)
THEOREM AnswersAreCorrect ==
  Spec => []AnswersCorrect
<1>1. ReadersInv => AnswersCorrect
  <2> SUFFICES ASSUME ReadersInv, NEW c \in Callers, call[c].pc = "done"
      PROVE /\ call[c].answer.error <=> ~Valid(graph)
            /\ ~call[c].answer.error =>
                 /\ call[c].query = "TopologicalSort"
                      => IsTopological(graph, call[c].answer.order)
                 /\ call[c].query = "ComputeLevels"
                      => call[c].answer.levels = Levels(graph)
    BY DEF AnswersCorrect
  <2> DEFINE q == call[c].query
             a == call[c].answer
  <2>1. Shape(graph) /\ KnownPart(graph, call[c]) /\ q \in Queries
    BY CallFacts DEF CallInv
  <2>2. Right(graph, q, a) \/ (a.error = TRUE /\ ~Sound(graph))
    BY <2>1 DEF KnownPart
  <2>3. Valid(graph) => Sound(graph)
    BY <2>1, ValidIsSound
  <2> HIDE DEF q, a
  <2>4. CASE Right(graph, q, a)
    <3>1. Valid(graph)
      BY <2>1, <2>4, KnownIsRight DEF Right, Queries
    <3>2. a.error = FALSE
      BY <2>4 DEF Right
    <3>3. q = "TopologicalSort" => IsTopological(graph, a.order)
      BY <2>1, <2>4, KnownIsRight DEF Right
    <3>4. q = "ComputeLevels" => a.levels = Levels(graph)
      BY <2>1, <2>4, KnownIsRight DEF Right
    <3> QED BY <3>1, <3>2, <3>3, <3>4 DEF q, a
  <2>5. CASE a.error = TRUE /\ ~Sound(graph)
    BY <2>3, <2>5 DEF q, a
  <2> QED BY <2>2, <2>4, <2>5
<1> QED BY <1>1, ReadersInvariance, PTL

\* The levels of a sound graph, seen through previous.
LEMMA LevelsFeedEachOther ==
  ASSUME NEW g, GraphInv(g), Sound(g), NEW h \in Depths(g), NEW levels, levels = ByDepth(g, h)
  PROVE LET previous(s) == ToSet(GetPreviousSteps(g, s)) IN
        /\ levels[1] = {g.entry} /\ previous(g.entry) = {}
        /\ \A i \in 2 .. Len(levels) :
             /\ levels[i] # {}
             /\ \A s \in levels[i] :
                  /\ previous(s) \cap levels[i - 1] # {}
                  /\ previous(s) \subseteq UNION {levels[j] : j \in 1 .. i - 1}
        /\ \A s \in Last(levels) : IsTerminal(g, s)
<1> DEFINE m == Deepest(g, h)
           previous(s) == ToSet(GetPreviousSteps(g, s))
<1>1. /\ Shape(g) /\ g.entry \in g.nodes /\ g.nodes \subseteq StepIDs
      /\ g.next \in [StepIDs -> Seq(StepIDs)]
      /\ \A s \in StepIDs : s \notin g.nodes => g.next[s] = <<>>
      /\ \A s, t \in StepIDs : t \in ToSet(g.next[s]) <=> s \in ToSet(g.previous[t])
  BY GraphFields DEF GraphInv, Sound
<1>2. /\ h \in [g.nodes -> Nat] /\ h[g.entry] = 0
      /\ \A s \in g.nodes : \A t \in Successors(g, s) : h[t] > h[s]
      /\ \A t \in g.nodes \ {g.entry} :
           \E s \in g.nodes : t \in Successors(g, s) /\ h[t] = h[s] + 1
  BY DEF Depths
<1>3. /\ m \in Nat /\ Len(levels) = m + 1
      /\ \A i \in 1 .. m + 1 : levels[i] = {s \in g.nodes : h[s] = i - 1}
  <2>1. Shape(g) /\ Sound(g) /\ h \in Depths(g)
    BY <1>1
  <2> HIDE DEF previous
  <2> QED BY <2>1, LevelsTyped
<1>4. /\ \A s \in g.nodes : h[s] \in 0 .. m
      /\ \A d \in 0 .. m : \E s \in g.nodes : h[s] = d
  <2>1. Shape(g) /\ Sound(g) /\ h \in Depths(g)
    BY <1>1
  <2> HIDE DEF previous
  <2> QED BY <2>1, DeepestStep
<1> HIDE DEF m
<1>5. ASSUME NEW s \in g.nodes, NEW p \in StepIDs
      PROVE p \in previous(s) <=> (p \in g.nodes /\ s \in Successors(g, p))
  <2>1. previous(s) = ToSet(g.previous[s])
    BY DEF GetPreviousSteps
  <2>2. p \in previous(s) <=> s \in ToSet(g.next[p])
    BY <1>1, <2>1
  <2>3. p \notin g.nodes => ToSet(g.next[p]) = {}
    BY <1>1 DEF ToSet
  <2> QED BY <2>2, <2>3 DEF Successors
<1>6. ASSUME NEW s \in g.nodes PROVE previous(s) \subseteq StepIDs
  <2>1. g.previous[s] \in Seq(StepIDs)
    BY <1>1, GraphFields
  <2>2. previous(s) = ToSet(g.previous[s])
    BY DEF GetPreviousSteps
  <2> QED BY <2>1, <2>2, SetOfSequence
<1> HIDE DEF previous
<1>7. ASSUME NEW s \in g.nodes, s # g.entry PROVE h[s] > 0
  <2>1. PICK p \in g.nodes : s \in Successors(g, p) /\ h[s] = h[p] + 1
    BY <1>2, <1>7
  <2>2. h[p] \in Nat
    BY <1>2
  <2> QED BY <2>1, <2>2
<1>8. levels[1] = {g.entry}
  <2>1. levels[1] = {s \in g.nodes : h[s] = 0}
    BY <1>3
  <2> QED BY <1>1, <1>2, <1>7, <2>1
<1>9. previous(g.entry) = {}
  <2>1. \A p \in g.nodes : g.entry \notin Successors(g, p)
    BY <1>1, NothingBeforeEntry
  <2> QED BY <1>1, <1>5, <1>6, <2>1
<1>10. ASSUME NEW i \in 2 .. Len(levels)
       PROVE /\ levels[i] # {}
             /\ \A s \in levels[i] :
                  /\ previous(s) \cap levels[i - 1] # {}
                  /\ previous(s) \subseteq UNION {levels[j] : j \in 1 .. i - 1}
  <2>1. /\ i \in 1 .. m + 1 /\ i - 1 \in 1 .. m + 1 /\ i - 1 \in 0 .. m /\ i - 1 > 0
        /\ i \in Int
    BY <1>3
  <2>2. /\ levels[i] = {s \in g.nodes : h[s] = i - 1}
        /\ levels[i - 1] = {s \in g.nodes : h[s] = (i - 1) - 1}
    BY <1>3, <2>1
  <2>3. levels[i] # {}
    BY <1>4, <2>1, <2>2
  <2>4. ASSUME NEW s \in levels[i] PROVE previous(s) \cap levels[i - 1] # {}
    <3>1. s \in g.nodes /\ h[s] = i - 1 /\ s # g.entry
      BY <1>2, <2>1, <2>2
    <3>2. PICK p \in g.nodes : s \in Successors(g, p) /\ h[s] = h[p] + 1
      BY <1>2, <3>1
    <3>3. h[p] = (i - 1) - 1
      BY <1>2, <2>1, <3>1, <3>2
    <3>4. p \in previous(s)
      BY <1>1, <1>5, <3>1, <3>2
    <3> QED BY <2>2, <3>2, <3>3, <3>4
  <2>5. ASSUME NEW s \in levels[i], NEW p \in previous(s)
        PROVE \E j \in 1 .. i - 1 : p \in levels[j]
    <3>1. s \in g.nodes /\ h[s] = i - 1
      BY <2>2
    <3>2. p \in g.nodes /\ s \in Successors(g, p)
      BY <1>5, <1>6, <3>1
    <3>3. h[p] \in Nat /\ h[p] < i - 1
      BY <1>2, <2>1, <3>1, <3>2
    <3> DEFINE j == h[p] + 1
    <3>4. j \in 1 .. i - 1 /\ j \in 1 .. m + 1 /\ j - 1 = h[p]
      <4>1. i - 1 \in Int /\ i - 1 <= m + 1 /\ m \in Nat
        BY <1>3, <2>1
      <4> QED BY <3>3, <4>1
    <3> HIDE DEF j
    <3>5. p \in levels[j]
      BY <1>3, <3>2, <3>4
    <3> QED BY <3>4, <3>5
  <2>6. \A s \in levels[i] : previous(s) \subseteq UNION {levels[j] : j \in 1 .. i - 1}
    BY <2>5
  <2> QED BY <2>3, <2>4, <2>6
<1>11. ASSUME NEW s \in Last(levels) PROVE IsTerminal(g, s)
  <2>1. Last(levels) = levels[m + 1] /\ m + 1 \in 1 .. m + 1 /\ (m + 1) - 1 = m
    BY <1>3 DEF Last
  <2>2. s \in g.nodes /\ h[s] = m
    BY <1>3, <1>11, <2>1
  <2>3. \A t \in Successors(g, s) : t \in g.nodes
    BY <1>1, <2>2, ShapeFacts
  <2>4. ASSUME NEW t \in Successors(g, s) PROVE FALSE
    <3>1. h[t] \in 0 .. m /\ h[t] > h[s]
      BY <1>2, <1>4, <2>2, <2>3
    <3> QED BY <1>3, <2>2, <3>1
  <2>5. g.next[s] \in Seq(StepIDs) /\ ToSet(g.next[s]) = {}
    BY <1>1, <2>2, <2>4 DEF Successors
  <2>6. g.next[s] = <<>>
    BY <2>5, SetOfSequence
  <2> QED BY <2>2, <2>6 DEF IsTerminal
<1> QED BY <1>8, <1>9, <1>10, <1>11 DEF previous

(* The inputs and outputs of the engine's levels: only the entry point has  *)
(* no predecessor, every other step has one in the level just below and     *)
(* none in its own or above, no level is empty and the last one is terminal *)
(* (ComputeLevels, GetPreviousSteps and IsTerminal as engine.go uses them). *)
THEOREM InputsComeFromBelow ==
  Spec => []InputsFromBelow
<1>1. ReadersInv => InputsFromBelow
  <2> SUFFICES ASSUME ReadersInv, graph.levelCache # <<>> PROVE InputsFromBelow
    BY DEF InputsFromBelow
  <2>1. GraphInv(graph) /\ Levelled(graph, graph.levelCache)
    BY DEF ReadersInv, CachesRight
  <2>2. PICK h \in Depths(graph) : graph.levelCache = ByDepth(graph, h)
    BY <2>1 DEF Levelled
  <2>3. Sound(graph)
    BY <2>1 DEF Levelled
  <2> DEFINE levels == graph.levelCache
  <2> HIDE DEF levels
  <2>4. levels = ByDepth(graph, h)
    BY <2>2 DEF levels
  <2> QED BY <2>1, <2>3, <2>4, LevelsFeedEachOther DEF InputsFromBelow, levels
<1> QED BY <1>1, ReadersInvariance, PTL
===============================================================================
