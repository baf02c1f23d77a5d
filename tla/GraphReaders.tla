------------------------------ MODULE GraphReaders ------------------------------
(***************************************************************************)
(* Callers that sort and level one graph at the same time, as the *)
(* runs of one workflow do, between changes by its owner.  The graph is     *)
(* changed only while nobody reads it (cacheMu guards the caches alone);    *)
(* the caches are read, and later written, by every caller.                 *)
(*                                                                          *)
(* A walk touches only the caller's own variables and a graph nobody        *)
(* changes, so it commutes with the steps of the others: one caller walks   *)
(* at a time, and nobody calls or returns meanwhile.  MaxEdges bounds the   *)
(* edges of the graph.                                                      *)
(***************************************************************************)
EXTENDS ExecutionGraph

CONSTANTS
  Callers,
  Edges,    \* the edges the owner may add, pairs of step IDs
  Entries,  \* the steps the owner may make the entry point
  MaxEdges

ASSUME EdgesAssumption ==
  /\ Edges \subseteq StepIDs \X StepIDs /\ MaxEdges \in Nat
  /\ Entries \subseteq StepIDs

VARIABLES
  graph,
  call  \* per caller: where it is, what it asked, its walk and its answer

vars == <<graph, call>>

\* Validate is the first part of both.
Queries == {"TopologicalSort", "ComputeLevels"}
Error == [error |-> TRUE, order |-> <<>>, levels |-> <<>>]
Answer == [Error EXCEPT !.error = FALSE]

NoCall == [pc |-> "idle", query |-> "TopologicalSort", walk |-> NewWalk,
           search |-> NewSearch, answer |-> Answer]

Init == graph = NewExecutionGraph /\ call = [c \in Callers |-> NoCall]

-----------------------------------------------------------------------------
(* The owner.                                                               *)

EdgeCount == Cardinality({e \in StepIDs \X (1 .. MaxEdges) :
                            e[2] \in DOMAIN graph.next[e[1]]})

Mutate ==
  /\ \A c \in Callers : call[c].pc = "idle"
  /\ UNCHANGED call
  /\ \/ \E s \in StepIDs :
          graph' \in {AddNode(graph, s), UpdateNodeType(graph, s), SetEntryPoint(graph, s)}
     \/ \E e \in Edges : EdgeCount < MaxEdges /\ graph' = AddEdge(graph, e[1], e[2])
     \/ graph' = Clone(graph)
  /\ graph'.entry \in Entries

-----------------------------------------------------------------------------
(* A caller.                                                                *)

Walking == {"cycles", "reach", "sort", "levels"}
NobodyWalks == \A c \in Callers : call[c].pc \notin Walking
Goto(c, pc) == call' = [call EXCEPT ![c].pc = pc]
Answered(c, answer) ==
  call' = [call EXCEPT ![c] = [NoCall EXCEPT !.pc = "done", !.query = call[c].query,
                                             !.answer = answer]]

Cached(query) ==
  \/ query = "TopologicalSort" /\ graph.sortCache # <<>>
  \/ query = "ComputeLevels" /\ graph.levelCache # <<>>

\* The cache is looked up under the read lock.
Invoke(c) ==
  /\ call[c].pc = "idle" /\ NobodyWalks
  /\ \E q \in Queries :
       call' = [call EXCEPT ![c] =
         IF Cached(q)
         THEN [NoCall EXCEPT !.pc = "done", !.query = q,
                 !.answer = IF q = "TopologicalSort"
                            THEN [Answer EXCEPT !.order = graph.sortCache]
                            ELSE [Answer EXCEPT !.levels = graph.levelCache]]
         ELSE [NoCall EXCEPT !.pc = "missed", !.query = q]]
  /\ UNCHANGED graph

\* Validate asks for the entry point first.
CheckEntry(c) ==
  /\ call[c].pc = "missed"
  /\ NobodyWalks /\ \A d \in Callers : call[d].pc # "done"
  /\ IF graph.entry \in graph.nodes THEN Goto(c, "cycles") ELSE Answered(c, Error)
  /\ UNCHANGED graph

WalkOn(c) ==
  call' = [call EXCEPT ![c].walk = WalkStep(graph, @)]

\* hasCycle from every node not visited, in the order of the map.
SearchCycles(c) ==
  LET w == call[c].walk IN
  /\ call[c].pc = "cycles"
  /\ \/ w.frames # <<>> /\ FindsCycle(w) /\ Answered(c, Error)
     \/ w.frames # <<>> /\ ~FindsCycle(w) /\ WalkOn(c)
     \/ /\ w.frames = <<>>
        /\ \E root \in graph.nodes \ Visited(w) :
             call' = [call EXCEPT ![c].walk = Enter(graph, w, root)]
     \/ /\ w.frames = <<>> /\ graph.nodes \subseteq Visited(w)
        /\ call' = [call EXCEPT ![c].pc = "reach",
                                ![c].walk = Enter(graph, NewWalk, graph.entry)]
  /\ UNCHANGED graph

\* Mutant: any step counts as reached.
StartAnswerUnreached(c) ==
  IF call[c].query = "TopologicalSort"
  THEN call' = [call EXCEPT ![c].pc = "sort",
                            ![c].walk = Enter(graph, NewWalk, graph.entry)]
  ELSE call' = [call EXCEPT ![c].pc = "levels", ![c].walk = NewWalk,
                            ![c].search = StartSearch(graph)]
\* What follows a Validate that counted the reachable nodes.
StartAnswer(c) ==
  IF Cardinality(Visited(call[c].walk)) # Cardinality(graph.nodes)
  THEN Answered(c, Error)
  ELSE IF call[c].query = "TopologicalSort"
  THEN call' = [call EXCEPT ![c].pc = "sort",
                            ![c].walk = Enter(graph, NewWalk, graph.entry)]
  ELSE call' = [call EXCEPT ![c].pc = "levels", ![c].walk = NewWalk,
                            ![c].search = StartSearch(graph)]

SearchReachable(c) ==
  /\ call[c].pc = "reach"
  /\ IF call[c].walk.frames # <<>> THEN WalkOn(c) ELSE StartAnswer(c)
  /\ UNCHANGED graph

\* Post-order, reversed.
Sort(c) ==
  /\ call[c].pc = "sort"
  /\ IF call[c].walk.frames # <<>> THEN WalkOn(c)
     ELSE call' = [call EXCEPT ![c].pc = "write", ![c].walk = NewWalk,
                     ![c].answer.order = Reverse(call[c].walk.finished)]
  /\ UNCHANGED graph

LevelSteps(c) ==
  /\ call[c].pc = "levels"
  /\ IF call[c].search.queue # <<>>
     THEN call' = [call EXCEPT ![c].search = SearchStep(graph, @)]
     ELSE call' = [call EXCEPT ![c].pc = "write", ![c].search = NewSearch,
                     ![c].answer.levels = LevelSets(call[c].search.level)]
  /\ UNCHANGED graph

\* Under the write lock; the answer is the slice that was cached.
WriteCache(c) ==
  /\ call[c].pc = "write"
  /\ graph' = IF call[c].query = "TopologicalSort"
              THEN [graph EXCEPT !.sortCache = call[c].answer.order]
              ELSE [graph EXCEPT !.levelCache = call[c].answer.levels]
  /\ Answered(c, call[c].answer)

Return(c) == call[c].pc = "done" /\ call' = [call EXCEPT ![c] = NoCall] /\ UNCHANGED graph

Walks(c) == SearchCycles(c) \/ SearchReachable(c) \/ Sort(c) \/ LevelSteps(c) \/ WriteCache(c)
Caller(c) == Invoke(c) \/ CheckEntry(c) \/ Walks(c) \/ Return(c)

Next == Mutate \/ \E c \in Callers : Caller(c)

Spec == Init /\ [][Next]_vars
FairSpec == Spec /\ \A c \in Callers : WF_vars(Walks(c))

-----------------------------------------------------------------------------
(* Every variable stays in its range, and a walk enters no step twice.      *)
GraphTypeOK ==
  /\ graph \in Graph
  /\ \A c \in Callers :
       /\ call[c].pc \in {"idle", "missed", "write", "done"} \cup Walking
       /\ call[c].query \in Queries
       /\ call[c].walk \in Walk(graph) /\ call[c].search \in Search(graph)
       /\ Len(call[c].walk.frames) <= Cardinality(graph.nodes)
       /\ IsInjective(call[c].walk.finished)

(* What the caches hold is right for the graph as it is now, however many   *)
(* callers filled them and whatever the owner did since (graph.go:62, 73,   *)
(* 96, 107 and the two writes under cacheMu).                               *)
CachesCurrent ==
  /\ graph.sortCache # <<>> => Valid(graph) /\ IsTopological(graph, graph.sortCache)
  /\ graph.levelCache # <<>> => Valid(graph) /\ graph.levelCache = Levels(graph)

(* A query fails exactly on a graph with a cycle or with a step that cannot *)
(* be reached; an order is topological, and a step's level is the length of *)
(* the longest path to it, for every order of the edges and of the map.     *)
AnswersCorrect ==
  \A c \in Callers : call[c].pc = "done" =>
    /\ call[c].answer.error <=> ~Valid(graph)
    /\ ~call[c].answer.error =>
         /\ call[c].query = "TopologicalSort" => IsTopological(graph, call[c].answer.order)
         /\ call[c].query = "ComputeLevels" => call[c].answer.levels = Levels(graph)

(* The engine takes inputs from GetPreviousSteps and outputs from the last  *)
(* level.  When ComputeLevels answered, the entry point alone has no        *)
(* predecessor, every other step has one in the level just below and none   *)
(* in its own level or above, no level is empty, and the last one has only  *)
(* terminal steps.                                                          *)
InputsFromBelow ==
  LET levels == graph.levelCache
      previous(s) == ToSet(GetPreviousSteps(graph, s))
  IN levels # <<>> =>
       /\ levels[1] = {graph.entry} /\ previous(graph.entry) = {}
       /\ \A i \in 2 .. Len(levels) :
            /\ levels[i] # {}
            /\ \A s \in levels[i] :
                 /\ previous(s) \cap levels[i - 1] # {}
                 /\ previous(s) \subseteq UNION {levels[j] : j \in 1 .. i - 1}
       /\ \A s \in Last(levels) : IsTerminal(graph, s)

(* Every walk ends, also on a graph with cycles and although ComputeLevels  *)
(* queues a step again each time it finds a longer path.                    *)
WalksEnd ==
  \A c \in Callers : call[c].pc \in Walking ~> call[c].pc = "done"
===============================================================================
