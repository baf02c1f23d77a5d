----------------------------- MODULE ExecutionGraph -----------------------------
(***************************************************************************)
(* The graph of a workflow (graph.go): its mutators, the two walks its      *)
(* queries are made of, and what the queries should answer.                 *)
(*                                                                          *)
(* A graph is a record.  nil slices are empty sequences: a computed order   *)
(* or list of levels always holds the entry point.  The type of a node is   *)
(* left out, since nothing but Clone reads it.                              *)
(***************************************************************************)
EXTENDS Integers, SequencesExt

CONSTANTS
  StepIDs,  \* the names a step may have
  NoStep    \* the empty name

ASSUME NoStepAssumption == NoStep \notin StepIDs

Graph == [entry : StepIDs \cup {NoStep}, nodes : SUBSET StepIDs,
          next : [StepIDs -> Seq(StepIDs)], previous : [StepIDs -> Seq(StepIDs)],
          sortCache : Seq(StepIDs), levelCache : Seq(SUBSET StepIDs)]

NewExecutionGraph ==
  [entry |-> NoStep, nodes |-> {},
   next |-> [s \in StepIDs |-> <<>>], previous |-> [s \in StepIDs |-> <<>>],
   sortCache |-> <<>>, levelCache |-> <<>>]

-----------------------------------------------------------------------------
(* The mutators.  One that is refused returns its graph unchanged.          *)

Invalidated(g) == [g EXCEPT !.sortCache = <<>>, !.levelCache = <<>>]

AddNode(g, s) ==
  Invalidated([g EXCEPT !.nodes = @ \cup {s},
                        !.entry = IF @ = NoStep THEN s ELSE @])

UpdateNodeType(g, s) == IF s \in g.nodes THEN Invalidated(g) ELSE g

\* Mutants: the caches survive; the reverse edge is forgotten.
AddEdgeCached(g, from, to) ==
  IF {from, to} \subseteq g.nodes
  THEN [g EXCEPT !.next[from] = Append(@, to), !.previous[to] = Append(@, from)]
  ELSE g
AddEdgeOneWay(g, from, to) ==
  IF {from, to} \subseteq g.nodes
  THEN Invalidated([g EXCEPT !.next[from] = Append(@, to)])
  ELSE g
AddEdge(g, from, to) ==
  IF {from, to} \subseteq g.nodes
  THEN Invalidated([g EXCEPT !.next[from] = Append(@, to),
                             !.previous[to] = Append(@, from)])
  ELSE g

SetEntryPoint(g, s) ==
  IF s \in g.nodes THEN Invalidated([g EXCEPT !.entry = s]) ELSE g

\* Clone copies the entry point and the nodes, and no cache.
Clone(g) == Invalidated(g)

GetNextSteps(g, s) == IF s \in g.nodes THEN g.next[s] ELSE <<>>
GetPreviousSteps(g, s) == IF s \in g.nodes THEN g.previous[s] ELSE <<>>
IsTerminal(g, s) == s \in g.nodes /\ g.next[s] = <<>>

-----------------------------------------------------------------------------
(* hasCycle, dfsReachable and the visit of TopologicalSort are one          *)
(* depth-first walk.  A frame is a call with the successors it has still to *)
(* look at; finished holds the calls that returned, the first one first.    *)

Walk(g) == [frames : Seq([node : g.nodes, left : Seq(g.nodes)]),
            finished : Seq(g.nodes)]

Frame(g, s) == [node |-> s, left |-> g.next[s]]
NewWalk == [frames |-> <<>>, finished |-> <<>>]
Enter(g, w, s) == [w EXCEPT !.frames = Append(@, Frame(g, s))]

RecStack(w) == {w.frames[i].node : i \in DOMAIN w.frames}
Visited(w) == RecStack(w) \cup ToSet(w.finished)

\* The next successor of the last frame was visited already.
SeesVisited(w, among) ==
  LET left == Last(w.frames).left IN left # <<>> /\ Head(left) \in among
FindsCycle(w) == SeesVisited(w, RecStack(w))

\* Mutant: visited is not looked up.
WalkAgain(g, w) ==
  LET top == Last(w.frames)
      calls == Front(w.frames)
  IN IF top.left = <<>>
     THEN [frames |-> calls, finished |-> Append(w.finished, top.node)]
     ELSE Enter(g, [w EXCEPT !.frames = Append(calls, [top EXCEPT !.left = Tail(@)])],
                Head(top.left))
WalkStep(g, w) ==
  LET top == Last(w.frames)
      calls == Front(w.frames)
      looked == [w EXCEPT !.frames = Append(calls, [top EXCEPT !.left = Tail(@)])]
  IN IF top.left = <<>>
     THEN [frames |-> calls, finished |-> Append(w.finished, top.node)]
     ELSE IF SeesVisited(w, Visited(w)) THEN looked
     ELSE Enter(g, looked, Head(top.left))

-----------------------------------------------------------------------------
(* The search of ComputeLevels.  level is -1 for a node not in the map;     *)
(* left holds the successors of the node at the head of the queue.          *)

Search(g) == [level : [StepIDs -> Int], queue : Seq(g.nodes), left : Seq(g.nodes)]

NewSearch == [level |-> [s \in StepIDs |-> -1], queue |-> <<>>, left |-> <<>>]
StartSearch(g) ==
  [level |-> [NewSearch.level EXCEPT ![g.entry] = 0],
   queue |-> <<g.entry>>, left |-> g.next[g.entry]]

\* Mutants of SearchStep: a node is queued the first time only; the node
\* stays in the queue.
SearchOnce(g, b) ==
  IF b.left # <<>>
  THEN LET s == Head(b.left)
           l == b.level[Head(b.queue)] + 1
       IN [level |-> [b.level EXCEPT ![s] = IF @ < l THEN l ELSE @],
           queue |-> IF b.level[s] = -1 THEN Append(b.queue, s) ELSE b.queue,
           left |-> Tail(b.left)]
  ELSE [b EXCEPT !.queue = Tail(@),
                 !.left = IF Len(b.queue) = 1 THEN <<>> ELSE g.next[b.queue[2]]]
SearchStuck(g, b) ==
  IF b.left = <<>> THEN [b EXCEPT !.left = g.next[Head(b.queue)]] ELSE SearchOnce(g, b)
\* One successor of the node taken from the queue, or the next node.
SearchStep(g, b) ==
  IF b.left # <<>>
  THEN LET s == Head(b.left)
           l == b.level[Head(b.queue)] + 1
       IN IF l > b.level[s]
          THEN [level |-> [b.level EXCEPT ![s] = l],
                queue |-> Append(b.queue, s), left |-> Tail(b.left)]
          ELSE [b EXCEPT !.left = Tail(@)]
  ELSE [b EXCEPT !.queue = Tail(@),
                 !.left = IF Len(b.queue) = 1 THEN <<>> ELSE g.next[b.queue[2]]]

\* A level is filled by iterating over the map, in any order.
LevelSets(level) ==
  LET deepest == Max({level[s] : s \in StepIDs})
  IN [i \in 1 .. deepest + 1 |-> {s \in StepIDs : level[s] = i - 1}]

-----------------------------------------------------------------------------
(* What the queries should answer, by definition.                           *)

\* At(g)[k]: where the paths of k edges from the entry point end.
At(g) ==
  LET at[k \in 0 .. Cardinality(g.nodes)] ==
        IF k = 0 THEN {g.entry} ELSE UNION {ToSet(g.next[s]) : s \in at[k - 1]}
  IN at

\* Everything is reached from the entry point, and no path comes back.
Valid(g) ==
  /\ g.entry \in g.nodes
  /\ UNION {At(g)[k] : k \in DOMAIN At(g)} = g.nodes
  /\ At(g)[Cardinality(g.nodes)] = {}

\* The level of a step is the length of the longest path to it.
Levels(g) ==
  LET at == At(g)
      longest == [s \in g.nodes |-> Max({k \in DOMAIN at : s \in at[k]})]
  IN [i \in 1 .. Max({longest[s] : s \in g.nodes}) + 1 |->
        {s \in g.nodes : longest[s] = i - 1}]

\* order lists every step once, no step before one that leads to it.
IsTopological(g, order) ==
  /\ ToSet(order) = g.nodes /\ Len(order) = Cardinality(g.nodes)
  /\ \A i, j \in DOMAIN order : order[j] \in ToSet(g.next[order[i]]) => i < j
===============================================================================
