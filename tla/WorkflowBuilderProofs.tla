-------------------------- MODULE WorkflowBuilderProofs --------------------------
(***************************************************************************)
(* What a sequence of calls to WorkflowBuilder builds, for any steps,       *)
(* options and arguments.                                                   *)
(*                                                                          *)
(* The calls are folds over sequences.  A fold is defined by recursion over *)
(* the sets of positions; the first part turns each into what it computes   *)
(* position by position.  The second says what one call adds to the graph,  *)
(* the third what the graph of a sequence of calls is: an edge from every   *)
(* step of a call to every step of the next.  From there everything follows *)
(* that Build decides.                                                      *)
(***************************************************************************)
EXTENDS WorkflowBuilder, ExecutionGraphProofs

-----------------------------------------------------------------------------
(* Folds.                                                                   *)

\* Induction up to n: what holds of 0, and of k + 1 with k, holds up to n.
LEMMA Upwards ==
  ASSUME NEW n \in Nat, NEW T, 0 \in T,
         \A k \in 0 .. n : k \in T /\ k < n => k + 1 \in T
  PROVE \A k \in 0 .. n : k \in T
<1> DEFINE U == {k \in 0 .. n : k \notin T}
<1> SUFFICES ASSUME U # {} PROVE FALSE
  OBVIOUS
<1>1. PICK k \in U : \A m \in U : k <= m
  <2>1. U \in SUBSET Nat
    OBVIOUS
  <2> HIDE DEF U
  <2> QED BY <2>1, Least
<1>2. k # 0
  BY <1>1
<1>3. k - 1 \in 0 .. n /\ k - 1 < n /\ ~(k <= k - 1) /\ (k - 1) + 1 = k
  BY <1>1, <1>2
<1>4. k - 1 \in T
  BY <1>1, <1>3
<1> QED BY <1>1, <1>3, <1>4

\* The sets 1 .. k, by which a fold comes to the set of all positions.
LEMMA Initial ==
  ASSUME NEW n \in Nat
  PROVE /\ 1 .. 0 = {}
        /\ \A k \in 1 .. n : /\ 1 .. k \in SUBSET (1 .. n) /\ 1 .. k # {}
                             /\ Max(1 .. k) = k /\ (1 .. k) \ {k} = 1 .. (k - 1)
<1>1. 1 .. 0 = {}
  OBVIOUS
<1>2. ASSUME NEW k \in 1 .. n
      PROVE /\ 1 .. k \in SUBSET (1 .. n) /\ 1 .. k # {}
            /\ Max(1 .. k) = k /\ (1 .. k) \ {k} = 1 .. (k - 1)
  <2>1. 1 .. k \in SUBSET Int /\ k \in 1 .. k /\ \A y \in 1 .. k : y <= k
    OBVIOUS
  <2>2. Max(1 .. k) = k
    BY <2>1, MaxIs
  <2> QED BY <2>1, <2>2
<1> QED BY <1>1, <1>2

\* The position a fold looks at first, the last one, is one of those left.
LEMMA LargestPosition ==
  ASSUME NEW n \in Nat, NEW x \in SUBSET (1 .. n), x # {}
  PROVE Max(x) \in x
<1>1. x \in SUBSET Nat /\ \A y \in x : y <= n
  OBVIOUS
<1>2. PICK m \in x : \A y \in x : y <= m
  BY <1>1, Largest
<1>3. x \in SUBSET Int
  BY <1>1
<1> QED BY <1>2, <1>3, MaxIs

\* f is the recursion of a fold over n positions, where G[i] is what position
\* i does; there is one.
Folds(f, S, base, n, G) ==
  /\ f \in [SUBSET (1 .. n) -> S]
  /\ \A x \in SUBSET (1 .. n) :
       f[x] = IF x = {} THEN base ELSE G[Max(x)][f[x \ {Max(x)}]]
LEMMA FoldExists ==
  ASSUME NEW S, NEW base \in S, NEW n \in Nat, NEW G \in [1 .. n -> [S -> S]]
  PROVE \E f : Folds(f, S, base, n, G)
<1> DEFINE Solves(f, m) ==
             \A x \in SUBSET (1 .. m) :
               f[x] = IF x = {} THEN base ELSE G[Max(x)][f[x \ {Max(x)}]]
           T == {m \in 0 .. n : \E f \in [SUBSET (1 .. m) -> S] : Solves(f, m)}
<1>1. 0 \in T
  <2> DEFINE f == [x \in SUBSET (1 .. 0) |-> base]
  <2>1. f \in [SUBSET (1 .. 0) -> S] /\ Solves(f, 0)
    OBVIOUS
  <2>2. 0 \in 0 .. n
    OBVIOUS
  <2> HIDE DEF f, Solves
  <2> QED BY <2>1, <2>2
<1>2. ASSUME NEW m \in 0 .. n, m \in T, m < n PROVE m + 1 \in T
  <2>1. PICK f \in [SUBSET (1 .. m) -> S] : Solves(f, m)
    BY <1>2
  <2> DEFINE e == [x \in SUBSET (1 .. m + 1) |->
                     IF m + 1 \in x THEN G[m + 1][f[x \ {m + 1}]] ELSE f[x]]
  <2>2. m + 1 \in 1 .. n /\ m \in Int /\ G[m + 1] \in [S -> S]
    BY <1>2
  <2>3. ASSUME NEW x \in SUBSET (1 .. m + 1)
        PROVE e[x] \in S /\ e[x] = IF x = {} THEN base ELSE G[Max(x)][e[x \ {Max(x)}]]
    <3>1. CASE m + 1 \in x
      <4>1. x \in SUBSET Int /\ \A y \in x : y <= m + 1
        BY <2>2
      <4>2. Max(x) = m + 1
        BY <3>1, <4>1, MaxIs
      <4>3. x \ {m + 1} \in SUBSET (1 .. m)
        BY <2>2
      <4>4. e[x \ {m + 1}] = f[x \ {m + 1}] /\ f[x \ {m + 1}] \in S
        BY <2>1, <4>3
      <4>5. e[x] = G[m + 1][f[x \ {m + 1}]]
        BY <3>1
      <4> HIDE DEF e
      <4> QED BY <2>2, <3>1, <4>2, <4>4, <4>5
    <3>2. CASE m + 1 \notin x
      <4>1. x \in SUBSET (1 .. m)
        BY <2>2, <3>2
      <4>2. e[x] = f[x] /\ f[x] \in S
        BY <2>1, <3>2, <4>1
      <4>3. CASE x = {}
        BY <2>1, <4>1, <4>2, <4>3
      <4>4. CASE x # {}
        <5>1. x \ {Max(x)} \in SUBSET (1 .. m)
          BY <4>1
        <5>2. e[x \ {Max(x)}] = f[x \ {Max(x)}]
          BY <2>2, <5>1
        <5> HIDE DEF e
        <5> QED BY <2>1, <4>1, <4>2, <4>4, <5>2
      <4> QED BY <4>3, <4>4
    <3> QED BY <3>1, <3>2
  <2>4. e \in [SUBSET (1 .. m + 1) -> S]
    BY <2>3
  <2>5. m + 1 \in 0 .. n
    BY <2>2
  <2> HIDE DEF e
  <2> QED BY <2>3, <2>4, <2>5
<1>3. n \in 0 .. n
  OBVIOUS
<1> HIDE DEF T
<1>4. n \in T
  BY <1>1, <1>2, <1>3, Upwards
<1> QED BY <1>4 DEF T, Folds

\* What AddEdge makes of a graph, one edge to s after the other.
EdgesFrom(g, q, s) ==
  LET f[x \in SUBSET DOMAIN q] ==
        IF x = {} THEN g ELSE AddEdge(f[x \ {Max(x)}], q[Max(x)], s)
  IN f[DOMAIN q]
Registering(b, s, how) == IF IsRegistered(b, s) THEN b ELSE AddStep(b, s, how)

LEMMA ChainIs ==
  ASSUME NEW b, NEW s, NEW how
  PROVE Chain(b, s, how)
          = [Registering(b, s, how) EXCEPT !.graph = EdgesFrom(@, b.lastStepIDs, s)]
BY Zenon DEF FoldLeft, MapThenFoldSet, Chain, Registering, EdgesFrom

\* The graphs on the way, one edge more each.
LEMMA EdgesByStep ==
  ASSUME NEW g \in Graph, NEW q \in Seq(g.nodes), NEW s \in g.nodes
  PROVE \E f : /\ f[0] = g /\ f[Len(q)] = EdgesFrom(g, q, s)
               /\ \A k \in 1 .. Len(q) : f[k] = AddEdge(f[k - 1], q[k], s)
<1> DEFINE n == Len(q)
           S == {h \in Graph : h.nodes = g.nodes}
           Step(f) == [x \in SUBSET DOMAIN q |->
                         IF x = {} THEN g
                         ELSE AddEdge(f[x \ {Max(x)}], q[Max(x)], s)]
           fold == CHOOSE f : f = Step(f)
<1>1. n \in Nat /\ DOMAIN q = 1 .. n
  OBVIOUS
<1>2. ASSUME NEW i \in 1 .. n, NEW h \in S PROVE AddEdge(h, q[i], s) \in S
  BY <1>1, AddEdgeFields DEF EdgeAdded
<1>3. g \in S
  OBVIOUS
<1> HIDE DEF n, S
<1>4. \E f : f = Step(f)
  <2> DEFINE G == [i \in 1 .. n |-> [h \in S |-> AddEdge(h, q[i], s)]]
  <2>1. G \in [1 .. n -> [S -> S]]
    BY <1>2
  <2>2. PICK f : Folds(f, S, g, n, G)
    <3> HIDE DEF G
    <3> QED BY <1>1, <1>3, <2>1, FoldExists
  <2>3. ASSUME NEW x \in SUBSET (1 .. n) PROVE f[x] = Step(f)[x]
    <3>1. CASE x = {}
      BY <1>1, <2>2, <3>1 DEF Folds
    <3>2. CASE x # {}
      <4>1. Max(x) \in 1 .. n /\ f[x \ {Max(x)}] \in S
        BY <1>1, <2>2, <3>2, LargestPosition DEF Folds
      <4> QED BY <1>1, <2>2, <3>2, <4>1 DEF Folds
    <3> QED BY <3>1, <3>2
  <2>4. f = Step(f)
    <3>1. Step(f) = [x \in SUBSET (1 .. n) |-> Step(f)[x]]
      BY <1>1
    <3> HIDE DEF Step
    <3> QED BY <2>2, <2>3, <3>1 DEF Folds
  <2> QED BY <2>4
<1>5. fold = Step(fold)
  <2> HIDE DEF Step
  <2> QED BY <1>4
<1>6. EdgesFrom(g, q, s) = fold[1 .. n]
  BY <1>1 DEF EdgesFrom
<1> HIDE DEF fold
<1> DEFINE f == [k \in 0 .. n |-> fold[1 .. k]]
<1>7. f[0] = g /\ f[n] = fold[1 .. n]
  <2>1. fold[{}] = g
    BY <1>5
  <2>2. 1 .. 0 = {} /\ f[0] = fold[1 .. 0] /\ f[n] = fold[1 .. n]
    BY <1>1
  <2> QED BY <2>1, <2>2
<1>8. ASSUME NEW k \in 1 .. n PROVE f[k] = AddEdge(f[k - 1], q[k], s)
  <2>1. /\ 1 .. k \in SUBSET (1 .. n) /\ 1 .. k # {}
        /\ Max(1 .. k) = k /\ (1 .. k) \ {k} = 1 .. (k - 1)
    BY <1>1, Initial
  <2>2. fold[1 .. k] = AddEdge(fold[(1 .. k) \ {Max(1 .. k)}], q[Max(1 .. k)], s)
    BY <1>1, <1>5, <2>1
  <2>3. f[k] = fold[1 .. k] /\ f[k - 1] = fold[1 .. (k - 1)]
    BY <1>1
  <2> QED BY <2>1, <2>2, <2>3
<1> HIDE DEF f
<1>9. f[0] = g /\ f[Len(q)] = EdgesFrom(g, q, s)
  BY <1>6, <1>7 DEF n
<1>10. \A k \in 1 .. Len(q) : f[k] = AddEdge(f[k - 1], q[k], s)
  BY <1>8 DEF n
<1> QED BY <1>9, <1>10

\* The first element of a sequence stays first.
LEMMA HeadOfAppend ==
  ASSUME NEW S, NEW q \in Seq(S), NEW x \in S
  PROVE /\ Append(q, x) # <<>>
        /\ Head(Append(q, x)) = IF q = <<>> THEN x ELSE Head(q)
<1>1. /\ Append(q, x) \in Seq(S) /\ Append(q, x) # <<>>
      /\ \A i \in 1 .. Len(q) : Append(q, x)[i] = q[i]
      /\ Append(q, x)[Len(q) + 1] = x
  BY AppendFacts
<1>2. Head(Append(q, x)) = Append(q, x)[1]
  BY <1>1, SequenceEnds
<1>3. CASE q = <<>>
  BY <1>1, <1>2, <1>3
<1>4. CASE q # <<>>
  <2>1. Len(q) \in Nat \ {0} /\ Head(q) = q[1]
    BY <1>4, SequenceEnds
  <2> QED BY <1>1, <1>2, <1>4, <2>1
<1> QED BY <1>3, <1>4

\* h is g after the first k edges from q to s: who leads to s, and which of
\* the predecessors of s is the first.
EdgesSoFar(g, h, q, s, k) ==
  /\ h \in Graph /\ h.nodes = g.nodes
  /\ \A u \in StepIDs : Successors(h, u) =
       Successors(g, u) \cup (IF \E i \in 1 .. k : q[i] = u THEN {s} ELSE {})
  /\ \A u \in StepIDs : u # s \/ k = 0 => h.previous[u] = g.previous[u]
  /\ ToSet(h.previous[s]) = ToSet(g.previous[s]) \cup {q[i] : i \in 1 .. k}
  /\ g.previous[s] # <<>> =>
       h.previous[s] # <<>> /\ Head(h.previous[s]) = Head(g.previous[s])
  /\ g.previous[s] = <<>> /\ k > 0 =>
       h.previous[s] # <<>> /\ Head(h.previous[s]) = q[1]

LEMMA EdgeSoFar ==
  ASSUME NEW g \in Graph, NEW q \in Seq(g.nodes), NEW s \in g.nodes,
         NEW k \in 1 .. Len(q), NEW h, EdgesSoFar(g, h, q, s, k - 1)
  PROVE EdgesSoFar(g, AddEdge(h, q[k], s), q, s, k)
<1> DEFINE f == AddEdge(h, q[k], s)
<1>1. h \in Graph /\ h.nodes = g.nodes /\ q[k] \in h.nodes /\ s \in h.nodes /\ s \in StepIDs
      /\ k \in Nat /\ k > 0 /\ k - 1 \in Nat /\ q[k] \in StepIDs
  <2>1. Len(q) \in Nat /\ \A i \in 1 .. Len(q) : q[i] \in g.nodes
    OBVIOUS
  <2>2. q[k] \in g.nodes /\ k \in Nat /\ k > 0 /\ k - 1 \in Nat
    BY <2>1
  <2>3. h \in Graph /\ h.nodes = g.nodes /\ g.nodes \subseteq StepIDs
    BY DEF EdgesSoFar, Graph
  <2> QED BY <2>2, <2>3
<1>2. EdgeAdded(h, f, q[k], s)
  BY <1>1, AddEdgeFields
<1> HIDE DEF f
<1>3. f \in Graph /\ f.nodes = g.nodes
  BY <1>1, <1>2 DEF EdgeAdded
<1>4. ASSUME NEW u \in StepIDs
      PROVE Successors(f, u) =
              Successors(g, u) \cup (IF \E i \in 1 .. k : q[i] = u THEN {s} ELSE {})
  <2>1. Successors(f, u) = IF u = q[k] THEN Successors(h, u) \cup {s} ELSE Successors(h, u)
    BY <1>2 DEF EdgeAdded
  <2>2. Successors(h, u) =
          Successors(g, u) \cup (IF \E i \in 1 .. k - 1 : q[i] = u THEN {s} ELSE {})
    BY DEF EdgesSoFar
  <2>3. (\E i \in 1 .. k : q[i] = u) <=> (u = q[k] \/ \E i \in 1 .. k - 1 : q[i] = u)
    BY <1>1
  <2> QED BY <2>1, <2>2, <2>3
<1>5. \A u \in StepIDs : u # s \/ k = 0 => f.previous[u] = g.previous[u]
  BY <1>1, <1>2 DEF EdgeAdded, EdgesSoFar
<1>6. /\ f.previous[s] # <<>>
      /\ Head(f.previous[s]) = IF h.previous[s] = <<>> THEN q[k] ELSE Head(h.previous[s])
  <2>1. f.previous[s] = Append(h.previous[s], q[k]) /\ h.previous[s] \in Seq(StepIDs)
    BY <1>1, <1>2 DEF EdgeAdded, Graph
  <2> QED BY <1>1, <2>1, HeadOfAppend
<1>7. g.previous[s] # <<>> => Head(f.previous[s]) = Head(g.previous[s])
  BY <1>6 DEF EdgesSoFar
<1>8. g.previous[s] = <<>> => Head(f.previous[s]) = q[1]
  <2>1. CASE k = 1
    <3>1. h.previous[s] = g.previous[s]
      BY <1>1, <2>1 DEF EdgesSoFar
    <3> QED BY <1>6, <2>1, <3>1
  <2>2. CASE k # 1
    <3>1. k - 1 > 0
      BY <1>1, <2>2
    <3>2. g.previous[s] = <<>> => h.previous[s] # <<>> /\ Head(h.previous[s]) = q[1]
      BY <3>1 DEF EdgesSoFar
    <3> QED BY <1>6, <3>2
  <2> QED BY <2>1, <2>2
<1>9. ToSet(f.previous[s]) = ToSet(g.previous[s]) \cup {q[i] : i \in 1 .. k}
  <2>1. ToSet(f.previous[s]) = ToSet(h.previous[s]) \cup {q[k]}
    BY <1>2 DEF EdgeAdded
  <2>2. ToSet(h.previous[s]) = ToSet(g.previous[s]) \cup {q[i] : i \in 1 .. k - 1}
    BY DEF EdgesSoFar
  <2>3. {q[i] : i \in 1 .. k} = {q[i] : i \in 1 .. k - 1} \cup {q[k]}
    BY <1>1
  <2> QED BY <2>1, <2>2, <2>3
<1>10. EdgesSoFar(g, f, q, s, k)
  BY <1>3, <1>4, <1>5, <1>6, <1>7, <1>8, <1>9 DEF EdgesSoFar
<1> QED BY <1>10 DEF f

LEMMA AllEdges ==
  ASSUME NEW g \in Graph, NEW q \in Seq(g.nodes), NEW s \in g.nodes
  PROVE EdgesSoFar(g, EdgesFrom(g, q, s), q, s, Len(q))
<1>1. PICK f : /\ f[0] = g /\ f[Len(q)] = EdgesFrom(g, q, s)
               /\ \A k \in 1 .. Len(q) : f[k] = AddEdge(f[k - 1], q[k], s)
  BY EdgesByStep
<1> DEFINE n == Len(q)
           T == {k \in 0 .. n : EdgesSoFar(g, f[k], q, s, k)}
<1>2. n \in Nat /\ n \in 0 .. n /\ 0 \in 0 .. n
  OBVIOUS
<1>3. 0 \in T
  <2>1. EdgesSoFar(g, g, q, s, 0)
    BY DEF EdgesSoFar
  <2> QED BY <1>1, <1>2, <2>1
<1>4. ASSUME NEW k \in 0 .. n, k \in T, k < n PROVE k + 1 \in T
  <2>1. k + 1 \in 1 .. n /\ (k + 1) - 1 = k /\ k + 1 \in 0 .. n
    BY <1>2, <1>4
  <2>2. EdgesSoFar(g, f[k], q, s, k) /\ f[k + 1] = AddEdge(f[k], q[k + 1], s)
    BY <1>1, <1>4, <2>1
  <2>3. EdgesSoFar(g, f[k + 1], q, s, k + 1)
    BY <2>1, <2>2, EdgeSoFar
  <2> QED BY <2>1, <2>3
<1> HIDE DEF T, n
<1>5. n \in T
  BY <1>2, <1>3, <1>4, Upwards
<1> QED BY <1>1, <1>5 DEF T, n
-----------------------------------------------------------------------------
(* One call.                                                                *)

\* Builders whose graph and registered steps agree.
Builders ==
  [graph : Graph, registered : [StepIDs -> {"no", "plain", "if"}],
   lastStepIDs : Seq(StepIDs), config : Settings]
Mirrored(g) ==
  \A s, t \in StepIDs : t \in Successors(g, s) <=> s \in ToSet(g.previous[t])
Sane(b) ==
  /\ b \in Builders /\ Shape(b.graph) /\ Mirrored(b.graph)
  /\ b.graph.nodes = {s \in StepIDs : b.registered[s] # "no"}
  /\ b.lastStepIDs \in Seq(b.graph.nodes)

\* c is b after each of the steps G was registered, if it was not, and got an
\* edge from each of the last steps.
Grown(b, c, G, how) ==
  /\ c \in Builders /\ c.config = b.config /\ c.lastStepIDs = b.lastStepIDs
  /\ c.graph.nodes = b.graph.nodes \cup G /\ IsFiniteSet(c.graph.nodes)
  /\ \A s \in StepIDs : c.registered[s] =
       IF s \in G /\ b.registered[s] = "no" THEN how ELSE b.registered[s]
  /\ \A s \in StepIDs : Successors(c.graph, s) =
       Successors(b.graph, s) \cup (IF s \in ToSet(b.lastStepIDs) THEN G ELSE {})
  /\ \A s \in StepIDs \ G : c.graph.previous[s] = b.graph.previous[s]
  /\ \A s \in G :
       /\ ToSet(c.graph.previous[s]) = ToSet(b.graph.previous[s]) \cup ToSet(b.lastStepIDs)
       /\ b.graph.previous[s] # <<>> =>
            /\ c.graph.previous[s] # <<>>
            /\ Head(c.graph.previous[s]) = Head(b.graph.previous[s])
       /\ b.graph.previous[s] = <<>> /\ b.lastStepIDs # <<>> =>
            /\ c.graph.previous[s] # <<>>
            /\ Head(c.graph.previous[s]) = Head(b.lastStepIDs)

\* The fields of a builder.
LEMMA BuilderFields ==
  ASSUME NEW b \in Builders
  PROVE /\ b = [graph |-> b.graph, registered |-> b.registered,
                lastStepIDs |-> b.lastStepIDs, config |-> b.config]
        /\ b.graph \in Graph /\ b.registered \in [StepIDs -> {"no", "plain", "if"}]
        /\ b.lastStepIDs \in Seq(StepIDs) /\ b.config \in Settings
        /\ b.graph.nodes \subseteq StepIDs
        /\ b.graph.next \in [StepIDs -> Seq(StepIDs)]
        /\ b.graph.previous \in [StepIDs -> Seq(StepIDs)]
BY DEF Builders, Graph

\* A builder is replaced field by field.
LEMMA BuilderExcept ==
  ASSUME NEW b \in Builders
  PROVE /\ \A g \in Graph : [b EXCEPT !.graph = g] \in Builders
        /\ \A q \in Seq(StepIDs) : [b EXCEPT !.lastStepIDs = q] \in Builders
        /\ \A c \in Settings : [b EXCEPT !.config = c] \in Builders
BY DEF Builders

\* A step is registered, and is a node.
LEMMA RegisteringFields ==
  ASSUME NEW b, Sane(b), NEW s \in StepIDs, NEW how \in {"plain", "if"}
  PROVE LET r == Registering(b, s, how)
        IN /\ r \in Builders /\ r.config = b.config /\ r.lastStepIDs = b.lastStepIDs
           /\ r.graph.nodes = b.graph.nodes \cup {s} /\ IsFiniteSet(r.graph.nodes)
           /\ r.graph.next = b.graph.next /\ r.graph.previous = b.graph.previous
           /\ \A t \in StepIDs : r.registered[t] =
                IF t = s /\ b.registered[t] = "no" THEN how ELSE b.registered[t]
<1>1. /\ b \in Builders /\ IsFiniteSet(b.graph.nodes)
      /\ b.graph.nodes = {t \in StepIDs : b.registered[t] # "no"}
  BY DEF Sane, Shape
<1>2. /\ b.graph \in Graph /\ b.registered \in [StepIDs -> {"no", "plain", "if"}]
      /\ b.lastStepIDs \in Seq(StepIDs) /\ b.config \in Settings
  BY <1>1, BuilderFields
<1>3. CASE IsRegistered(b, s)
  <2>1. Registering(b, s, how) = b /\ b.registered[s] # "no" /\ s \in b.graph.nodes
    BY <1>1, <1>3 DEF Registering, IsRegistered
  <2> QED BY <1>1, <2>1
<1>4. CASE ~IsRegistered(b, s)
  <2> DEFINE h == AddNode(b.graph, s)
             r1 == [b EXCEPT !.registered[s] = how]
             r == Registering(b, s, how)
  <2>1. /\ h \in Graph /\ h.nodes = b.graph.nodes \cup {s}
        /\ h.next = b.graph.next /\ h.previous = b.graph.previous
    BY <1>2, AddNodeFields
  <2>2. IsFiniteSet(b.graph.nodes \cup {s})
    BY <1>1, FS_AddElement
  <2>3. /\ r1 \in Builders /\ r1.graph = b.graph /\ r1.config = b.config
        /\ r1.lastStepIDs = b.lastStepIDs
        /\ \A t \in StepIDs : r1.registered[t] = IF t = s THEN how ELSE b.registered[t]
    BY <1>1, <1>2 DEF Builders
  <2>4. r = [r1 EXCEPT !.graph = AddNode(@, s)] /\ b.registered[s] = "no"
    BY <1>4 DEF Registering, AddStep, IsRegistered
  <2> HIDE DEF r1
  <2>5. r = [r1 EXCEPT !.graph = h]
    BY <2>3, <2>4
  <2> HIDE DEF h, r
  <2>6. /\ r \in Builders /\ r.graph = h /\ r.config = r1.config
        /\ r.lastStepIDs = r1.lastStepIDs /\ r.registered = r1.registered
    BY <2>1, <2>3, <2>5 DEF Builders
  <2>7. /\ r \in Builders /\ r.config = b.config /\ r.lastStepIDs = b.lastStepIDs
        /\ r.graph.nodes = b.graph.nodes \cup {s} /\ IsFiniteSet(r.graph.nodes)
        /\ r.graph.next = b.graph.next /\ r.graph.previous = b.graph.previous
        /\ \A t \in StepIDs : r.registered[t] =
             IF t = s /\ b.registered[t] = "no" THEN how ELSE b.registered[t]
    BY <2>1, <2>2, <2>3, <2>4, <2>6
  <2> QED BY <2>7 DEF r
<1> QED BY <1>3, <1>4

\* Chain adds one step.
LEMMA ChainGrows ==
  ASSUME NEW b, Sane(b), NEW s \in StepIDs, NEW how \in {"plain", "if"}
  PROVE Grown(b, Chain(b, s, how), {s}, how)
<1> DEFINE r == Registering(b, s, how)
           g == EdgesFrom(r.graph, b.lastStepIDs, s)
           c == Chain(b, s, how)
<1>1. /\ r \in Builders /\ r.config = b.config /\ r.lastStepIDs = b.lastStepIDs
      /\ r.graph.nodes = b.graph.nodes \cup {s} /\ IsFiniteSet(r.graph.nodes)
      /\ r.graph.next = b.graph.next /\ r.graph.previous = b.graph.previous
      /\ \A t \in StepIDs : r.registered[t] =
           IF t = s /\ b.registered[t] = "no" THEN how ELSE b.registered[t]
  BY RegisteringFields
<1>2. c = [r EXCEPT !.graph = EdgesFrom(@, b.lastStepIDs, s)]
  BY ChainIs
<1> HIDE DEF r
<1>3. r.graph \in Graph /\ s \in r.graph.nodes /\ b.lastStepIDs \in Seq(r.graph.nodes)
  BY <1>1, BuilderFields DEF Sane
<1>4. EdgesSoFar(r.graph, g, b.lastStepIDs, s, Len(b.lastStepIDs))
  BY <1>3, AllEdges
<1>5. c = [r EXCEPT !.graph = g]
  BY <1>1, <1>2 DEF Builders
<1> HIDE DEF c, g
<1>6. g \in Graph /\ g.nodes = r.graph.nodes
  BY <1>4 DEF EdgesSoFar
<1>7. /\ c \in Builders /\ c.graph = g /\ c.config = r.config
      /\ c.lastStepIDs = r.lastStepIDs /\ c.registered = r.registered
  BY <1>1, <1>5, <1>6 DEF Builders
<1>8. ASSUME NEW t \in StepIDs
      PROVE Successors(g, t) =
              Successors(b.graph, t) \cup (IF t \in ToSet(b.lastStepIDs) THEN {s} ELSE {})
  <2>1. t \in ToSet(b.lastStepIDs) <=> \E i \in 1 .. Len(b.lastStepIDs) : b.lastStepIDs[i] = t
    BY <1>3, SetOfSequence
  <2>2. Successors(r.graph, t) = Successors(b.graph, t)
    BY <1>1 DEF Successors
  <2> QED BY <1>4, <2>1, <2>2 DEF EdgesSoFar
<1>9. \A t \in StepIDs \ {s} : g.previous[t] = b.graph.previous[t]
  BY <1>1, <1>4 DEF EdgesSoFar
<1>10. /\ b.graph.previous[s] # <<>> =>
            g.previous[s] # <<>> /\ Head(g.previous[s]) = Head(b.graph.previous[s])
       /\ b.graph.previous[s] = <<>> /\ b.lastStepIDs # <<>> =>
            g.previous[s] # <<>> /\ Head(g.previous[s]) = Head(b.lastStepIDs)
  <2>1. b.lastStepIDs # <<>> =>
          Len(b.lastStepIDs) > 0 /\ Head(b.lastStepIDs) = b.lastStepIDs[1]
    BY <1>3, SequenceEnds
  <2> QED BY <1>1, <1>4, <2>1 DEF EdgesSoFar
<1>11. ToSet(g.previous[s]) = ToSet(b.graph.previous[s]) \cup ToSet(b.lastStepIDs)
  <2>1. ToSet(b.lastStepIDs) = {b.lastStepIDs[i] : i \in 1 .. Len(b.lastStepIDs)}
    BY <1>3, SetOfSequence
  <2> QED BY <1>1, <1>4, <2>1 DEF EdgesSoFar
<1>12. Grown(b, c, {s}, how)
  BY <1>1, <1>6, <1>7, <1>8, <1>9, <1>10, <1>11 DEF Grown
<1> QED BY <1>12 DEF c

\* What a builder has grown to is sane; nothing is a growth, and two make one.
LEMMA GrownIsSane ==
  ASSUME NEW b, Sane(b), NEW G \in SUBSET StepIDs, NEW how \in {"plain", "if"},
         NEW c, Grown(b, c, G, how)
  PROVE Sane(c)
<1>1. /\ c \in Builders /\ c.graph.nodes = b.graph.nodes \cup G /\ IsFiniteSet(c.graph.nodes)
      /\ c.lastStepIDs = b.lastStepIDs
      /\ \A s \in StepIDs : c.registered[s] =
           IF s \in G /\ b.registered[s] = "no" THEN how ELSE b.registered[s]
  BY DEF Grown
<1>2. ASSUME NEW s \in StepIDs PROVE ToSet(c.graph.next[s]) \subseteq c.graph.nodes
  <2>1. Successors(b.graph, s) \subseteq b.graph.nodes
    BY DEF Sane, Shape, Successors
  <2>2. Successors(c.graph, s) \subseteq Successors(b.graph, s) \cup G
    BY DEF Grown
  <2> QED BY <1>1, <2>1, <2>2 DEF Successors
<1>3. Shape(c.graph)
  BY <1>1, <1>2, BuilderFields DEF Shape
<1>4. c.graph.nodes = {s \in StepIDs : c.registered[s] # "no"}
  <2>1. b.graph.nodes = {s \in StepIDs : b.registered[s] # "no"}
    BY DEF Sane
  <2> QED BY <1>1, <2>1
<1>5. c.lastStepIDs \in Seq(c.graph.nodes)
  <2>1. b.lastStepIDs \in Seq(b.graph.nodes)
    BY DEF Sane
  <2> QED BY <1>1, <2>1
<1>6. ASSUME NEW s \in StepIDs, NEW t \in StepIDs
      PROVE t \in Successors(c.graph, s) <=> s \in ToSet(c.graph.previous[t])
  <2>1. t \in Successors(b.graph, s) <=> s \in ToSet(b.graph.previous[t])
    BY DEF Sane, Mirrored
  <2>2. t \in Successors(c.graph, s) <=>
          t \in Successors(b.graph, s) \/ (s \in ToSet(b.lastStepIDs) /\ t \in G)
    BY DEF Grown
  <2>3. s \in ToSet(c.graph.previous[t]) <=>
          s \in ToSet(b.graph.previous[t]) \/ (s \in ToSet(b.lastStepIDs) /\ t \in G)
    BY DEF Grown
  <2> QED BY <2>1, <2>2, <2>3
<1> QED BY <1>1, <1>3, <1>4, <1>5, <1>6 DEF Sane, Mirrored

LEMMA GrowNothing ==
  ASSUME NEW b, Sane(b), NEW how
  PROVE Grown(b, b, {}, how)
BY DEF Grown, Sane, Shape

LEMMA GrowMore ==
  ASSUME NEW b, NEW c, NEW d, NEW G, NEW H, NEW how \in {"plain", "if"},
         Grown(b, c, G, how), Grown(c, d, H, how), G \subseteq StepIDs, H \subseteq StepIDs
  PROVE Grown(b, d, G \cup H, how)
<1> DEFINE GH == G \cup H
<1>1. /\ d \in Builders /\ d.config = b.config /\ d.lastStepIDs = b.lastStepIDs
      /\ d.graph.nodes = b.graph.nodes \cup GH /\ IsFiniteSet(d.graph.nodes)
  BY DEF Grown
<1>2. \A s \in StepIDs : d.registered[s] =
        IF s \in GH /\ b.registered[s] = "no" THEN how ELSE b.registered[s]
  BY DEF Grown
<1>3. ASSUME NEW s \in StepIDs
      PROVE Successors(d.graph, s) =
              Successors(b.graph, s) \cup (IF s \in ToSet(b.lastStepIDs) THEN GH ELSE {})
  BY DEF Grown
<1>4. \A s \in StepIDs \ GH : d.graph.previous[s] = b.graph.previous[s]
  BY DEF Grown
<1>5. ASSUME NEW s \in GH
      PROVE /\ ToSet(d.graph.previous[s])
                   = ToSet(b.graph.previous[s]) \cup ToSet(b.lastStepIDs)
            /\ b.graph.previous[s] # <<>> =>
                 /\ d.graph.previous[s] # <<>>
                 /\ Head(d.graph.previous[s]) = Head(b.graph.previous[s])
            /\ b.graph.previous[s] = <<>> /\ b.lastStepIDs # <<>> =>
                 /\ d.graph.previous[s] # <<>>
                 /\ Head(d.graph.previous[s]) = Head(b.lastStepIDs)
  <2>1. CASE s \in G /\ s \in H
    BY <2>1 DEF Grown
  <2>2. CASE s \in G /\ s \notin H
    <3>1. d.graph.previous[s] = c.graph.previous[s]
      BY <2>2 DEF Grown
    <3> QED BY <2>2, <3>1 DEF Grown
  <2>3. CASE s \notin G /\ s \in H
    <3>1. c.graph.previous[s] = b.graph.previous[s] /\ c.lastStepIDs = b.lastStepIDs
      BY <2>3 DEF Grown
    <3> QED BY <2>3, <3>1 DEF Grown
  <2> QED BY <2>1, <2>2, <2>3
<1> HIDE DEF GH
<1>6. Grown(b, d, GH, how)
  BY <1>1, <1>2, <1>3, <1>4, <1>5 DEF Grown
<1> QED BY <1>6 DEF GH

\* c is b after a call that added the steps ss.
Called(b, c, ss, how) ==
  \E d : Grown(b, d, ToSet(ss), how) /\ c = [d EXCEPT !.lastStepIDs = ss]

LEMMA ThenStepCalled ==
  ASSUME NEW b, Sane(b), NEW s \in StepIDs, NEW how \in {"plain", "if"}
  PROVE Called(b, ThenStep(b, s, how), <<s>>, how)
<1> DEFINE d == Chain(b, s, how)
<1>1. Grown(b, d, {s}, how)
  BY ChainGrows
<1>2. ToSet(<<s>>) = {s}
  BY DEF ToSet
<1>3. ThenStep(b, s, how) = [d EXCEPT !.lastStepIDs = <<s>>]
  BY DEF ThenStep
<1> HIDE DEF d
<1> QED BY <1>1, <1>2, <1>3 DEF Called

\* The loop of Parallel.
ChainedTo(b, ss) ==
  LET f[x \in SUBSET DOMAIN ss] ==
        IF x = {} THEN b ELSE Chain(f[x \ {Max(x)}], ss[Max(x)], "plain")
  IN f[DOMAIN ss]

LEMMA ParallelIs ==
  ASSUME NEW b, NEW ss
  PROVE Parallel(b, ss) = [ChainedTo(b, ss) EXCEPT !.lastStepIDs = ss]
BY Zenon DEF FoldLeft, MapThenFoldSet, Parallel, ChainedTo

\* The builders on the way, one step more each.
LEMMA ChainsByStep ==
  ASSUME NEW b, Sane(b), NEW ss \in Seq(StepIDs)
  PROVE \E f : /\ f[0] = b /\ f[Len(ss)] = ChainedTo(b, ss)
               /\ \A k \in 1 .. Len(ss) : f[k] = Chain(f[k - 1], ss[k], "plain")
<1> DEFINE n == Len(ss)
           S == {c \in Builders : Sane(c)}
           Step(f) == [x \in SUBSET DOMAIN ss |->
                         IF x = {} THEN b
                         ELSE Chain(f[x \ {Max(x)}], ss[Max(x)], "plain")]
           fold == CHOOSE f : f = Step(f)
<1>1. n \in Nat /\ DOMAIN ss = 1 .. n
  OBVIOUS
<1>2. ASSUME NEW i \in 1 .. n, NEW h \in S PROVE Chain(h, ss[i], "plain") \in S
  <2>1. ss[i] \in StepIDs /\ Sane(h)
    BY <1>1
  <2>2. Sane(Chain(h, ss[i], "plain"))
    BY <2>1, ChainGrows, GrownIsSane
  <2> QED BY <2>2 DEF Sane
<1>3. b \in S
  BY DEF Sane
<1> HIDE DEF n, S
<1>4. \E f : f = Step(f)
  <2> DEFINE G == [i \in 1 .. n |-> [h \in S |-> Chain(h, ss[i], "plain")]]
  <2>1. G \in [1 .. n -> [S -> S]]
    BY <1>2
  <2>2. PICK f : Folds(f, S, b, n, G)
    <3> HIDE DEF G
    <3> QED BY <1>1, <1>3, <2>1, FoldExists
  <2>3. ASSUME NEW x \in SUBSET (1 .. n) PROVE f[x] = Step(f)[x]
    <3>1. CASE x = {}
      BY <1>1, <2>2, <3>1 DEF Folds
    <3>2. CASE x # {}
      <4>1. Max(x) \in 1 .. n /\ f[x \ {Max(x)}] \in S
        BY <1>1, <2>2, <3>2, LargestPosition DEF Folds
      <4> QED BY <1>1, <2>2, <3>2, <4>1 DEF Folds
    <3> QED BY <3>1, <3>2
  <2>4. f = Step(f)
    <3>1. Step(f) = [x \in SUBSET (1 .. n) |-> Step(f)[x]]
      BY <1>1
    <3> HIDE DEF Step
    <3> QED BY <2>2, <2>3, <3>1 DEF Folds
  <2> QED BY <2>4
<1>5. fold = Step(fold)
  <2> HIDE DEF Step
  <2> QED BY <1>4
<1>6. ChainedTo(b, ss) = fold[1 .. n]
  BY <1>1 DEF ChainedTo
<1> HIDE DEF fold
<1> DEFINE f == [k \in 0 .. n |-> fold[1 .. k]]
<1>7. f[0] = b /\ f[n] = fold[1 .. n]
  <2>1. fold[{}] = b
    BY <1>5
  <2>2. 1 .. 0 = {} /\ f[0] = fold[1 .. 0] /\ f[n] = fold[1 .. n]
    BY <1>1
  <2> QED BY <2>1, <2>2
<1>8. ASSUME NEW k \in 1 .. n PROVE f[k] = Chain(f[k - 1], ss[k], "plain")
  <2>1. /\ 1 .. k \in SUBSET (1 .. n) /\ 1 .. k # {}
        /\ Max(1 .. k) = k /\ (1 .. k) \ {k} = 1 .. (k - 1)
    BY <1>1, Initial
  <2>2. fold[1 .. k] = Chain(fold[(1 .. k) \ {Max(1 .. k)}], ss[Max(1 .. k)], "plain")
    BY <1>1, <1>5, <2>1
  <2>3. f[k] = fold[1 .. k] /\ f[k - 1] = fold[1 .. (k - 1)]
    BY <1>1
  <2> QED BY <2>1, <2>2, <2>3
<1> HIDE DEF f
<1>9. f[0] = b /\ f[Len(ss)] = ChainedTo(b, ss)
  BY <1>6, <1>7 DEF n
<1>10. \A k \in 1 .. Len(ss) : f[k] = Chain(f[k - 1], ss[k], "plain")
  BY <1>8 DEF n
<1> QED BY <1>9, <1>10

LEMMA ParallelCalled ==
  ASSUME NEW b, Sane(b), NEW ss \in Seq(StepIDs)
  PROVE Called(b, Parallel(b, ss), ss, "plain")
<1>1. PICK f : /\ f[0] = b /\ f[Len(ss)] = ChainedTo(b, ss)
               /\ \A k \in 1 .. Len(ss) : f[k] = Chain(f[k - 1], ss[k], "plain")
  BY ChainsByStep
<1> DEFINE n == Len(ss)
           Upto(k) == {ss[i] : i \in 1 .. k}
           T == {k \in 0 .. n : Grown(b, f[k], Upto(k), "plain")}
<1>2. /\ n \in Nat /\ n \in 0 .. n /\ 0 \in 0 .. n /\ Upto(0) = {}
      /\ \A k \in 0 .. n : Upto(k) \subseteq StepIDs
  OBVIOUS
<1>3. 0 \in T
  BY <1>1, <1>2, GrowNothing
<1>4. ASSUME NEW k \in 0 .. n, k \in T, k < n PROVE k + 1 \in T
  <2>1. /\ k + 1 \in 1 .. n /\ (k + 1) - 1 = k /\ k + 1 \in 0 .. n /\ ss[k + 1] \in StepIDs
        /\ Upto(k + 1) = Upto(k) \cup {ss[k + 1]}
    BY <1>2, <1>4
  <2>2. Grown(b, f[k], Upto(k), "plain") /\ f[k + 1] = Chain(f[k], ss[k + 1], "plain")
    BY <1>1, <1>4, <2>1
  <2>3. Upto(k) \subseteq StepIDs
    BY <1>2
  <2> HIDE DEF Upto
  <2>4. Sane(f[k])
    BY <2>2, <2>3, GrownIsSane
  <2>5. Grown(f[k], f[k + 1], {ss[k + 1]}, "plain")
    BY <2>1, <2>2, <2>4, ChainGrows
  <2>6. Grown(b, f[k + 1], Upto(k) \cup {ss[k + 1]}, "plain")
    <3>1. {ss[k + 1]} \subseteq StepIDs
      BY <2>1
    <3> QED BY <2>2, <2>3, <2>5, <3>1, GrowMore
  <2>7. Grown(b, f[k + 1], Upto(k + 1), "plain")
    BY <2>1, <2>6
  <2> QED BY <2>1, <2>7
<1>5. Upto(n) = ToSet(ss)
  BY DEF ToSet
<1> HIDE DEF T, n, Upto
<1>6. n \in T
  BY <1>2, <1>3, <1>4, Upwards
<1>7. Grown(b, ChainedTo(b, ss), ToSet(ss), "plain")
  BY <1>1, <1>5, <1>6 DEF T, n
<1> QED BY <1>7, ParallelIs DEF Called

\* What a call leaves of a builder.
LEMMA CalledFields ==
  ASSUME NEW b, Sane(b), NEW ss \in Seq(StepIDs), NEW how \in {"plain", "if"},
         NEW c, Called(b, c, ss, how)
  PROVE /\ Sane(c) /\ c.config = b.config /\ c.lastStepIDs = ss
        /\ \E d : /\ Grown(b, d, ToSet(ss), how)
                 /\ c.graph = d.graph /\ c.registered = d.registered
<1>1. PICK d : Grown(b, d, ToSet(ss), how) /\ c = [d EXCEPT !.lastStepIDs = ss]
  BY DEF Called
<1>2. ToSet(ss) \subseteq StepIDs
  BY SetOfSequence
<1>3. Sane(d) /\ d \in Builders /\ d.config = b.config
      /\ d.graph.nodes = b.graph.nodes \cup ToSet(ss)
  <2>1. Sane(d)
    BY <1>1, <1>2, GrownIsSane
  <2> QED BY <1>1, <2>1 DEF Grown
<1>4. /\ c \in Builders /\ c.graph = d.graph /\ c.registered = d.registered
      /\ c.config = d.config /\ c.lastStepIDs = ss
  BY <1>1, <1>3 DEF Builders
<1>5. ss \in Seq(c.graph.nodes)
  <2>1. \A i \in 1 .. Len(ss) : ss[i] \in ToSet(ss)
    BY SetOfSequence
  <2> QED BY <1>3, <1>4, <2>1
<1>6. Sane(c)
  BY <1>3, <1>4, <1>5 DEF Sane
<1> QED BY <1>1, <1>3, <1>4, <1>6

\* The loop of Sequence.
Chained(b, ss) ==
  LET f[x \in SUBSET DOMAIN ss] ==
        IF x = {} THEN b ELSE ThenStep(f[x \ {Max(x)}], ss[Max(x)], "plain")
  IN f[DOMAIN ss]

LEMMA SequenceIs ==
  ASSUME NEW b, NEW ss
  PROVE Sequence(b, ss) = Chained(b, ss)
BY Zenon DEF FoldLeft, MapThenFoldSet, Sequence, Chained

\* The builders on the way, one call more each.
LEMMA CallsByStep ==
  ASSUME NEW b, Sane(b), NEW ss \in Seq(StepIDs)
  PROVE \E f : /\ f[0] = b /\ f[Len(ss)] = Chained(b, ss)
               /\ \A k \in 1 .. Len(ss) : f[k] = ThenStep(f[k - 1], ss[k], "plain")
<1> DEFINE n == Len(ss)
           S == {c \in Builders : Sane(c)}
           Step(f) == [x \in SUBSET DOMAIN ss |->
                         IF x = {} THEN b
                         ELSE ThenStep(f[x \ {Max(x)}], ss[Max(x)], "plain")]
           fold == CHOOSE f : f = Step(f)
<1>1. n \in Nat /\ DOMAIN ss = 1 .. n
  OBVIOUS
<1>2. ASSUME NEW i \in 1 .. n, NEW h \in S PROVE ThenStep(h, ss[i], "plain") \in S
  <2>1. ss[i] \in StepIDs /\ Sane(h) /\ <<ss[i]>> \in Seq(StepIDs)
    BY <1>1
  <2>2. Sane(ThenStep(h, ss[i], "plain"))
    BY <2>1, ThenStepCalled, CalledFields
  <2> QED BY <2>2 DEF Sane
<1>3. b \in S
  BY DEF Sane
<1> HIDE DEF n, S
<1>4. \E f : f = Step(f)
  <2> DEFINE G == [i \in 1 .. n |-> [h \in S |-> ThenStep(h, ss[i], "plain")]]
  <2>1. G \in [1 .. n -> [S -> S]]
    BY <1>2
  <2>2. PICK f : Folds(f, S, b, n, G)
    <3> HIDE DEF G
    <3> QED BY <1>1, <1>3, <2>1, FoldExists
  <2>3. ASSUME NEW x \in SUBSET (1 .. n) PROVE f[x] = Step(f)[x]
    <3>1. CASE x = {}
      BY <1>1, <2>2, <3>1 DEF Folds
    <3>2. CASE x # {}
      <4>1. Max(x) \in 1 .. n /\ f[x \ {Max(x)}] \in S
        BY <1>1, <2>2, <3>2, LargestPosition DEF Folds
      <4> QED BY <1>1, <2>2, <3>2, <4>1 DEF Folds
    <3> QED BY <3>1, <3>2
  <2>4. f = Step(f)
    <3>1. Step(f) = [x \in SUBSET (1 .. n) |-> Step(f)[x]]
      BY <1>1
    <3> HIDE DEF Step
    <3> QED BY <2>2, <2>3, <3>1 DEF Folds
  <2> QED BY <2>4
<1>5. fold = Step(fold)
  <2> HIDE DEF Step
  <2> QED BY <1>4
<1>6. Chained(b, ss) = fold[1 .. n]
  BY <1>1 DEF Chained
<1> HIDE DEF fold
<1> DEFINE f == [k \in 0 .. n |-> fold[1 .. k]]
<1>7. f[0] = b /\ f[n] = fold[1 .. n]
  <2>1. fold[{}] = b
    BY <1>5
  <2>2. 1 .. 0 = {} /\ f[0] = fold[1 .. 0] /\ f[n] = fold[1 .. n]
    BY <1>1
  <2> QED BY <2>1, <2>2
<1>8. ASSUME NEW k \in 1 .. n PROVE f[k] = ThenStep(f[k - 1], ss[k], "plain")
  <2>1. /\ 1 .. k \in SUBSET (1 .. n) /\ 1 .. k # {}
        /\ Max(1 .. k) = k /\ (1 .. k) \ {k} = 1 .. (k - 1)
    BY <1>1, Initial
  <2>2. fold[1 .. k] = ThenStep(fold[(1 .. k) \ {Max(1 .. k)}], ss[Max(1 .. k)], "plain")
    BY <1>1, <1>5, <2>1
  <2>3. f[k] = fold[1 .. k] /\ f[k - 1] = fold[1 .. (k - 1)]
    BY <1>1
  <2> QED BY <2>1, <2>2, <2>3
<1> HIDE DEF f
<1>9. f[0] = b /\ f[Len(ss)] = Chained(b, ss)
  BY <1>6, <1>7 DEF n
<1>10. \A k \in 1 .. Len(ss) : f[k] = ThenStep(f[k - 1], ss[k], "plain")
  BY <1>8 DEF n
<1> QED BY <1>9, <1>10

-----------------------------------------------------------------------------
(* A sequence of calls.                                                     *)

Members(gs) == UNION {ToSet(gs[i]) : i \in DOMAIN gs}
Linked(gs, s, t) ==
  \E i \in 1 .. Len(gs) - 1 : s \in ToSet(gs[i]) /\ t \in ToSet(gs[i + 1])
Repeated(gs, s) ==
  \E i, j \in DOMAIN gs : i # j /\ s \in ToSet(gs[i]) /\ s \in ToSet(gs[j])

\* b is what the calls that added gs built: its edges lead from each call to
\* the next.  A step of one call only has the first step of the call before
\* as its first predecessor, and a step is wrapped if the call that registered
\* it is one of gd.
FirstIn(gs, i, s) == s \in ToSet(gs[i]) /\ \A j \in 1 .. i - 1 : s \notin ToSet(gs[j])
Grouped(b, gs, gd) ==
  /\ Sane(b) /\ gs \in Seq(Seq(StepIDs)) /\ gd \subseteq DOMAIN gs
  /\ b.graph.nodes = Members(gs)
  /\ b.lastStepIDs = IF gs = <<>> THEN <<>> ELSE gs[Len(gs)]
  /\ \A s, t \in StepIDs : t \in Successors(b.graph, s) <=> Linked(gs, s, t)
  /\ \A s \in StepIDs : s \notin Members(gs) => b.graph.previous[s] = <<>>
  /\ \A i \in 2 .. Len(gs) : \A s \in ToSet(gs[i]) :
       ~Repeated(gs, s) /\ gs[i - 1] # <<>> =>
         /\ b.graph.previous[s] # <<>>
         /\ Head(b.graph.previous[s]) = Head(gs[i - 1])
  /\ \A i \in DOMAIN gs : \A s \in StepIDs :
       FirstIn(gs, i, s) => (b.registered[s] = "if" <=> i \in gd)

\* more is gs and one more call.
OneMore(gs, ss, more) ==
  /\ more \in Seq(Seq(StepIDs)) /\ more # <<>>
  /\ Len(gs) \in Nat /\ Len(more) = Len(gs) + 1
  /\ DOMAIN gs = 1 .. Len(gs) /\ DOMAIN more = 1 .. Len(gs) + 1
  /\ more[Len(gs) + 1] = ss /\ \A i \in 1 .. Len(gs) : more[i] = gs[i]
  /\ Members(more) = Members(gs) \cup ToSet(ss)
  /\ \A s, t : Linked(more, s, t) <=>
       \/ Linked(gs, s, t)
       \/ gs # <<>> /\ s \in ToSet(gs[Len(gs)]) /\ t \in ToSet(ss)
  /\ \A s : Repeated(more, s) <=>
       Repeated(gs, s) \/ (s \in Members(gs) /\ s \in ToSet(ss))

LEMMA OneMoreGroup ==
  ASSUME NEW gs \in Seq(Seq(StepIDs)), NEW ss \in Seq(StepIDs)
  PROVE OneMore(gs, ss, Append(gs, ss))
<1> DEFINE n == Len(gs)
           more == Append(gs, ss)
<1>1. /\ more \in Seq(Seq(StepIDs)) /\ more # <<>> /\ n \in Nat /\ Len(more) = n + 1
      /\ DOMAIN gs = 1 .. n /\ DOMAIN more = 1 .. n + 1
      /\ more[n + 1] = ss /\ \A i \in 1 .. n : more[i] = gs[i]
  BY AppendFacts
<1>2. gs # <<>> <=> n > 0
  BY <1>1
<1> HIDE DEF n, more
<1>3. Members(more) = Members(gs) \cup ToSet(ss)
  <2>1. ASSUME NEW s PROVE s \in Members(more) <=> s \in Members(gs) \/ s \in ToSet(ss)
    <3>1. s \in Members(more) <=> \E i \in 1 .. n + 1 : s \in ToSet(more[i])
      BY <1>1 DEF Members
    <3>2. s \in Members(gs) <=> \E i \in 1 .. n : s \in ToSet(gs[i])
      BY <1>1 DEF Members
    <3>3. (\E i \in 1 .. n + 1 : s \in ToSet(more[i]))
            <=> s \in ToSet(more[n + 1]) \/ \E i \in 1 .. n : s \in ToSet(more[i])
      BY <1>1
    <3> QED BY <1>1, <3>1, <3>2, <3>3
  <2> QED BY <2>1
<1>4. ASSUME NEW s, NEW t
      PROVE Linked(more, s, t) <=>
              \/ Linked(gs, s, t)
              \/ gs # <<>> /\ s \in ToSet(gs[n]) /\ t \in ToSet(ss)
  <2>1. Linked(more, s, t) <=> \E i \in 1 .. n : s \in ToSet(more[i]) /\ t \in ToSet(more[i + 1])
    <3>1. Len(more) - 1 = n
      BY <1>1
    <3> QED BY <3>1 DEF Linked
  <2>2. Linked(gs, s, t) <=> \E i \in 1 .. n - 1 : s \in ToSet(gs[i]) /\ t \in ToSet(gs[i + 1])
    BY <1>1 DEF Linked, n
  <2>3. \A i \in 1 .. n : i # n => i \in 1 .. n - 1 /\ i + 1 \in 1 .. n /\ i \in 1 .. n
    BY <1>1
  <2>4. \A i \in 1 .. n - 1 : i \in 1 .. n /\ i + 1 \in 1 .. n
    BY <1>1
  <2>5. gs # <<>> <=> n \in 1 .. n
    BY <1>1, <1>2
  <2> QED BY <1>1, <2>1, <2>2, <2>3, <2>4, <2>5
<1>5. ASSUME NEW s
      PROVE Repeated(more, s) <=> Repeated(gs, s) \/ (s \in Members(gs) /\ s \in ToSet(ss))
  <2>1. s \in Members(gs) <=> \E i \in 1 .. n : s \in ToSet(gs[i])
    BY <1>1 DEF Members
  <2>2. Repeated(gs, s) <=>
          \E i, j \in 1 .. n : i # j /\ s \in ToSet(gs[i]) /\ s \in ToSet(gs[j])
    BY <1>1 DEF Repeated
  <2>3. Repeated(more, s) <=>
          \E i, j \in 1 .. n + 1 : i # j /\ s \in ToSet(more[i]) /\ s \in ToSet(more[j])
    BY <1>1 DEF Repeated
  <2>4. /\ n + 1 \in 1 .. n + 1 /\ n + 1 \notin 1 .. n
        /\ \A i \in 1 .. n + 1 : i \in 1 .. n \/ i = n + 1
        /\ \A i \in 1 .. n : i \in 1 .. n + 1 /\ i # n + 1
    BY <1>1
  <2>5. ASSUME Repeated(gs, s) \/ (s \in Members(gs) /\ s \in ToSet(ss)) PROVE Repeated(more, s)
    BY <1>1, <2>1, <2>2, <2>3, <2>4, <2>5
  <2>6. ASSUME Repeated(more, s) PROVE Repeated(gs, s) \/ (s \in Members(gs) /\ s \in ToSet(ss))
    <3>1. PICK i \in 1 .. n + 1, j \in 1 .. n + 1 :
            i # j /\ s \in ToSet(more[i]) /\ s \in ToSet(more[j])
      BY <2>3, <2>6
    <3>2. CASE i = n + 1
      BY <1>1, <2>1, <2>4, <3>1, <3>2
    <3>3. CASE j = n + 1
      BY <1>1, <2>1, <2>4, <3>1, <3>3
    <3>4. CASE i # n + 1 /\ j # n + 1
      BY <1>1, <2>2, <2>4, <3>1, <3>4
    <3> QED BY <3>2, <3>3, <3>4
  <2> QED BY <2>5, <2>6
<1>6. OneMore(gs, ss, more)
  BY <1>1, <1>3, <1>4, <1>5 DEF n, OneMore
<1> QED BY <1>6 DEF more

LEMMA CallKeepsGrouped ==
  ASSUME NEW b, NEW gs, NEW gd, Grouped(b, gs, gd),
         NEW ss \in Seq(StepIDs), NEW how \in {"plain", "if"},
         NEW given, given = IF how = "if" THEN {Len(gs) + 1} ELSE {},
         NEW c, Called(b, c, ss, how)
  PROVE Grouped(c, Append(gs, ss), gd \cup given)
<1> DEFINE more == Append(gs, ss)
           n == Len(gs)
           G == ToSet(ss)
<1>1. /\ Sane(b) /\ gs \in Seq(Seq(StepIDs)) /\ gd \subseteq DOMAIN gs
      /\ b.graph.nodes = Members(gs)
      /\ b.lastStepIDs = IF gs = <<>> THEN <<>> ELSE gs[n]
  BY DEF Grouped
<1>2. /\ more \in Seq(Seq(StepIDs)) /\ more # <<>>
      /\ n \in Nat /\ Len(more) = n + 1
      /\ DOMAIN gs = 1 .. n /\ DOMAIN more = 1 .. n + 1
      /\ more[n + 1] = ss /\ \A i \in 1 .. n : more[i] = gs[i]
      /\ Members(more) = Members(gs) \cup G
  BY <1>1, OneMoreGroup DEF OneMore
<1>3. \A s, t : Linked(more, s, t) <=>
        \/ Linked(gs, s, t)
        \/ gs # <<>> /\ s \in ToSet(gs[n]) /\ t \in G
  BY <1>1, OneMoreGroup DEF OneMore
<1>4. \A s : Repeated(more, s) <=> Repeated(gs, s) \/ (s \in Members(gs) /\ s \in G)
  BY <1>1, OneMoreGroup DEF OneMore
<1>5. /\ Sane(c) /\ c.config = b.config /\ c.lastStepIDs = ss
      /\ \E d : /\ Grown(b, d, G, how)
               /\ c.graph = d.graph /\ c.registered = d.registered
  BY <1>1, CalledFields
<1>6. G \subseteq StepIDs /\ given = IF how = "if" THEN {n + 1} ELSE {}
  BY SetOfSequence
<1> HIDE DEF more, n, G
<1>7. /\ c.graph.nodes = b.graph.nodes \cup G
      /\ \A s \in StepIDs : c.registered[s] =
           IF s \in G /\ b.registered[s] = "no" THEN how ELSE b.registered[s]
      /\ \A s \in StepIDs : Successors(c.graph, s) =
           Successors(b.graph, s) \cup (IF s \in ToSet(b.lastStepIDs) THEN G ELSE {})
      /\ \A s \in StepIDs \ G : c.graph.previous[s] = b.graph.previous[s]
  BY <1>5 DEF Grown, Successors
<1>8. \A s \in G : b.graph.previous[s] = <<>> /\ b.lastStepIDs # <<>> =>
        /\ c.graph.previous[s] # <<>>
        /\ Head(c.graph.previous[s]) = Head(b.lastStepIDs)
  BY <1>5 DEF Grown
<1>9. c.lastStepIDs = IF more = <<>> THEN <<>> ELSE more[Len(more)]
  BY <1>2, <1>5
<1>10. ASSUME NEW s \in StepIDs, NEW t \in StepIDs
       PROVE t \in Successors(c.graph, s) <=> Linked(more, s, t)
  <2>1. t \in Successors(b.graph, s) <=> Linked(gs, s, t)
    BY DEF Grouped
  <2>2. s \in ToSet(b.lastStepIDs) <=> gs # <<>> /\ s \in ToSet(gs[n])
    <3>1. ToSet(<<>>) = {}
      BY DEF ToSet
    <3> QED BY <1>1, <3>1
  <2> QED BY <1>3, <1>7, <2>1, <2>2
<1>11. ASSUME NEW s \in StepIDs, s \notin Members(more) PROVE c.graph.previous[s] = <<>>
  BY <1>2, <1>7, <1>11 DEF Grouped
<1>12. ASSUME NEW i \in 2 .. Len(more), NEW s \in ToSet(more[i]),
              ~Repeated(more, s), more[i - 1] # <<>>
       PROVE /\ c.graph.previous[s] # <<>>
             /\ Head(c.graph.previous[s]) = Head(more[i - 1])
  <2>1. CASE i = n + 1
    <3>1. more[i] = ss /\ i - 1 = n /\ n \in 1 .. n /\ gs # <<>> /\ more[i - 1] = gs[n]
      <4>1. more[i] = ss /\ i - 1 = n /\ n \in 1 .. n /\ more[i - 1] = gs[n]
        BY <1>2, <2>1
      <4>2. gs # <<>>
        BY <4>1 DEF n
      <4> QED BY <4>1, <4>2
    <3>2. s \in G /\ s \notin Members(gs) /\ s \in StepIDs
      BY <1>4, <1>6, <1>12, <3>1 DEF G
    <3>3. b.graph.previous[s] = <<>> /\ b.lastStepIDs = gs[n]
      BY <1>1, <3>1, <3>2 DEF Grouped
    <3> QED BY <1>8, <1>12, <3>1, <3>2, <3>3
  <2>2. CASE i # n + 1
    <3>1. i \in 2 .. n /\ i \in 1 .. n /\ i - 1 \in 1 .. n
      BY <1>2, <2>2
    <3>2. more[i] = gs[i] /\ more[i - 1] = gs[i - 1] /\ s \in ToSet(gs[i])
      BY <1>2, <1>12, <3>1
    <3>3. s \in Members(gs)
      BY <1>2, <3>1, <3>2 DEF Members
    <3>4. s \notin G /\ ~Repeated(gs, s)
      BY <1>4, <1>12, <3>3
    <3>5. s \in StepIDs
      BY <1>1, <3>3, BuilderFields DEF Sane
    <3>6. c.graph.previous[s] = b.graph.previous[s]
      BY <1>7, <3>4, <3>5
    <3>7. /\ b.graph.previous[s] # <<>>
          /\ Head(b.graph.previous[s]) = Head(gs[i - 1])
      BY <1>12, <3>1, <3>2, <3>4 DEF Grouped, n
    <3> QED BY <3>2, <3>6, <3>7
  <2> QED BY <2>1, <2>2
<1>13. ASSUME NEW i \in DOMAIN more, NEW s \in StepIDs, FirstIn(more, i, s)
       PROVE c.registered[s] = "if" <=> i \in gd \cup given
  <2>1. \A j \in 1 .. n : j # n + 1 /\ j \in 1 .. n + 1
    BY <1>2
  <2>2. s \in Members(gs) <=> b.registered[s] # "no"
    BY <1>1 DEF Sane
  <2>3. CASE i = n + 1
    <3>1. s \in G /\ \A j \in 1 .. n : s \notin ToSet(gs[j])
      <4>1. i - 1 = n
        BY <1>2, <2>3
      <4> QED BY <1>2, <1>13, <2>3, <4>1 DEF FirstIn, G
    <3>2. s \notin Members(gs)
      BY <1>2, <3>1 DEF Members
    <3>3. c.registered[s] = how
      BY <1>7, <2>2, <3>1, <3>2
    <3>4. i \notin gd
      BY <1>1, <1>2, <2>1, <2>3
    <3> QED BY <1>6, <2>3, <3>3, <3>4
  <2>4. CASE i # n + 1
    <3>1. i \in 1 .. n /\ \A j \in 1 .. i - 1 : j \in 1 .. n
      BY <1>2, <2>4
    <3>2. FirstIn(gs, i, s)
      BY <1>2, <1>13, <3>1 DEF FirstIn
    <3>3. s \in Members(gs)
      BY <1>2, <3>1, <3>2 DEF Members, FirstIn
    <3>4. c.registered[s] = b.registered[s]
      BY <1>7, <2>2, <3>3
    <3>5. b.registered[s] = "if" <=> i \in gd
      BY <1>2, <3>1, <3>2 DEF Grouped
    <3> QED BY <1>6, <2>4, <3>4, <3>5
  <2> QED BY <2>3, <2>4
<1>14. c.graph.nodes = Members(more) /\ gd \cup given \subseteq DOMAIN more
  <2>1. gd \subseteq 1 .. n + 1 /\ {n + 1} \subseteq 1 .. n + 1
    BY <1>1, <1>2
  <2> QED BY <1>1, <1>2, <1>6, <1>7, <2>1
<1>15. Grouped(c, more, gd \cup given)
  BY <1>2, <1>5, <1>9, <1>10, <1>11, <1>12, <1>13, <1>14 DEF Grouped
<1> QED BY <1>15 DEF more
\* A builder at the start, and after one call.
LEMMA NewIsGrouped == Grouped(NewWorkflow, <<>>, {})
<1> DEFINE b == NewWorkflow
           g == NewExecutionGraph
<1>1. /\ g \in Graph /\ g.nodes = {} /\ \A s \in StepIDs : g.next[s] = <<>> /\ g.previous[s] = <<>>
  BY DEF NewExecutionGraph, Graph
<1>2. /\ b.graph = g /\ b.registered \in [StepIDs -> {"no", "plain", "if"}]
      /\ \A s \in StepIDs : b.registered[s] = "no"
      /\ b.lastStepIDs = <<>> /\ b.config \in Settings
  BY DEF NewWorkflow, Settings
<1> HIDE DEF b, g
<1>3. ToSet(<<>>) = {} /\ Len(<<>>) = 0 /\ DOMAIN <<>> = {}
  BY DEF ToSet
<1>4. Shape(g)
  BY <1>1, <1>3, FS_EmptySet DEF Shape
<1>5. b \in Builders
  <2>1. <<>> \in Seq(StepIDs) /\ DefaultExecutionConfig \in Settings
    BY DEF Settings
  <2>2. [s \in StepIDs |-> "no"] \in [StepIDs -> {"no", "plain", "if"}]
    OBVIOUS
  <2>3. b = [graph |-> g, registered |-> [s \in StepIDs |-> "no"],
             lastStepIDs |-> <<>>, config |-> DefaultExecutionConfig]
    BY DEF b, g, NewWorkflow
  <2> QED BY <1>1, <2>1, <2>2, <2>3 DEF Builders
<1>6. b.graph.nodes = {s \in StepIDs : b.registered[s] # "no"} /\ b.lastStepIDs \in Seq(b.graph.nodes)
  BY <1>1, <1>2
<1>7. Sane(b)
  <2>1. Mirrored(g)
    BY <1>1, <1>3 DEF Mirrored, Successors
  <2> QED BY <1>2, <1>4, <1>5, <1>6, <2>1 DEF Sane
<1>8. /\ Members(<<>>) = {} /\ \A s, t : ~Linked(<<>>, s, t)
  BY <1>3 DEF Members, Linked
<1>9. \A s \in StepIDs : Successors(g, s) = {}
  BY <1>1, <1>3 DEF Successors
<1>10. <<>> \in Seq(Seq(StepIDs)) /\ 2 .. 0 = {} /\ {} \subseteq DOMAIN <<>>
  OBVIOUS
<1>11. \A s, t \in StepIDs : t \in Successors(b.graph, s) <=> Linked(<<>>, s, t)
  BY <1>2, <1>8, <1>9
<1>12. \A i \in 2 .. Len(<<>>) : FALSE
  BY <1>3, <1>10
<1>13. Grouped(b, <<>>, {})
  BY <1>1, <1>2, <1>3, <1>7, <1>8, <1>10, <1>11, <1>12 DEF Grouped
<1> QED BY <1>13 DEF b

LEMMA OneCall ==
  ASSUME NEW b, NEW gs, NEW gd, Grouped(b, gs, gd),
         NEW ss \in Seq(StepIDs), NEW how \in {"plain", "if"},
         NEW given, given = IF how = "if" THEN {Len(gs) + 1} ELSE {},
         NEW c, Called(b, c, ss, how)
  PROVE Grouped(c, gs \o <<ss>>, gd \cup given)
<1>1. gs \in Seq(Seq(StepIDs))
  BY DEF Grouped
<1>2. gs \o <<ss>> = Append(gs, ss)
  BY <1>1
<1>3. Grouped(c, Append(gs, ss), gd \cup given)
  BY CallKeepsGrouped
<1> QED BY <1>2, <1>3

LEMMA SequenceKeepsGrouped ==
  ASSUME NEW b, NEW gs, NEW gd, Grouped(b, gs, gd), NEW ss \in Seq(StepIDs)
  PROVE Grouped(Sequence(b, ss), gs \o [i \in DOMAIN ss |-> <<ss[i]>>], gd)
<1> DEFINE n == Len(ss)
           Upto(k) == gs \o [i \in 1 .. k |-> <<ss[i]>>]
<1>1. Sane(b) /\ gs \in Seq(Seq(StepIDs))
  BY DEF Grouped
<1>2. PICK f : /\ f[0] = b /\ f[Len(ss)] = Chained(b, ss)
               /\ \A k \in 1 .. Len(ss) : f[k] = ThenStep(f[k - 1], ss[k], "plain")
  BY <1>1, CallsByStep
<1>3. n \in Nat /\ n \in 0 .. n /\ 0 \in 0 .. n /\ DOMAIN ss = 1 .. n
  OBVIOUS
<1>4. Upto(0) = gs
  BY <1>1
<1>5. ASSUME NEW k \in 0 .. n, k < n PROVE Upto(k + 1) = Append(Upto(k), <<ss[k + 1]>>)
  <2> DEFINE single(m) == [i \in 1 .. m |-> <<ss[i]>>]
  <2>1. k + 1 \in 1 .. n /\ k \in Nat /\ ss[k + 1] \in StepIDs /\ \A i \in 1 .. n : ss[i] \in StepIDs
    BY <1>3, <1>5
  <2>2. single(k) \in Seq(Seq(StepIDs)) /\ single(k + 1) = Append(single(k), <<ss[k + 1]>>)
    BY <2>1
  <2> HIDE DEF single
  <2>3. gs \o Append(single(k), <<ss[k + 1]>>) = Append(gs \o single(k), <<ss[k + 1]>>)
    BY <1>1, <2>1, <2>2
  <2> QED BY <2>2, <2>3 DEF single
<1> DEFINE T == {k \in 0 .. n : Grouped(f[k], Upto(k), gd)}
<1> HIDE DEF Upto
<1>6. 0 \in T
  BY <1>2, <1>3, <1>4
<1>7. ASSUME NEW k \in 0 .. n, k \in T, k < n PROVE k + 1 \in T
  <2>1. /\ k + 1 \in 1 .. n /\ (k + 1) - 1 = k /\ k + 1 \in 0 .. n /\ ss[k + 1] \in StepIDs
        /\ <<ss[k + 1]>> \in Seq(StepIDs)
    BY <1>3, <1>7
  <2>2. Grouped(f[k], Upto(k), gd) /\ f[k + 1] = ThenStep(f[k], ss[k + 1], "plain")
    BY <1>2, <1>7, <2>1
  <2>3. Sane(f[k])
    BY <2>2 DEF Grouped
  <2>4. Called(f[k], f[k + 1], <<ss[k + 1]>>, "plain")
    BY <2>1, <2>2, <2>3, ThenStepCalled
  <2>5. gd \cup {} = gd /\ "plain" # "if"
    OBVIOUS
  <2>6. Grouped(f[k + 1], Append(Upto(k), <<ss[k + 1]>>), gd \cup {})
    BY <2>1, <2>2, <2>4, <2>5, CallKeepsGrouped
  <2> QED BY <1>5, <1>7, <2>1, <2>5, <2>6
<1> HIDE DEF T, n
<1>8. n \in T
  BY <1>3, <1>6, <1>7, Upwards
<1>9. Grouped(Chained(b, ss), Upto(n), gd)
  BY <1>2, <1>8 DEF T, n
<1>10. Upto(n) = gs \o [i \in DOMAIN ss |-> <<ss[i]>>]
  BY <1>3 DEF Upto
<1> QED BY <1>9, <1>10, SequenceIs

\* The calls that add no step.
LEMMA EntryKeepsGrouped ==
  ASSUME NEW b, NEW gs, NEW gd, Grouped(b, gs, gd), NEW s \in StepIDs
  PROVE Grouped([b EXCEPT !.graph = SetEntryPoint(@, s)], gs, gd)
<1> DEFINE h == SetEntryPoint(b.graph, s)
           c == [b EXCEPT !.graph = h]
<1>1. Sane(b) /\ b \in Builders
  BY DEF Grouped, Sane
<1>2. /\ h \in Graph /\ h.nodes = b.graph.nodes /\ h.next = b.graph.next
      /\ h.previous = b.graph.previous
  BY <1>1, BuilderFields, SetEntryFields
<1> HIDE DEF h
<1>3. /\ c \in Builders /\ c.graph = h /\ c.registered = b.registered
      /\ c.lastStepIDs = b.lastStepIDs
  BY <1>1, <1>2 DEF Builders
<1>4. c = [b EXCEPT !.graph = SetEntryPoint(@, s)]
  BY <1>1 DEF h, Builders
<1> HIDE DEF c
<1>5. Sane(c)
  BY <1>1, <1>2, <1>3 DEF Sane, Shape, Mirrored, Successors
<1>6. \A t \in StepIDs : Successors(c.graph, t) = Successors(b.graph, t)
  BY <1>2, <1>3 DEF Successors
<1>7. Grouped(c, gs, gd)
  BY <1>2, <1>3, <1>5, <1>6 DEF Grouped
<1> QED BY <1>4, <1>7

LEMMA ConfigKeepsGrouped ==
  ASSUME NEW b, NEW gs, NEW gd, Grouped(b, gs, gd), NEW config \in Settings
  PROVE Grouped([b EXCEPT !.config = config], gs, gd)
<1> DEFINE c == [b EXCEPT !.config = config]
<1>1. Sane(b) /\ b \in Builders
  BY DEF Grouped, Sane
<1>2. /\ c \in Builders /\ c.graph = b.graph /\ c.registered = b.registered
      /\ c.lastStepIDs = b.lastStepIDs
  BY <1>1 DEF Builders
<1> HIDE DEF c
<1>3. Sane(c)
  BY <1>1, <1>2 DEF Sane
<1>4. Grouped(c, gs, gd)
  BY <1>2, <1>3 DEF Grouped
<1> QED BY <1>4 DEF c
-----------------------------------------------------------------------------
(* What Build accepts.                                                      *)

Filled(gs) == \A i \in DOMAIN gs : gs[i] # <<>>
Apart(gs) == \A i, j \in DOMAIN gs : i # j => ToSet(gs[i]) \cap ToSet(gs[j]) = {}
Acceptable(gs, entry) == gs # <<>> /\ ToSet(gs[1]) = {entry} /\ Apart(gs)

\* The call that added a step.
CallOf(gs, s) == CHOOSE i \in DOMAIN gs : s \in ToSet(gs[i])

LEMMA GroupFacts ==
  ASSUME NEW gs \in Seq(Seq(StepIDs)), Filled(gs)
  PROVE /\ Len(gs) \in Nat /\ DOMAIN gs = 1 .. Len(gs)
        /\ gs # <<>> <=> Len(gs) > 0
        /\ \A i \in 1 .. Len(gs) :
             Head(gs[i]) \in ToSet(gs[i]) /\ ToSet(gs[i]) \subseteq Members(gs)
        /\ \A s \in Members(gs) : \E i \in 1 .. Len(gs) : s \in ToSet(gs[i])
        /\ Members(gs) \subseteq StepIDs
<1>1. Len(gs) \in Nat /\ DOMAIN gs = 1 .. Len(gs) /\ (gs # <<>> <=> Len(gs) > 0)
  OBVIOUS
<1>2. ASSUME NEW i \in 1 .. Len(gs)
      PROVE /\ Head(gs[i]) \in ToSet(gs[i]) /\ ToSet(gs[i]) \subseteq Members(gs)
            /\ ToSet(gs[i]) \subseteq StepIDs
  <2>1. gs[i] \in Seq(StepIDs) /\ gs[i] # <<>>
    <3>1. gs[i] # <<>>
      BY <1>1 DEF Filled
    <3>2. \A S : gs \in Seq(S) => gs[i] \in S
      BY <1>1
    <3> QED BY <3>1, <3>2
  <2>2. Head(gs[i]) \in ToSet(gs[i]) /\ ToSet(gs[i]) \subseteq StepIDs
    BY <2>1, SetOfSequence
  <2> QED BY <1>1, <2>2 DEF Members
<1>3. \A s \in Members(gs) : \E i \in 1 .. Len(gs) : s \in ToSet(gs[i])
  BY <1>1 DEF Members
<1> QED BY <1>1, <1>2, <1>3

LEMMA CallFacts ==
  ASSUME NEW gs \in Seq(Seq(StepIDs)), Filled(gs), Apart(gs)
  PROVE /\ \A i \in 1 .. Len(gs) : \A s \in ToSet(gs[i]) : CallOf(gs, s) = i
        /\ \A s \in Members(gs) :
             CallOf(gs, s) \in 1 .. Len(gs) /\ s \in ToSet(gs[CallOf(gs, s)])
<1>1. Len(gs) \in Nat /\ DOMAIN gs = 1 .. Len(gs)
  BY GroupFacts
<1>2. ASSUME NEW i \in 1 .. Len(gs), NEW s \in ToSet(gs[i]) PROVE CallOf(gs, s) = i
  <2>1. CallOf(gs, s) \in DOMAIN gs /\ s \in ToSet(gs[CallOf(gs, s)])
    BY <1>1 DEF CallOf
  <2> QED BY <1>1, <2>1 DEF Apart
<1>3. ASSUME NEW s \in Members(gs)
      PROVE CallOf(gs, s) \in 1 .. Len(gs) /\ s \in ToSet(gs[CallOf(gs, s)])
  <2>1. PICK i \in 1 .. Len(gs) : s \in ToSet(gs[i])
    BY GroupFacts
  <2> QED BY <1>2, <2>1
<1> QED BY <1>2, <1>3

\* There are no more calls than steps.
LEMMA FewCalls ==
  ASSUME NEW gs \in Seq(Seq(StepIDs)), Filled(gs), Apart(gs), IsFiniteSet(Members(gs))
  PROVE Len(gs) <= Cardinality(Members(gs))
<1> DEFINE q == [i \in 1 .. Len(gs) |-> Head(gs[i])]
<1>1. Len(gs) \in Nat
  BY GroupFacts
<1>2. \A i \in 1 .. Len(gs) : Head(gs[i]) \in Members(gs) /\ CallOf(gs, Head(gs[i])) = i
  BY GroupFacts, CallFacts
<1>3. q \in Seq(Members(gs)) /\ Len(q) = Len(gs)
  BY <1>1, <1>2
<1>4. IsInjective(q)
  BY <1>2 DEF IsInjective
<1> HIDE DEF q
<1> QED BY <1>3, <1>4, LengthWithoutRepeats

\* Calls that Build accepts: the depth of a step is the number of its call.
DepthOf(gs) == [s \in Members(gs) |-> CallOf(gs, s) - 1]

LEMMA LinkedCalls ==
  ASSUME NEW gs \in Seq(Seq(StepIDs)), Filled(gs), Apart(gs), NEW s, NEW t, Linked(gs, s, t)
  PROVE /\ s \in Members(gs) /\ t \in Members(gs)
        /\ CallOf(gs, s) \in 1 .. Len(gs) - 1 /\ CallOf(gs, t) = CallOf(gs, s) + 1
<1>1. PICK i \in 1 .. Len(gs) - 1 : s \in ToSet(gs[i]) /\ t \in ToSet(gs[i + 1])
  BY DEF Linked
<1>2. Len(gs) \in Nat /\ i \in 1 .. Len(gs) /\ i + 1 \in 1 .. Len(gs)
  BY GroupFacts
<1>3. CallOf(gs, s) = i /\ CallOf(gs, t) = i + 1
  BY <1>1, <1>2, CallFacts
<1> QED BY <1>1, <1>2, <1>3, GroupFacts

LEMMA AcceptableIsSound ==
  ASSUME NEW b, NEW gs, NEW gd, Grouped(b, gs, gd), Filled(gs), Acceptable(gs, b.graph.entry)
  PROVE Sound(b.graph) /\ DepthOf(gs) \in Depths(b.graph)
<1> DEFINE g == b.graph
           n == Len(gs)
<1>1. /\ gs \in Seq(Seq(StepIDs)) /\ Shape(g) /\ g.nodes = Members(gs)
      /\ IsFiniteSet(g.nodes) /\ Members(gs) \subseteq StepIDs
      /\ \A s, t \in StepIDs : t \in Successors(g, s) <=> Linked(gs, s, t)
  BY GroupFacts DEF Grouped, Sane, Shape
<1>2. gs # <<>> /\ ToSet(gs[1]) = {g.entry} /\ Apart(gs)
  BY DEF Acceptable
<1>3. /\ n \in Nat \ {0} /\ 1 \in 1 .. n
      /\ \A i \in 1 .. n : Head(gs[i]) \in ToSet(gs[i]) /\ ToSet(gs[i]) \subseteq g.nodes
      /\ \A s \in g.nodes : \E i \in 1 .. n : s \in ToSet(gs[i])
  BY <1>1, <1>2, GroupFacts
<1>4. \A s \in g.nodes : CallOf(gs, s) \in 1 .. n /\ s \in ToSet(gs[CallOf(gs, s)])
  BY <1>1, <1>2, CallFacts
<1>5. \A i \in 1 .. n : \A s \in ToSet(gs[i]) : CallOf(gs, s) = i
  BY <1>1, <1>2, CallFacts
<1>6. \A s \in g.nodes : \A t \in Successors(g, s) :
        t \in g.nodes /\ CallOf(gs, t) = CallOf(gs, s) + 1
  <2> SUFFICES ASSUME NEW s \in g.nodes, NEW t \in Successors(g, s)
               PROVE t \in g.nodes /\ CallOf(gs, t) = CallOf(gs, s) + 1
    OBVIOUS
  <2>1. s \in StepIDs /\ t \in StepIDs
    BY <1>1, ShapeFacts
  <2> QED BY <1>1, <1>2, <2>1, LinkedCalls
<1>7. \A i \in 1 .. n - 1 : \A s \in ToSet(gs[i]) : \A t \in ToSet(gs[i + 1]) :
        s \in g.nodes /\ t \in g.nodes /\ t \in Successors(g, s)
  <2> SUFFICES ASSUME NEW i \in 1 .. n - 1, NEW s \in ToSet(gs[i]), NEW t \in ToSet(gs[i + 1])
               PROVE s \in g.nodes /\ t \in g.nodes /\ t \in Successors(g, s)
    OBVIOUS
  <2>1. i \in 1 .. n /\ i + 1 \in 1 .. n
    BY <1>3
  <2>2. s \in g.nodes /\ t \in g.nodes
    BY <1>3, <2>1
  <2>3. Linked(gs, s, t)
    BY DEF Linked
  <2> QED BY <1>1, <2>2, <2>3
<1>8. g.entry \in g.nodes /\ CallOf(gs, g.entry) = 1
  BY <1>2, <1>3, <1>5
<1>9. n <= Cardinality(g.nodes) /\ Cardinality(g.nodes) \in Nat
  BY <1>1, <1>2, FewCalls, FS_CardinalityType
<1> HIDE DEF n, g
<1>10. Ranks(g) # {}
  <2> DEFINE r == [s \in g.nodes |-> n - CallOf(gs, s) + 1]
  <2>1. r \in [g.nodes -> 1 .. Cardinality(g.nodes)]
    BY <1>3, <1>4, <1>9
  <2>2. ASSUME NEW s \in g.nodes, NEW t \in Successors(g, s) PROVE r[t] < r[s]
    BY <1>3, <1>4, <1>6
  <2> HIDE DEF r
  <2> QED BY <2>1, <2>2 DEF Ranks
<1>11. Reached(g)
  <2> SUFFICES ASSUME NEW C \in SUBSET g.nodes, Closed(g, C) PROVE C = g.nodes
    BY DEF Reached
  <2> DEFINE T == {k \in 0 .. n - 1 : ToSet(gs[k + 1]) \subseteq C}
  <2>1. n - 1 \in Nat /\ 0 \in 0 .. n - 1
    BY <1>3
  <2>2. 0 \in T
    BY <1>2, <2>1 DEF Closed, g
  <2>3. ASSUME NEW k \in 0 .. n - 1, k \in T, k < n - 1 PROVE k + 1 \in T
    <3>1. k + 1 \in 1 .. n - 1 /\ k + 1 \in 0 .. n - 1 /\ k + 1 \in 1 .. n
      BY <1>3, <2>3
    <3>2. Head(gs[k + 1]) \in ToSet(gs[k + 1]) /\ Head(gs[k + 1]) \in C
      BY <1>3, <2>3, <3>1
    <3>3. ToSet(gs[(k + 1) + 1]) \subseteq Successors(g, Head(gs[k + 1]))
      BY <1>7, <3>1, <3>2
    <3> QED BY <3>1, <3>2, <3>3 DEF Closed
  <2> HIDE DEF T
  <2>4. \A k \in 0 .. n - 1 : k \in T
    BY <2>1, <2>2, <2>3, Upwards
  <2>5. ASSUME NEW s \in g.nodes PROVE s \in C
    <3>1. PICK i \in 1 .. n : s \in ToSet(gs[i])
      BY <1>3
    <3>2. i - 1 \in 0 .. n - 1 /\ (i - 1) + 1 = i
      BY <1>3
    <3> QED BY <2>4, <3>1, <3>2 DEF T
  <2> QED BY <2>5
<1>12. DepthOf(gs) \in Depths(g)
  <2> DEFINE h == DepthOf(gs)
  <2>1. h = [s \in g.nodes |-> CallOf(gs, s) - 1]
    BY <1>1 DEF DepthOf, g
  <2> HIDE DEF h
  <2>2. h \in [g.nodes -> Nat] /\ h[g.entry] = 0
    BY <1>3, <1>4, <1>8, <2>1
  <2>3. \A s \in g.nodes : \A t \in Successors(g, s) : h[t] > h[s]
    BY <1>3, <1>4, <1>6, <2>1
  <2>4. ASSUME NEW t \in g.nodes \ {g.entry}
        PROVE \E s \in g.nodes : t \in Successors(g, s) /\ h[t] = h[s] + 1
    <3> DEFINE i == CallOf(gs, t)
    <3>1. i \in 1 .. n /\ t \in ToSet(gs[i])
      BY <1>4
    <3> HIDE DEF i
    <3>2. i # 1
      BY <1>2, <3>1 DEF g
    <3>3. i - 1 \in 1 .. n - 1 /\ i - 1 \in 1 .. n /\ (i - 1) + 1 = i
      BY <1>3, <3>1, <3>2
    <3>4. Head(gs[i - 1]) \in ToSet(gs[i - 1])
      BY <1>3, <3>3
    <3>5. Head(gs[i - 1]) \in g.nodes /\ t \in Successors(g, Head(gs[i - 1]))
      BY <1>7, <3>1, <3>3, <3>4
    <3>6. h[t] = i - 1 /\ h[Head(gs[i - 1])] = (i - 1) - 1
      BY <1>5, <2>1, <3>1, <3>3, <3>4, <3>5
    <3> QED BY <3>3, <3>5, <3>6
  <2>5. h \in Depths(g)
    BY <2>2, <2>3, <2>4 DEF Depths
  <2> QED BY <2>5 DEF h
<1>13. Sound(g)
  BY <1>8, <1>10, <1>11 DEF Sound
<1> QED BY <1>12, <1>13 DEF g
\* A step of two calls is on a cycle.
LEMMA SoundIsApart ==
  ASSUME NEW b, NEW gs, NEW gd, Grouped(b, gs, gd), Filled(gs), Sound(b.graph)
  PROVE Apart(gs)
<1> DEFINE g == b.graph
           n == Len(gs)
<1>1. /\ gs \in Seq(Seq(StepIDs)) /\ Shape(g) /\ g.nodes = Members(gs)
      /\ \A s, t \in StepIDs : t \in Successors(g, s) <=> Linked(gs, s, t)
  BY DEF Grouped, Sane
<1>2. /\ n \in Nat /\ DOMAIN gs = 1 .. n /\ Members(gs) \subseteq StepIDs
      /\ \A i \in 1 .. n : Head(gs[i]) \in ToSet(gs[i]) /\ ToSet(gs[i]) \subseteq g.nodes
  BY <1>1, GroupFacts
<1>3. PICK r \in Ranks(g) : TRUE
  BY DEF Sound
<1>4. /\ r \in [g.nodes -> 1 .. Cardinality(g.nodes)] /\ Cardinality(g.nodes) \in Nat
      /\ \A s \in g.nodes : r[s] \in Int
  <2>1. Cardinality(g.nodes) \in Nat
    BY <1>1, FS_CardinalityType DEF Shape
  <2> QED BY <1>3, <2>1 DEF Ranks
<1>5. ASSUME NEW i \in 1 .. n - 1, NEW s \in ToSet(gs[i]), NEW t \in ToSet(gs[i + 1])
      PROVE s \in g.nodes /\ t \in g.nodes /\ r[t] < r[s]
  <2>1. i \in 1 .. n /\ i + 1 \in 1 .. n
    BY <1>2
  <2>2. s \in g.nodes /\ t \in g.nodes
    BY <1>2, <2>1
  <2>3. Linked(gs, s, t)
    BY DEF Linked
  <2>4. t \in Successors(g, s)
    BY <1>1, <1>2, <2>2, <2>3
  <2> QED BY <1>3, <2>2, <2>4 DEF Ranks
<1> HIDE DEF g, n
<1>6. ASSUME NEW i \in 1 .. n, NEW j \in 1 .. n, i < j, NEW s \in ToSet(gs[i]), s \in ToSet(gs[j])
      PROVE FALSE
  <2> DEFINE m == j - i - 1
             T == {k \in 0 .. m : \A t \in ToSet(gs[i + 1 + k]) : t \in g.nodes /\ r[t] < r[s]}
  <2>1. /\ i \in Int /\ j \in Int /\ n \in Nat /\ 1 <= i /\ i + 1 <= j /\ j <= n
        /\ m \in Nat /\ m \in 0 .. m /\ 0 \in 0 .. m /\ i + 1 + m = j
        /\ i \in 1 .. n - 1 /\ i + 1 + 0 = i + 1 /\ s \in g.nodes
    BY <1>2, <1>6
  <2>2. 0 \in T
    BY <1>5, <2>1
  <2>3. ASSUME NEW k \in 0 .. m, k \in T, k < m PROVE k + 1 \in T
    <3> DEFINE l == i + 1 + k
    <3>1. /\ l \in 1 .. n - 1 /\ l \in 1 .. n /\ i + 1 + (k + 1) = l + 1 /\ k + 1 \in 0 .. m
      BY <2>1, <2>3
    <3>2. \A u \in ToSet(gs[l]) : u \in g.nodes /\ r[u] < r[s]
      BY <2>3
    <3> HIDE DEF l
    <3>3. Head(gs[l]) \in ToSet(gs[l])
      BY <1>2, <3>1
    <3>4. ASSUME NEW t \in ToSet(gs[l + 1]) PROVE t \in g.nodes /\ r[t] < r[s]
      <4>1. t \in g.nodes /\ r[t] < r[Head(gs[l])] /\ Head(gs[l]) \in g.nodes
        BY <1>5, <3>1, <3>3
      <4> QED BY <1>4, <2>1, <3>2, <3>3, <4>1
    <3> QED BY <3>1, <3>4
  <2> HIDE DEF T, m
  <2>4. m \in T
    BY <2>1, <2>2, <2>3, Upwards
  <2>5. r[s] < r[s] /\ r[s] \in Int
    BY <1>4, <1>6, <2>1, <2>4 DEF T
  <2> QED BY <2>5
<1>7. ASSUME NEW i \in DOMAIN gs, NEW j \in DOMAIN gs, i # j
      PROVE ToSet(gs[i]) \cap ToSet(gs[j]) = {}
  <2>1. i \in 1 .. n /\ j \in 1 .. n /\ (i < j \/ j < i)
    BY <1>2, <1>7
  <2> QED BY <1>6, <2>1
<1> QED BY <1>7 DEF Apart

LEMMA SoundIsAcceptable ==
  ASSUME NEW b, NEW gs, NEW gd, Grouped(b, gs, gd), Filled(gs), Sound(b.graph)
  PROVE Acceptable(gs, b.graph.entry)
<1> DEFINE g == b.graph
           n == Len(gs)
<1>1. /\ gs \in Seq(Seq(StepIDs)) /\ Shape(g) /\ g.nodes = Members(gs) /\ g.entry \in g.nodes
      /\ \A s, t \in StepIDs : t \in Successors(g, s) <=> Linked(gs, s, t)
  BY DEF Grouped, Sane, Sound
<1>2. /\ n \in Nat /\ DOMAIN gs = 1 .. n /\ Members(gs) \subseteq StepIDs
      /\ (gs # <<>> <=> n > 0)
      /\ \A i \in 1 .. n : Head(gs[i]) \in ToSet(gs[i]) /\ ToSet(gs[i]) \subseteq g.nodes
      /\ \A s \in g.nodes : \E i \in 1 .. n : s \in ToSet(gs[i])
  BY <1>1, GroupFacts
<1>3. Apart(gs)
  BY SoundIsApart
<1>4. \A i \in 1 .. n : \A s \in ToSet(gs[i]) : CallOf(gs, s) = i
  BY <1>1, <1>3, CallFacts
<1>5. PICK i \in 1 .. n : g.entry \in ToSet(gs[i])
  BY <1>1, <1>2
<1>6. i = 1
  <2> SUFFICES ASSUME i # 1 PROVE FALSE
    OBVIOUS
  <2>1. i - 1 \in 1 .. n - 1 /\ i - 1 \in 1 .. n /\ (i - 1) + 1 = i
    BY <1>2
  <2>2. Head(gs[i - 1]) \in ToSet(gs[i - 1]) /\ Head(gs[i - 1]) \in g.nodes
    BY <1>2, <2>1
  <2>3. Linked(gs, Head(gs[i - 1]), g.entry)
    BY <1>5, <2>1, <2>2 DEF Linked
  <2>4. g.entry \in Successors(g, Head(gs[i - 1]))
    BY <1>1, <1>2, <2>2, <2>3
  <2> QED BY <1>1, <2>2, <2>4, NothingBeforeEntry
<1>7. 1 \in 1 .. n /\ g.entry \in ToSet(gs[1]) /\ gs # <<>>
  BY <1>2, <1>5, <1>6
<1>8. ASSUME NEW x \in ToSet(gs[1]), x # g.entry PROVE FALSE
  <2> DEFINE C == g.nodes \ {x}
  <2>1. C \in SUBSET g.nodes /\ g.entry \in C /\ x \in g.nodes
    BY <1>1, <1>2, <1>7, <1>8
  <2>2. ASSUME NEW s \in C, NEW t \in Successors(g, s) PROVE t \in C
    <3>1. s \in StepIDs /\ t \in g.nodes /\ t \in StepIDs
      BY <1>1, <2>1, ShapeFacts
    <3>2. Linked(gs, s, t)
      BY <1>1, <3>1
    <3>3. CallOf(gs, t) = CallOf(gs, s) + 1 /\ CallOf(gs, s) \in 1 .. n - 1
      BY <1>1, <1>3, <3>2, LinkedCalls
    <3>4. CallOf(gs, x) = 1
      BY <1>4, <1>7
    <3>5. t # x
      BY <1>2, <3>3, <3>4
    <3> QED BY <3>1, <3>5
  <2> HIDE DEF C, g
  <2>3. Closed(g, C)
    BY <2>1, <2>2 DEF Closed
  <2>4. C = g.nodes
    BY <2>1, <2>3 DEF Sound, Reached, g
  <2> QED BY <2>1, <2>4 DEF C
<1> QED BY <1>3, <1>7, <1>8 DEF Acceptable

\* What Build decides, for calls that all added steps.
LEMMA AcceptsExactly ==
  ASSUME NEW b, NEW gs, NEW gd, Grouped(b, gs, gd), Filled(gs)
  PROVE Accepts(b) <=> Acceptable(gs, b.graph.entry)
<1>1. Shape(b.graph) /\ b.graph.nodes = {s \in StepIDs : b.registered[s] # "no"}
  BY DEF Grouped, Sane
<1>2. Accepts(b) <=> Valid(b.graph)
  BY <1>1 DEF Accepts, IsRegistered
<1>3. Valid(b.graph) <=> Sound(b.graph)
  BY <1>1, SoundIsValid, ValidIsSound
<1> QED BY <1>2, <1>3, AcceptableIsSound, SoundIsAcceptable

\* The levels of what it accepts.
LEMMA LevelsOfCalls ==
  ASSUME NEW b, NEW gs, NEW gd, Grouped(b, gs, gd), Filled(gs), Accepts(b)
  PROVE Levels(b.graph) = [i \in DOMAIN gs |-> ToSet(gs[i])]
<1> DEFINE g == b.graph
           n == Len(gs)
           h == DepthOf(gs)
<1>1. Acceptable(gs, g.entry) /\ gs \in Seq(Seq(StepIDs)) /\ Shape(g) /\ g.nodes = Members(gs)
  BY AcceptsExactly DEF Grouped, Sane
<1>2. Sound(g) /\ h \in Depths(g)
  BY <1>1, AcceptableIsSound
<1>3. /\ n \in Nat \ {0} /\ DOMAIN gs = 1 .. n
      /\ \A i \in 1 .. n : Head(gs[i]) \in ToSet(gs[i]) /\ ToSet(gs[i]) \subseteq g.nodes
  BY <1>1, GroupFacts DEF Acceptable
<1>4. /\ \A i \in 1 .. n : \A s \in ToSet(gs[i]) : CallOf(gs, s) = i
      /\ \A s \in g.nodes : CallOf(gs, s) \in 1 .. n /\ s \in ToSet(gs[CallOf(gs, s)])
  BY <1>1, CallFacts DEF Acceptable
<1>5. \A s \in g.nodes : h[s] = CallOf(gs, s) - 1
  BY <1>1 DEF DepthOf
<1>6. Levels(g) = ByDepth(g, h)
  BY <1>1, <1>2, LevelsByDepth
<1> HIDE DEF g, n, h
<1>7. Deepest(g, h) = n - 1
  <2> DEFINE S == {h[s] : s \in g.nodes}
             x == Head(gs[n])
  <2>1. n \in 1 .. n /\ x \in g.nodes /\ CallOf(gs, x) = n
    BY <1>3, <1>4
  <2>2. n - 1 \in S /\ S \in SUBSET Int /\ \A y \in S : y <= n - 1
    BY <1>3, <1>4, <1>5, <2>1
  <2> HIDE DEF S
  <2> QED BY <2>2, MaxIs DEF Deepest, S
<1>8. \A i \in 1 .. n : {s \in g.nodes : h[s] = i - 1} = ToSet(gs[i])
  BY <1>3, <1>4, <1>5
<1>9. ByDepth(g, h) = [i \in 1 .. n |-> ToSet(gs[i])]
  <2>1. (n - 1) + 1 = n
    BY <1>3
  <2> QED BY <1>7, <1>8, <2>1 DEF ByDepth
<1> QED BY <1>3, <1>6, <1>9 DEF g

\* The first predecessor of a step.
LEMMA InputsOfCalls ==
  ASSUME NEW b, NEW gs, NEW gd, Grouped(b, gs, gd), Filled(gs), Apart(gs),
         NEW i \in 2 .. Len(gs), NEW s \in ToSet(gs[i])
  PROVE Head(GetPreviousSteps(b.graph, s)) = Head(gs[i - 1])
<1>1. gs \in Seq(Seq(StepIDs)) /\ b.graph.nodes = Members(gs)
  BY DEF Grouped
<1>2. DOMAIN gs = 1 .. Len(gs) /\ i \in 1 .. Len(gs) /\ i - 1 \in 1 .. Len(gs)
  BY <1>1
<1>3. s \in b.graph.nodes /\ gs[i - 1] # <<>>
  BY <1>1, <1>2, GroupFacts DEF Filled
<1>4. ~Repeated(gs, s)
  BY DEF Repeated, Apart
<1>5. Head(b.graph.previous[s]) = Head(gs[i - 1])
  BY <1>3, <1>4 DEF Grouped
<1> QED BY <1>3, <1>5 DEF GetPreviousSteps
-----------------------------------------------------------------------------
(* What the engine is given.                                                *)

\* The levels and the predecessors in a valid graph, given the two ways in
\* which a graph holds its edges agree.
FitsLevels(g) ==
  LET levels == Levels(g)
      levelOf == [s \in g.nodes |-> CHOOSE i \in DOMAIN levels : s \in levels[i]]
      previous == [s \in g.nodes |-> GetPreviousSteps(g, s)]
  IN /\ FitsEngine(g.nodes, Len(levels), levelOf, previous)
     /\ \A i \in DOMAIN levels : levels[i] = {s \in g.nodes : levelOf[s] = i}
     /\ \A s \in g.nodes : previous[s] = <<>> <=> levelOf[s] = 1

LEMMA ValidFitsLevels ==
  ASSUME NEW g, Shape(g), Valid(g), Mirrored(g),
         \A s \in StepIDs \ g.nodes : Successors(g, s) = {}
  PROVE FitsLevels(g)
<1>1. /\ Sound(g) /\ g.entry \in g.nodes /\ g.nodes \subseteq StepIDs /\ IsFiniteSet(g.nodes)
      /\ g.previous \in [StepIDs -> Seq(StepIDs)]
  BY ValidIsSound DEF Valid, Shape, Graph
<1>2. PICK h : h \in Depths(g)
  BY DepthsExist
<1> DEFINE m == Deepest(g, h)
           levels == Levels(g)
           levelOf == [s \in g.nodes |-> CHOOSE i \in DOMAIN levels : s \in levels[i]]
           previous == [s \in g.nodes |-> GetPreviousSteps(g, s)]
<1>3. /\ m \in Nat /\ \A s \in g.nodes : h[s] \in 0 .. m
      /\ \A d \in 0 .. m : \E s \in g.nodes : h[s] = d
  BY <1>1, <1>2, DeepestStep
<1>4. /\ levels \in Seq(SUBSET StepIDs) /\ Len(levels) = m + 1
      /\ \A i \in 1 .. m + 1 : levels[i] = {s \in g.nodes : h[s] = i - 1}
  <2>1. levels = ByDepth(g, h)
    BY <1>1, <1>2, LevelsByDepth
  <2> QED BY <1>1, <1>2, <2>1, LevelsTyped
<1>5. /\ h[g.entry] = 0
      /\ \A s \in g.nodes : \A t \in Successors(g, s) : h[t] > h[s]
      /\ \A t \in g.nodes \ {g.entry} :
           \E s \in g.nodes : t \in Successors(g, s) /\ h[t] = h[s] + 1
  BY <1>2 DEF Depths
<1> HIDE DEF m, levels
<1>6. DOMAIN levels = 1 .. m + 1
  BY <1>4
<1>7. ASSUME NEW s \in g.nodes PROVE levelOf[s] = h[s] + 1 /\ h[s] + 1 \in 1 .. m + 1
  <2>1. h[s] + 1 \in 1 .. m + 1
    BY <1>3
  <2>2. \A i \in DOMAIN levels : s \in levels[i] <=> i = h[s] + 1
    BY <1>3, <1>4, <1>6
  <2> QED BY <1>6, <2>1, <2>2
<1>8. levelOf \in [g.nodes -> 1 .. m + 1]
  <2>1. levelOf = [s \in g.nodes |-> levelOf[s]]
    OBVIOUS
  <2> HIDE DEF levelOf
  <2> QED BY <1>7, <2>1
<1> HIDE DEF levelOf
<1>9. ASSUME NEW s \in g.nodes
      PROVE /\ previous[s] \in Seq(g.nodes)
            /\ \A p \in StepIDs : p \in ToSet(previous[s]) <=> p \in g.nodes /\ s \in Successors(g, p)
  <2>1. previous[s] = g.previous[s] /\ g.previous[s] \in Seq(StepIDs)
    BY <1>1 DEF GetPreviousSteps
  <2>2. \A p \in StepIDs : p \in ToSet(g.previous[s]) <=> p \in g.nodes /\ s \in Successors(g, p)
    BY <1>1 DEF Mirrored
  <2>3. \A k \in 1 .. Len(g.previous[s]) : g.previous[s][k] \in ToSet(g.previous[s])
    BY <2>1, SetOfSequence
  <2>4. g.previous[s] \in Seq(g.nodes)
    BY <2>1, <2>2, <2>3
  <2> QED BY <2>1, <2>2, <2>4
<1>10. previous \in [g.nodes -> Seq(g.nodes)]
  <2>1. previous = [s \in g.nodes |-> previous[s]]
    OBVIOUS
  <2> HIDE DEF previous
  <2> QED BY <1>9, <2>1
<1> HIDE DEF previous
<1>11. ASSUME NEW i \in 1 .. m + 1 PROVE \E s \in g.nodes : levelOf[s] = i
  <2>1. m \in Nat
    BY <1>3
  <2>2. i - 1 \in 0 .. m /\ (i - 1) + 1 = i
    BY <2>1
  <2>3. PICK s \in g.nodes : h[s] = i - 1
    BY <1>3, <2>2
  <2> QED BY <1>7, <2>2, <2>3
<1>12. ASSUME NEW s \in g.nodes, NEW k \in 1 .. Len(previous[s])
       PROVE levelOf[previous[s][k]] < levelOf[s]
  <2> DEFINE p == previous[s][k]
  <2>1. p \in g.nodes /\ p \in ToSet(previous[s]) /\ p \in StepIDs
    BY <1>1, <1>9, SetOfSequence
  <2> HIDE DEF p
  <2>2. h[s] > h[p]
    BY <1>5, <1>9, <2>1
  <2>3. levelOf[s] = h[s] + 1 /\ levelOf[p] = h[p] + 1 /\ h[s] \in Int /\ h[p] \in Int
    BY <1>3, <1>7, <2>1
  <2>4. levelOf[p] < levelOf[s]
    BY <2>2, <2>3
  <2> QED BY <2>4 DEF p
<1>13. FitsEngine(g.nodes, Len(levels), levelOf, previous)
  <2>1. Len(levels) \in Nat \ {0} /\ Len(levels) = m + 1
    BY <1>3, <1>4
  <2> QED BY <1>1, <1>8, <1>10, <1>11, <1>12, <2>1 DEF FitsEngine
<1>14. ASSUME NEW i \in DOMAIN levels PROVE levels[i] = {s \in g.nodes : levelOf[s] = i}
  <2>1. i \in 1 .. m + 1 /\ levels[i] = {s \in g.nodes : h[s] = i - 1}
    BY <1>4, <1>6
  <2>2. \A s \in g.nodes : h[s] = i - 1 <=> levelOf[s] = i
    BY <1>3, <1>7, <2>1
  <2> QED BY <2>1, <2>2
<1>15. ASSUME NEW s \in g.nodes PROVE previous[s] = <<>> <=> levelOf[s] = 1
  <2>1. ToSet(previous[s]) = {} <=> previous[s] = <<>>
    BY <1>9, SetOfSequence
  <2>2. CASE s = g.entry
    <3>1. \A p \in g.nodes : s \notin Successors(g, p)
      BY <1>1, <2>2, NothingBeforeEntry
    <3>2. ToSet(previous[s]) \subseteq g.nodes
      BY <1>9, SetOfSequence
    <3> QED BY <1>1, <1>5, <1>7, <1>9, <2>1, <2>2, <3>1, <3>2
  <2>3. CASE s # g.entry
    <3>1. PICK p \in g.nodes : s \in Successors(g, p) /\ h[s] = h[p] + 1
      BY <1>5, <2>3
    <3>2. p \in ToSet(previous[s])
      BY <1>1, <1>9, <3>1
    <3>3. levelOf[s] = h[s] + 1 /\ h[s] \in Int /\ h[p] \in Nat
      BY <1>3, <1>7
    <3> QED BY <2>1, <3>1, <3>2, <3>3
  <2> QED BY <2>2, <2>3
<1> QED BY <1>13, <1>14, <1>15 DEF FitsLevels, levels, levelOf, previous
-----------------------------------------------------------------------------
(* The step objects.                                                        *)

ExecutionConfigs ==
  [retries : Int, delayMs : Int, backoff : {"LINEAR", "EXPONENTIAL", "NONE"},
   timeout : Int, continueOnError : BOOLEAN]
StepObjects ==
  [config : ExecutionConfigs, validation : {"default", "own", "off"},
   validator : Validators \cup {NoValue}]
MadeSteps == [step : StepObjects, shared : Validators]
NewObject ==
  [config |-> DefaultExecutionConfig, validation |-> "default", validator |-> NoValue]

LEMMA DefaultConfigTyped == DefaultExecutionConfig \in ExecutionConfigs
BY DEF DefaultExecutionConfig, ExecutionConfigs

\* What one option does to a configuration.
LEMMA ConfigureTyped ==
  ASSUME NEW c \in ExecutionConfigs, NEW option \in Options
  PROVE Configure(c, option) \in ExecutionConfigs
<1>1. CASE option \in [set : {"retries", "delay"}, to : Int]
  BY <1>1 DEF Configure, ExecutionConfigs
<1>2. CASE option \in [set : {"timeout"}, to : Int]
  <2> DEFINE seconds == IF option.to < 0 THEN -((-option.to) \div 1000) ELSE option.to \div 1000
  <2>1. option.to \in Int /\ option.set = "timeout"
    BY <1>2
  <2>2. seconds \in Int
    BY <2>1
  <2>3. Configure(c, option) = [c EXCEPT !.timeout = seconds]
    BY <2>1 DEF Configure, WithTimeout
  <2> HIDE DEF seconds
  <2> QED BY <2>2, <2>3 DEF ExecutionConfigs
<1>3. CASE option \in [set : {"backoff"}, to : {"LINEAR", "EXPONENTIAL", "NONE"}]
  BY <1>3 DEF Configure, ExecutionConfigs
<1>4. CASE option \in [set : {"continueOnError"}, to : BOOLEAN]
  BY <1>4 DEF Configure, ExecutionConfigs
<1>5. CASE option.set \in {"validator", "no validation"}
  BY <1>5 DEF Configure
<1> QED BY <1>1, <1>2, <1>3, <1>4, <1>5 DEF Options

\* An option configures the step, or says how it validates.
LEMMA ApplyTyped ==
  ASSUME NEW made \in MadeSteps, NEW option \in Options
  PROVE /\ ApplyStep(made, option) \in MadeSteps
        /\ ApplyStep(made, option).step.config = Configure(made.step.config, option)
<1> DEFINE step == made.step
<1>1. /\ made = [step |-> step, shared |-> made.shared]
      /\ made.shared \in Validators /\ step \in StepObjects
      /\ step = [config |-> step.config, validation |-> step.validation,
                 validator |-> step.validator]
      /\ step.config \in ExecutionConfigs
  BY DEF MadeSteps, StepObjects
<1>2. CASE option.set = "validator"
  <2>1. option.to \in Validators
    BY <1>2 DEF Options
  <2>2. Configure(step.config, option) = step.config
    BY <1>2 DEF Configure
  <2>3. ApplyStep(made, option) = WithCustomValidator(made, option.to)
    BY <1>2 DEF ApplyStep
  <2>4. CASE step.validation = "default"
    <3>1. ApplyStep(made, option) = [made EXCEPT !.shared = option.to]
      BY <2>3, <2>4 DEF WithCustomValidator
    <3> QED BY <1>1, <2>1, <2>2, <3>1 DEF MadeSteps
  <2>5. CASE step.validation # "default"
    <3>1. ApplyStep(made, option)
            = [made EXCEPT !.step.validation = "own", !.step.validator = option.to]
      BY <2>3, <2>5 DEF WithCustomValidator
    <3>2. ApplyStep(made, option)
            = [step |-> [config |-> step.config, validation |-> "own", validator |-> option.to],
               shared |-> made.shared]
      BY <1>1, <3>1 DEF MadeSteps, StepObjects
    <3> QED BY <1>1, <2>1, <2>2, <3>2 DEF MadeSteps, StepObjects
  <2> QED BY <2>4, <2>5
<1>3. CASE option.set = "no validation"
  <2>1. Configure(step.config, option) = step.config
    BY <1>3 DEF Configure
  <2>2. ApplyStep(made, option) = [made EXCEPT !.step.validation = "off"]
    BY <1>3 DEF ApplyStep
  <2> QED BY <1>1, <2>1, <2>2 DEF MadeSteps, StepObjects
<1>4. CASE option.set \notin {"validator", "no validation"}
  <2>1. ApplyStep(made, option) = [made EXCEPT !.step.config = Configure(@, option)]
    BY <1>4 DEF ApplyStep
  <2>2. Configure(step.config, option) \in ExecutionConfigs
    BY <1>1, ConfigureTyped
  <2> QED BY <1>1, <2>1, <2>2 DEF MadeSteps, StepObjects
<1> QED BY <1>2, <1>3, <1>4

\* The options of a step as a fold over its configuration, and over the step.
Configuring(q) ==
  LET f[x \in SUBSET DOMAIN q] ==
        IF x = {} THEN DefaultExecutionConfig ELSE Configure(f[x \ {Max(x)}], q[Max(x)])
  IN f[DOMAIN q]
Making(q, base) ==
  LET f[x \in SUBSET DOMAIN q] ==
        IF x = {} THEN base ELSE ApplyStep(f[x \ {Max(x)}], q[Max(x)])
  IN f[DOMAIN q]

LEMMA OwnIs == ASSUME NEW s PROVE Own(s) = Configuring(StepOptions[s])
BY Zenon DEF FoldLeft, MapThenFoldSet, Own, Configuring

LEMMA NewStepIs ==
  ASSUME NEW q, NEW v
  PROVE NewStep(q, v) = Making(q, [step |-> NewObject, shared |-> v])
BY Zenon DEF FoldLeft, MapThenFoldSet, NewStep, Making, NewObject

\* The configurations on the way.
LEMMA ConfiguredByStep ==
  ASSUME NEW q \in Seq(Options)
  PROVE \E f : /\ f[0] = DefaultExecutionConfig /\ f[Len(q)] = Configuring(q)
               /\ \A k \in 1 .. Len(q) : f[k] = Configure(f[k - 1], q[k])
<1> DEFINE n == Len(q)
           S == ExecutionConfigs
           Step(f) == [x \in SUBSET DOMAIN q |->
                         IF x = {} THEN DefaultExecutionConfig
                         ELSE Configure(f[x \ {Max(x)}], q[Max(x)])]
           fold == CHOOSE f : f = Step(f)
<1>1. n \in Nat /\ DOMAIN q = 1 .. n
  OBVIOUS
<1>2. ASSUME NEW i \in 1 .. n, NEW h \in S PROVE Configure(h, q[i]) \in S
  <2>1. q[i] \in Options
    BY <1>1
  <2> QED BY <2>1, ConfigureTyped
<1>3. DefaultExecutionConfig \in S
  BY DefaultConfigTyped
<1> HIDE DEF n, S
<1>4. \E f : f = Step(f)
  <2> DEFINE G == [i \in 1 .. n |-> [h \in S |-> Configure(h, q[i])]]
  <2>1. G \in [1 .. n -> [S -> S]]
    BY <1>2
  <2>2. PICK f : Folds(f, S, DefaultExecutionConfig, n, G)
    <3> HIDE DEF G
    <3> QED BY <1>1, <1>3, <2>1, FoldExists
  <2>3. ASSUME NEW x \in SUBSET (1 .. n) PROVE f[x] = Step(f)[x]
    <3>1. CASE x = {}
      BY <1>1, <2>2, <3>1 DEF Folds
    <3>2. CASE x # {}
      <4>1. Max(x) \in 1 .. n /\ f[x \ {Max(x)}] \in S
        BY <1>1, <2>2, <3>2, LargestPosition DEF Folds
      <4> QED BY <1>1, <2>2, <3>2, <4>1 DEF Folds
    <3> QED BY <3>1, <3>2
  <2>4. f = Step(f)
    <3>1. Step(f) = [x \in SUBSET (1 .. n) |-> Step(f)[x]]
      BY <1>1
    <3> HIDE DEF Step
    <3> QED BY <2>2, <2>3, <3>1 DEF Folds
  <2> QED BY <2>4
<1>5. fold = Step(fold)
  <2> HIDE DEF Step
  <2> QED BY <1>4
<1>6. Configuring(q) = fold[1 .. n]
  BY <1>1 DEF Configuring
<1> HIDE DEF fold
<1> DEFINE f == [k \in 0 .. n |-> fold[1 .. k]]
<1>7. f[0] = DefaultExecutionConfig /\ f[n] = fold[1 .. n]
  <2>1. fold[{}] = DefaultExecutionConfig
    BY <1>5
  <2>2. 1 .. 0 = {} /\ f[0] = fold[1 .. 0] /\ f[n] = fold[1 .. n]
    BY <1>1
  <2> QED BY <2>1, <2>2
<1>8. ASSUME NEW k \in 1 .. n PROVE f[k] = Configure(f[k - 1], q[k])
  <2>1. /\ 1 .. k \in SUBSET (1 .. n) /\ 1 .. k # {}
        /\ Max(1 .. k) = k /\ (1 .. k) \ {k} = 1 .. (k - 1)
    BY <1>1, Initial
  <2>2. fold[1 .. k] = Configure(fold[(1 .. k) \ {Max(1 .. k)}], q[Max(1 .. k)])
    BY <1>1, <1>5, <2>1
  <2>3. f[k] = fold[1 .. k] /\ f[k - 1] = fold[1 .. (k - 1)]
    BY <1>1
  <2> QED BY <2>1, <2>2, <2>3
<1> HIDE DEF f
<1>9. f[0] = DefaultExecutionConfig /\ f[Len(q)] = Configuring(q)
  BY <1>6, <1>7 DEF n
<1>10. \A k \in 1 .. Len(q) : f[k] = Configure(f[k - 1], q[k])
  BY <1>8 DEF n
<1> QED BY <1>9, <1>10

\* The steps on the way.
LEMMA MadeByStep ==
  ASSUME NEW q \in Seq(Options), NEW base \in MadeSteps
  PROVE \E f : /\ f[0] = base /\ f[Len(q)] = Making(q, base)
               /\ \A k \in 1 .. Len(q) : f[k] = ApplyStep(f[k - 1], q[k])
<1> DEFINE n == Len(q)
           S == MadeSteps
           Step(f) == [x \in SUBSET DOMAIN q |->
                         IF x = {} THEN base
                         ELSE ApplyStep(f[x \ {Max(x)}], q[Max(x)])]
           fold == CHOOSE f : f = Step(f)
<1>1. n \in Nat /\ DOMAIN q = 1 .. n
  OBVIOUS
<1>2. ASSUME NEW i \in 1 .. n, NEW h \in S PROVE ApplyStep(h, q[i]) \in S
  <2>1. q[i] \in Options
    BY <1>1
  <2> QED BY <2>1, ApplyTyped
<1>3. base \in S
  OBVIOUS
<1> HIDE DEF n, S
<1>4. \E f : f = Step(f)
  <2> DEFINE G == [i \in 1 .. n |-> [h \in S |-> ApplyStep(h, q[i])]]
  <2>1. G \in [1 .. n -> [S -> S]]
    BY <1>2
  <2>2. PICK f : Folds(f, S, base, n, G)
    <3> HIDE DEF G
    <3> QED BY <1>1, <1>3, <2>1, FoldExists
  <2>3. ASSUME NEW x \in SUBSET (1 .. n) PROVE f[x] = Step(f)[x]
    <3>1. CASE x = {}
      BY <1>1, <2>2, <3>1 DEF Folds
    <3>2. CASE x # {}
      <4>1. Max(x) \in 1 .. n /\ f[x \ {Max(x)}] \in S
        BY <1>1, <2>2, <3>2, LargestPosition DEF Folds
      <4> QED BY <1>1, <2>2, <3>2, <4>1 DEF Folds
    <3> QED BY <3>1, <3>2
  <2>4. f = Step(f)
    <3>1. Step(f) = [x \in SUBSET (1 .. n) |-> Step(f)[x]]
      BY <1>1
    <3> HIDE DEF Step
    <3> QED BY <2>2, <2>3, <3>1 DEF Folds
  <2> QED BY <2>4
<1>5. fold = Step(fold)
  <2> HIDE DEF Step
  <2> QED BY <1>4
<1>6. Making(q, base) = fold[1 .. n]
  BY <1>1 DEF Making
<1> HIDE DEF fold
<1> DEFINE f == [k \in 0 .. n |-> fold[1 .. k]]
<1>7. f[0] = base /\ f[n] = fold[1 .. n]
  <2>1. fold[{}] = base
    BY <1>5
  <2>2. 1 .. 0 = {} /\ f[0] = fold[1 .. 0] /\ f[n] = fold[1 .. n]
    BY <1>1
  <2> QED BY <2>1, <2>2
<1>8. ASSUME NEW k \in 1 .. n PROVE f[k] = ApplyStep(f[k - 1], q[k])
  <2>1. /\ 1 .. k \in SUBSET (1 .. n) /\ 1 .. k # {}
        /\ Max(1 .. k) = k /\ (1 .. k) \ {k} = 1 .. (k - 1)
    BY <1>1, Initial
  <2>2. fold[1 .. k] = ApplyStep(fold[(1 .. k) \ {Max(1 .. k)}], q[Max(1 .. k)])
    BY <1>1, <1>5, <2>1
  <2>3. f[k] = fold[1 .. k] /\ f[k - 1] = fold[1 .. (k - 1)]
    BY <1>1
  <2> QED BY <2>1, <2>2, <2>3
<1> HIDE DEF f
<1>9. f[0] = base /\ f[Len(q)] = Making(q, base)
  BY <1>6, <1>7 DEF n
<1>10. \A k \in 1 .. Len(q) : f[k] = ApplyStep(f[k - 1], q[k])
  BY <1>8 DEF n
<1> QED BY <1>9, <1>10

\* NewStep gives a step the configuration of its options.
LEMMA NewStepFields ==
  ASSUME BuilderAssumption, ValuesAssumption, NEW s \in StepIDs, NEW v \in Validators
  PROVE /\ NewStep(StepOptions[s], v) \in MadeSteps
        /\ NewStep(StepOptions[s], v).step.config = Own(s)
<1> DEFINE q == StepOptions[s]
           n == Len(q)
           base == [step |-> NewObject, shared |-> v]
<1>1. q \in Seq(Options) /\ n \in Nat /\ n \in 0 .. n /\ 0 \in 0 .. n
  BY DEF BuilderAssumption
<1>2. base \in MadeSteps /\ base.step.config = DefaultExecutionConfig
  BY DefaultConfigTyped DEF MadeSteps, StepObjects, NewObject
<1> HIDE DEF q, base
<1>3. PICK f : /\ f[0] = DefaultExecutionConfig /\ f[n] = Configuring(q)
               /\ \A k \in 1 .. n : f[k] = Configure(f[k - 1], q[k])
  BY <1>1, ConfiguredByStep
<1>4. PICK m : /\ m[0] = base /\ m[n] = Making(q, base)
               /\ \A k \in 1 .. n : m[k] = ApplyStep(m[k - 1], q[k])
  BY <1>1, <1>2, MadeByStep
<1> DEFINE T == {k \in 0 .. n : m[k] \in MadeSteps /\ m[k].step.config = f[k]}
<1>5. 0 \in T
  BY <1>1, <1>2, <1>3, <1>4
<1>6. ASSUME NEW k \in 0 .. n, k \in T, k < n PROVE k + 1 \in T
  <2>1. k + 1 \in 1 .. n /\ (k + 1) - 1 = k /\ k + 1 \in 0 .. n
    <3> HIDE DEF T, n
    <3> QED BY <1>1, <1>6
  <2>2. q[k + 1] \in Options
    BY <1>1, <2>1
  <2>3. f[k + 1] = Configure(f[k], q[k + 1]) /\ m[k + 1] = ApplyStep(m[k], q[k + 1])
    BY <1>3, <1>4, <2>1
  <2>4. m[k] \in MadeSteps /\ m[k].step.config = f[k]
    BY <1>6
  <2>5. /\ ApplyStep(m[k], q[k + 1]) \in MadeSteps
        /\ ApplyStep(m[k], q[k + 1]).step.config = Configure(m[k].step.config, q[k + 1])
    BY <2>2, <2>4, ApplyTyped
  <2> QED BY <2>1, <2>3, <2>4, <2>5
<1> HIDE DEF T, n
<1>7. n \in T
  BY <1>1, <1>5, <1>6, Upwards
<1>8. Making(q, base) \in MadeSteps /\ Making(q, base).step.config = Configuring(q)
  BY <1>3, <1>4, <1>7 DEF T
<1>9. NewStep(q, v) = Making(q, base) /\ Own(s) = Configuring(q)
  BY OwnIs, NewStepIs DEF q, base
<1> QED BY <1>8, <1>9 DEF q
-----------------------------------------------------------------------------
(* The inductive invariant.                                                 *)

StepRecords ==
  [config : Settings, validation : {"default", "own", "off"},
   validator : Validators \cup {NoValue}]
Objects ==
  /\ Made \subseteq StepIDs /\ shared \in Validators
  /\ \A s \in Made : steps[s] \in StepRecords
  /\ status \in {"open", "built", "rejected", "panicked"}
  /\ status # "open" => Made = StepIDs
  /\ builds \in Seq([steps : SUBSET StepIDs, config : Settings])

\* Where the configuration of a step comes from.
Configuration ==
  ConfigPropagates /\ \A i \in DOMAIN builds : builds[i].steps \subseteq Made

\* What Build decided, and what Execute was called for.
Decided ==
  /\ status = "built" => Accepts(builder)
  /\ status = "rejected" => ~Accepts(builder)
  /\ status # "built" => last = NoExecution
  /\ ConditionsKept

BuilderInv ==
  Objects /\ Grouped(builder, groups, guarded) /\ Configuration /\ Decided

\* The properties are parts of it.
LEMMA InvGivesTypes == ASSUME BuilderInv PROVE BuilderTypeOK
<1>1. Sane(builder) /\ builder \in Builders /\ guarded \subseteq DOMAIN groups
  BY DEF BuilderInv, Grouped, Sane
<1>2. /\ builder.graph \in Graph /\ builder.config \in Settings
      /\ builder.registered \in [StepIDs -> {"no", "plain", "if"}]
  BY <1>1, BuilderFields
<1>3. ToSet(builder.lastStepIDs) \subseteq builder.graph.nodes
  BY <1>1, SetOfSequence DEF Sane
<1>4. builder.graph.nodes = {s \in StepIDs : builder.registered[s] # "no"}
  BY <1>1 DEF Sane
<1>5. \A s \in Made :
       /\ steps[s].config \in Settings
       /\ steps[s].validation \in {"default", "own", "off"}
       /\ steps[s].validator \in Validators \cup {NoValue}
  BY DEF BuilderInv, Objects, StepRecords
<1> QED BY <1>1, <1>2, <1>3, <1>4, <1>5 DEF BuilderInv, Objects, BuilderTypeOK

LEMMA InvGivesAcceptance == ASSUME BuilderInv PROVE AcceptedExactly
<1> SUFFICES ASSUME status \in {"built", "rejected"}, NoEmptyGroup
             PROVE status = "built" <=>
                     /\ groups # <<>>
                     /\ Group(1) = {builder.graph.entry}
                     /\ \A i, j \in DOMAIN groups : i # j => Group(i) \cap Group(j) = {}
  BY DEF AcceptedExactly
<1>1. Grouped(builder, groups, guarded) /\ Filled(groups)
  BY DEF BuilderInv, NoEmptyGroup, Filled
<1>2. Accepts(builder) <=> Acceptable(groups, builder.graph.entry)
  BY <1>1, AcceptsExactly
<1>3. status = "built" <=> Accepts(builder)
  BY DEF BuilderInv, Decided
<1> QED BY <1>2, <1>3 DEF Acceptable, Apart, Group

LEMMA InvGivesLevels == ASSUME BuilderInv PROVE LevelsAreCalls
<1> SUFFICES ASSUME status = "built", NoEmptyGroup
             PROVE /\ Levels(builder.graph) = [i \in DOMAIN groups |-> Group(i)]
                   /\ \A i \in 2 .. Len(groups) : \A s \in Group(i) :
                        Head(GetPreviousSteps(builder.graph, s)) = Head(groups[i - 1])
  BY DEF LevelsAreCalls
<1>1. Grouped(builder, groups, guarded) /\ Filled(groups) /\ Accepts(builder)
  BY DEF BuilderInv, NoEmptyGroup, Filled, Decided
<1>2. Levels(builder.graph) = [i \in DOMAIN groups |-> ToSet(groups[i])]
  BY <1>1, LevelsOfCalls
<1>3. Apart(groups)
  BY <1>1, AcceptsExactly DEF Acceptable
<1>4. \A i \in 2 .. Len(groups) : \A s \in ToSet(groups[i]) :
        Head(GetPreviousSteps(builder.graph, s)) = Head(groups[i - 1])
  BY <1>1, <1>3, InputsOfCalls
<1> QED BY <1>2, <1>4 DEF Group

LEMMA InvGivesFit == ASSUME BuilderInv PROVE BuiltFitsEngine
<1> SUFFICES ASSUME status = "built" PROVE FitsLevels(builder.graph)
  BY DEF BuiltFitsEngine, FitsLevels
<1> DEFINE g == builder.graph
<1>1. Grouped(builder, groups, guarded) /\ Shape(g) /\ Mirrored(g) /\ Valid(g)
  BY DEF BuilderInv, Decided, Accepts, Grouped, Sane
<1>2. ASSUME NEW s \in StepIDs \ g.nodes PROVE Successors(g, s) = {}
  <2>1. s \notin Members(groups) /\ \A t \in StepIDs : t \in Successors(g, s) <=> Linked(groups, s, t)
    BY <1>1 DEF Grouped
  <2>2. \A t : ~Linked(groups, s, t)
    <3>1. \A i \in 1 .. Len(groups) - 1 : i \in DOMAIN groups
      BY <1>1 DEF Grouped
    <3> QED BY <2>1, <3>1 DEF Linked, Members
  <2>3. Successors(g, s) \subseteq g.nodes /\ g.nodes \subseteq StepIDs
    BY <1>1, ShapeFacts DEF Shape, Successors
  <2> QED BY <2>1, <2>2, <2>3
<1> HIDE DEF g
<1>3. FitsLevels(g)
  BY <1>1, <1>2, ValidFitsLevels
<1> QED BY <1>3 DEF g

LEMMA InvGivesPropagation == ASSUME BuilderInv PROVE ConfigPropagates
BY DEF BuilderInv, Configuration

-----------------------------------------------------------------------------
(* Every action keeps it.                                                   *)

LEMMA InitEstablishes ==
  ASSUME ValuesAssumption, Init
  PROVE BuilderInv
<1>1. Grouped(builder, groups, guarded)
  BY NewIsGrouped DEF Init
<1>2. Made = {} /\ status = "open" /\ last = NoExecution /\ builds = <<>>
  BY DEF Init, Made
<1>3. Objects
  BY <1>2 DEF Init, Objects, ValuesAssumption
<1>4. Configuration
  BY <1>2 DEF Configuration, ConfigPropagates
<1>5. Decided
  <2>1. last.step = NoStep
    BY <1>2 DEF NoExecution
  <2> QED BY <1>2, <2>1 DEF Decided, ConditionsKept
<1> QED BY <1>1, <1>3, <1>4, <1>5 DEF BuilderInv

\* Where only the builder and its history change, before it is built.
LEMMA BuilderCallKeeps ==
  ASSUME BuilderInv, status = "open", status' \in {"open", "panicked"}, Made = StepIDs,
         Grouped(builder, groups, guarded)', UNCHANGED <<steps, shared, builds, last>>
  PROVE BuilderInv'
<1>1. Made' = Made
  BY DEF Made
<1>2. Objects'
  BY <1>1 DEF BuilderInv, Objects
<1>3. Configuration'
  BY <1>1 DEF BuilderInv, Configuration, ConfigPropagates, Offers
<1>4. Decided'
  <2>1. last = NoExecution
    BY DEF BuilderInv, Decided
  <2>2. last'.step = NoStep
    BY <2>1 DEF NoExecution
  <2> QED BY <2>1, <2>2 DEF Decided, ConditionsKept
<1> QED BY <1>2, <1>3, <1>4 DEF BuilderInv

LEMMA AddKeeps ==
  ASSUME BuilderAssumption, BuilderInv, Add
  PROVE BuilderInv'
<1>1. Grouped(builder, groups, guarded) /\ Sane(builder)
  BY DEF BuilderInv, Grouped
<1>2. ASSUME NEW b, NEW more, NEW given, Added(b, more, given),
             Grouped(b, groups \o more, guarded \cup given)
      PROVE BuilderInv'
  <2>1. /\ status = "open" /\ Made = StepIDs /\ status' = status
        /\ UNCHANGED <<steps, shared, builds, last>>
        /\ builder' = b /\ groups' = groups \o more /\ guarded' = guarded \cup given
    BY <1>2 DEF Added
  <2>2. Grouped(builder, groups, guarded)'
    BY <1>2, <2>1
  <2> QED BY <2>1, <2>2, BuilderCallKeeps
<1>3. \A s \in StepIDs : <<s>> \in Seq(StepIDs) /\ ToSet(<<s>>) = {s}
  BY DEF ToSet
<1>4. guarded \cup {} = guarded
  OBVIOUS
<1>5. ASSUME NEW s \in StepIDs, Added(ThenStep(builder, s, "plain"), <<<<s>>>>, {})
      PROVE BuilderInv'
  <2>1. Called(builder, ThenStep(builder, s, "plain"), <<s>>, "plain")
    BY <1>1, ThenStepCalled
  <2>2. "plain" # "if"
    OBVIOUS
  <2>3. Grouped(ThenStep(builder, s, "plain"), groups \o <<<<s>>>>, guarded \cup {})
    BY <1>1, <1>3, <2>1, <2>2, OneCall
  <2> QED BY <1>2, <1>5, <2>3
<1>6. ASSUME NEW s \in StepIDs, Added(ThenStepIf(builder, s), <<<<s>>>>, {Len(groups) + 1})
      PROVE BuilderInv'
  <2>1. Called(builder, ThenStepIf(builder, s), <<s>>, "if")
    BY <1>1, ThenStepCalled DEF ThenStepIf
  <2>2. Grouped(ThenStepIf(builder, s), groups \o <<<<s>>>>, guarded \cup {Len(groups) + 1})
    BY <1>1, <1>3, <2>1, OneCall
  <2> QED BY <1>2, <1>6, <2>2
<1>7. ASSUME NEW ss \in ParallelSteps, Added(Parallel(builder, ss), <<ss>>, {})
      PROVE BuilderInv'
  <2>1. ss \in Seq(StepIDs) /\ "plain" # "if"
    BY DEF BuilderAssumption
  <2>2. Called(builder, Parallel(builder, ss), ss, "plain")
    BY <1>1, <2>1, ParallelCalled
  <2>3. Grouped(Parallel(builder, ss), groups \o <<ss>>, guarded \cup {})
    BY <1>1, <2>1, <2>2, OneCall
  <2> QED BY <1>2, <1>7, <2>3
<1>8. ASSUME NEW ss \in SequenceSteps,
             Added(Sequence(builder, ss), [i \in DOMAIN ss |-> <<ss[i]>>], {})
      PROVE BuilderInv'
  <2>1. ss \in Seq(StepIDs)
    BY DEF BuilderAssumption
  <2>2. Grouped(Sequence(builder, ss), groups \o [i \in DOMAIN ss |-> <<ss[i]>>], guarded)
    BY <1>1, <2>1, SequenceKeepsGrouped
  <2>3. Grouped(Sequence(builder, ss), groups \o [i \in DOMAIN ss |-> <<ss[i]>>], guarded \cup {})
    BY <1>4, <2>2
  <2> QED BY <1>2, <1>8, <2>3
<1> QED BY <1>5, <1>6, <1>7, <1>8 DEF Add

LEMMA ChooseEntryPointKeeps ==
  ASSUME BuilderInv, ChooseEntryPoint
  PROVE BuilderInv'
<1>1. PICK s \in StepIDs :
        /\ builder' = [builder EXCEPT !.graph = SetEntryPoint(@, s)]
        /\ status' = IF s \in builder.graph.nodes THEN status ELSE "panicked"
  BY DEF ChooseEntryPoint
<1>2. /\ status = "open" /\ Made = StepIDs
      /\ UNCHANGED <<steps, shared, groups, guarded, builds, last>>
  BY DEF ChooseEntryPoint
<1>3. Grouped([builder EXCEPT !.graph = SetEntryPoint(@, s)], groups, guarded)
  BY EntryKeepsGrouped DEF BuilderInv
<1>4. Grouped(builder, groups, guarded)'
  BY <1>1, <1>2, <1>3
<1> QED BY <1>1, <1>2, <1>4, BuilderCallKeeps

LEMMA WithConfigKeeps ==
  ASSUME BuilderInv, WithConfig
  PROVE BuilderInv'
<1>1. PICK c \in Configs : builder' = [builder EXCEPT !.config = c]
  BY DEF WithConfig
<1>2. /\ status = "open" /\ Made = StepIDs /\ status' = status
      /\ UNCHANGED <<steps, shared, groups, guarded, builds, last>>
  BY DEF WithConfig
<1>3. Grouped([builder EXCEPT !.config = c], groups, guarded)
  BY ConfigKeepsGrouped DEF BuilderInv, Settings
<1>4. Grouped(builder, groups, guarded)'
  BY <1>1, <1>2, <1>3
<1> QED BY <1>2, <1>4, BuilderCallKeeps

LEMMA MakeStepKeeps ==
  ASSUME BuilderAssumption, ValuesAssumption, BuilderInv, MakeStep
  PROVE BuilderInv'
<1>1. PICK s \in StepIDs \ Made :
        /\ steps' = [t \in Made \cup {s} |->
                       IF t = s THEN NewStep(StepOptions[s], shared).step ELSE steps[t]]
        /\ shared' = NewStep(StepOptions[s], shared).shared
  BY DEF MakeStep
<1>2. UNCHANGED <<builder, status, groups, guarded, builds, last>>
  BY DEF MakeStep
<1> DEFINE made == NewStep(StepOptions[s], shared)
<1>3. made \in MadeSteps /\ made.step.config = Own(s)
  BY NewStepFields DEF BuilderInv, Objects
<1> HIDE DEF made
<1>4. /\ Made' = Made \cup {s} /\ steps'[s] = made.step /\ shared' = made.shared
      /\ \A t \in Made : steps'[t] = steps[t]
  BY <1>1 DEF Made, made
<1>5. status = "open"
  BY DEF BuilderInv, Objects
<1>6. Objects'
  <2>1. made.step \in StepRecords /\ made.shared \in Validators
    BY <1>3 DEF MadeSteps, StepObjects, StepRecords, Settings
  <2> QED BY <1>2, <1>4, <1>5, <2>1 DEF BuilderInv, Objects
<1>7. Configuration'
  <2>1. \A i \in DOMAIN builds : ~Offers(i, s) /\ builds[i].steps \subseteq Made
    BY <1>1 DEF BuilderInv, Configuration, Offers
  <2>2. \A i, t : Offers(i, t)' <=> Offers(i, t)
    BY <1>2 DEF Offers
  <2>3. steps'[s].config = Own(s)
    BY <1>3, <1>4
  <2>4. ASSUME NEW t \in Made'
        PROVE IF Own(t) # DefaultExecutionConfig THEN steps'[t].config = Own(t)
              ELSE \/ /\ steps'[t].config = DefaultExecutionConfig
                      /\ \A i \in DOMAIN builds : ~Offers(i, t)
                   \/ \E i \in DOMAIN builds :
                        /\ Offers(i, t) /\ \A j \in 1 .. i - 1 : ~Offers(j, t)
                        /\ steps'[t].config = builds[i].config
    <3>1. CASE t = s
      BY <2>1, <2>3, <3>1
    <3>2. CASE t # s
      <4>1. t \in Made /\ steps'[t] = steps[t]
        BY <1>4, <2>4, <3>2
      <4> QED BY <4>1 DEF BuilderInv, Configuration, ConfigPropagates
    <3> QED BY <3>1, <3>2
  <2>5. ConfigPropagates'
    BY <1>2, <2>2, <2>4 DEF ConfigPropagates
  <2> QED BY <1>2, <1>4, <2>1, <2>5 DEF Configuration
<1>8. Decided' /\ Grouped(builder, groups, guarded)'
  <2>1. last = NoExecution
    BY <1>5 DEF BuilderInv, Decided
  <2>2. last'.step = NoStep
    BY <1>2, <2>1 DEF NoExecution
  <2> QED BY <1>2, <1>5, <2>1, <2>2 DEF BuilderInv, Decided, ConditionsKept
<1> QED BY <1>6, <1>7, <1>8 DEF BuilderInv

\* What the build of a workflow does to the step objects.
LEMMA ConfiguredFields ==
  ASSUME BuilderInv, NEW R, NEW c \in Settings, steps' = Configured(steps, R, c)
  PROVE /\ Made' = Made
        /\ \A s \in Made :
             /\ steps'[s] \in StepRecords
             /\ Validator(steps'[s], shared) = Validator(steps[s], shared)
             /\ steps'[s].config = IF s \in R /\ steps[s].config = DefaultExecutionConfig
                                   THEN c ELSE steps[s].config
<1>1. Made' = Made
  BY DEF Configured, Made
<1>2. ASSUME NEW s \in Made
      PROVE /\ steps'[s] \in StepRecords
            /\ Validator(steps'[s], shared) = Validator(steps[s], shared)
            /\ steps'[s].config = IF s \in R /\ steps[s].config = DefaultExecutionConfig
                                  THEN c ELSE steps[s].config
  <2>1. steps[s] \in StepRecords
    BY DEF BuilderInv, Objects
  <2>2. steps'[s] = IF s \in R /\ steps[s].config = DefaultExecutionConfig
                    THEN [steps[s] EXCEPT !.config = c] ELSE steps[s]
    BY DEF Configured, Made
  <2>3. /\ steps'[s] \in StepRecords
        /\ steps'[s].validation = steps[s].validation
        /\ steps'[s].validator = steps[s].validator
    BY <2>1, <2>2 DEF StepRecords
  <2> QED BY <2>1, <2>2, <2>3 DEF StepRecords, Validator
<1> QED BY <1>1, <1>2

\* The first configuration offered to a step stays the one it has.
LEMMA ConfiguresKeeps ==
  ASSUME BuilderInv, NEW R \in SUBSET Made, NEW c \in Settings, Configures(R, c)
  PROVE /\ Made' = Made
        /\ \A s \in Made :
             /\ steps'[s] \in StepRecords
             /\ Validator(steps'[s], shared) = Validator(steps[s], shared)
        /\ builds' \in Seq([steps : SUBSET StepIDs, config : Settings])
        /\ Configuration'
<1> DEFINE new == [steps |-> R, config |-> c]
           n == Len(builds)
<1>1. steps' = Configured(steps, R, c) /\ builds' = Append(builds, new)
  BY DEF Configures
<1>2. /\ Made' = Made
      /\ \A s \in Made :
           /\ steps'[s] \in StepRecords
           /\ Validator(steps'[s], shared) = Validator(steps[s], shared)
           /\ steps'[s].config = IF s \in R /\ steps[s].config = DefaultExecutionConfig
                                 THEN c ELSE steps[s].config
  BY <1>1, ConfiguredFields
<1>3. /\ builds \in Seq([steps : SUBSET StepIDs, config : Settings])
      /\ new \in [steps : SUBSET StepIDs, config : Settings]
  BY DEF BuilderInv, Objects
<1>4. new.steps = R /\ new.config = c
  OBVIOUS
<1> HIDE DEF new
<1>5. /\ builds' \in Seq([steps : SUBSET StepIDs, config : Settings])
      /\ n \in Nat /\ DOMAIN builds = 1 .. n /\ DOMAIN builds' = 1 .. n + 1
      /\ builds'[n + 1] = new /\ \A i \in 1 .. n : builds'[i] = builds[i]
  BY <1>1, <1>3
<1> HIDE DEF n
<1>6. /\ n + 1 \in 1 .. n + 1 /\ (n + 1) - 1 = n
      /\ \A i \in 1 .. n : i \in 1 .. n + 1 /\ \A j \in 1 .. i - 1 : j \in 1 .. n
      /\ \A i \in 1 .. n + 1 : i \in 1 .. n \/ i = n + 1
  BY <1>5
<1> DEFINE Offered(i, s) ==
             s \in builds'[i].steps /\ builds'[i].config # DefaultExecutionConfig
<1>7. /\ \A i, s : Offers(i, s)' <=> Offered(i, s)
      /\ \A i \in 1 .. n : \A s : Offered(i, s) <=> Offers(i, s)
      /\ \A s : Offered(n + 1, s) <=> s \in R /\ c # DefaultExecutionConfig
  BY <1>4, <1>5 DEF Offers
<1> HIDE DEF Offered
<1>8. ASSUME NEW s \in Made, Own(s) # DefaultExecutionConfig PROVE steps'[s].config = Own(s)
  <2>1. steps[s].config = Own(s)
    BY <1>8 DEF BuilderInv, Configuration, ConfigPropagates
  <2> QED BY <1>2, <1>8, <2>1
<1>9. ASSUME NEW s \in Made, Own(s) = DefaultExecutionConfig
      PROVE \/ /\ steps'[s].config = DefaultExecutionConfig
               /\ \A i \in 1 .. n + 1 : ~Offered(i, s)
            \/ \E i \in 1 .. n + 1 :
                 /\ Offered(i, s) /\ \A j \in 1 .. i - 1 : ~Offered(j, s)
                 /\ steps'[s].config = builds'[i].config
  <2>1. \/ /\ steps[s].config = DefaultExecutionConfig
           /\ \A i \in 1 .. n : ~Offers(i, s)
        \/ \E i \in 1 .. n :
             /\ Offers(i, s) /\ \A j \in 1 .. i - 1 : ~Offers(j, s)
             /\ steps[s].config = builds[i].config
    BY <1>5, <1>9 DEF BuilderInv, Configuration, ConfigPropagates
  <2>2. CASE steps[s].config = DefaultExecutionConfig /\ \A i \in 1 .. n : ~Offers(i, s)
    <3>1. CASE Offered(n + 1, s)
      <4>1. steps'[s].config = builds'[n + 1].config
        BY <1>2, <1>4, <1>5, <1>7, <2>2, <3>1
      <4>2. \A j \in 1 .. (n + 1) - 1 : ~Offered(j, s)
        BY <1>6, <1>7, <2>2
      <4> QED BY <1>6, <3>1, <4>1, <4>2
    <3>2. CASE ~Offered(n + 1, s)
      <4>1. steps'[s].config = DefaultExecutionConfig
        BY <1>2, <1>7, <2>2, <3>2
      <4> QED BY <1>6, <1>7, <2>2, <3>2, <4>1
    <3> QED BY <3>1, <3>2
  <2>3. ASSUME NEW i \in 1 .. n, Offers(i, s), \A j \in 1 .. i - 1 : ~Offers(j, s),
               steps[s].config = builds[i].config
        PROVE /\ Offered(i, s) /\ \A j \in 1 .. i - 1 : ~Offered(j, s)
              /\ steps'[s].config = builds'[i].config
    <3>1. steps[s].config # DefaultExecutionConfig
      BY <2>3 DEF Offers
    <3>2. steps'[s].config = builds'[i].config
      BY <1>2, <1>5, <2>3, <3>1
    <3> QED BY <1>6, <1>7, <2>3, <3>2
  <2> QED BY <1>6, <2>1, <2>2, <2>3
<1>10. ConfigPropagates'
  BY <1>2, <1>5, <1>7, <1>8, <1>9 DEF ConfigPropagates
<1>11. \A i \in 1 .. n + 1 : builds'[i].steps \subseteq Made
  BY <1>4, <1>5, <1>6 DEF BuilderInv, Configuration
<1>12. Configuration'
  BY <1>2, <1>5, <1>10, <1>11 DEF Configuration
<1> QED BY <1>2, <1>5, <1>12

LEMMA BuildElsewhereKeeps ==
  ASSUME BuilderAssumption, BuilderInv, BuildElsewhere
  PROVE BuilderInv'
<1>1. PICK R \in SUBSET (SharedSteps \cap Made), c \in Configs \cup {DefaultExecutionConfig} :
        Configures(R, c)
  BY DEF BuildElsewhere
<1>2. UNCHANGED <<shared, builder, status, groups, guarded, last>>
  BY DEF BuildElsewhere
<1>3. R \in SUBSET Made /\ c \in Settings
  BY DEF Settings
<1>4. /\ Made' = Made
      /\ \A s \in Made :
           /\ steps'[s] \in StepRecords
           /\ Validator(steps'[s], shared) = Validator(steps[s], shared)
      /\ builds' \in Seq([steps : SUBSET StepIDs, config : Settings])
      /\ Configuration'
  BY <1>1, <1>3, ConfiguresKeeps
<1>5. Objects'
  BY <1>2, <1>4 DEF BuilderInv, Objects
<1>6. Grouped(builder, groups, guarded)'
  BY <1>2 DEF BuilderInv
<1>7. ConditionsKept'
  <2>1. CASE last = NoExecution
    <3>1. last'.step = NoStep
      BY <1>2, <2>1 DEF NoExecution
    <3> QED BY <3>1 DEF ConditionsKept
  <2>2. CASE last # NoExecution
    <3>1. Made = StepIDs
      BY <2>2 DEF BuilderInv, Objects, Decided
    <3>2. \A i \in DOMAIN groups : Group(i) \subseteq StepIDs
      <4>1. groups \in Seq(Seq(StepIDs))
        BY DEF BuilderInv, Grouped
      <4>2. \A i \in DOMAIN groups : groups[i] \in Seq(StepIDs)
        BY <4>1
      <4> QED BY <4>2, SetOfSequence DEF Group
    <3>3. \A i, s : Registers(i, s)' <=> Registers(i, s)
      BY <1>2 DEF Registers, Group
    <3>4. \A i \in DOMAIN groups : Registers(i, last.step) =>
            Validator(steps'[last.step], shared) = Validator(steps[last.step], shared)
      BY <1>4, <3>1, <3>2 DEF Registers
    <3>5. ConditionsKept
      BY DEF BuilderInv, Decided
    <3> QED BY <1>2, <3>3, <3>4, <3>5 DEF ConditionsKept
  <2> QED BY <2>1, <2>2
<1>8. Decided'
  BY <1>2, <1>7 DEF BuilderInv, Decided
<1> QED BY <1>4, <1>5, <1>6, <1>8 DEF BuilderInv

LEMMA BuildKeeps ==
  ASSUME BuilderInv, Build
  PROVE BuilderInv'
<1>1. /\ status = "open" /\ Made = StepIDs
      /\ UNCHANGED <<shared, builder, groups, guarded, last>>
  BY DEF Build
<1>2. last' = NoExecution /\ last'.step = NoStep
  <2>1. last' = NoExecution
    BY <1>1 DEF BuilderInv, Decided
  <2> QED BY <2>1 DEF NoExecution
<1>3. Grouped(builder, groups, guarded)'
  BY <1>1 DEF BuilderInv
<1>4. CASE Accepts(builder)
  <2>1. status' = "built" /\ Configures(builder.graph.nodes, builder.config)
    BY <1>4 DEF Build
  <2>2. /\ builder.config \in Settings /\ builder.graph.nodes \in SUBSET Made
    BY <1>1, BuilderFields DEF BuilderInv, Grouped, Sane
  <2>3. /\ Made' = Made /\ \A s \in Made : steps'[s] \in StepRecords
        /\ builds' \in Seq([steps : SUBSET StepIDs, config : Settings])
        /\ Configuration'
    BY <2>1, <2>2, ConfiguresKeeps
  <2>4. Objects'
    BY <1>1, <2>1, <2>3 DEF BuilderInv, Objects
  <2>5. Decided'
    <3>1. Accepts(builder)'
      BY <1>1, <1>4
    <3> QED BY <1>1, <1>2, <2>1, <3>1 DEF Decided, ConditionsKept
  <2> QED BY <1>3, <2>3, <2>4, <2>5 DEF BuilderInv
<1>5. CASE ~Accepts(builder)
  <2>1. /\ status' \in {"rejected", "panicked"} /\ steps' = steps /\ builds' = builds
        /\ Made' = Made
    BY <1>5 DEF Build, Made
  <2>2. Objects'
    BY <1>1, <2>1 DEF BuilderInv, Objects
  <2>3. Configuration'
    BY <1>1, <2>1 DEF BuilderInv, Configuration, ConfigPropagates, Offers
  <2>4. Decided'
    <3>1. (~Accepts(builder))'
      BY <1>1, <1>5
    <3> QED BY <1>1, <1>2, <2>1, <3>1 DEF Decided, ConditionsKept
  <2> QED BY <1>3, <2>2, <2>3, <2>4 DEF BuilderInv
<1> QED BY <1>4, <1>5

\* The handler runs exactly on an accepted input, where the conditions hold
\* that the object has.
LEMMA HandlerRan ==
  ASSUME NEW s, NEW input, NEW result, NEW condition, NEW own
  PROVE Execute(s, input, result, condition, own).ran <=>
          /\ AcceptsInput(Validator(steps[s], shared), input \notin Unreadable, input)
          /\ s \in Conditional => own = "true"
          /\ builder.registered[s] = "if" => condition = "true"
<1> DEFINE accepted == AcceptsInput(Validator(steps[s], shared), input \notin Unreadable, input)
           plain == ExecuteStep(Validator(steps[s], shared), input \notin Unreadable, input, result)
           object == IF s \in Conditional
                     THEN ExecuteConditional(own, DefaultValue[s], plain)
                     ELSE plain
<1>1. Execute(s, input, result, condition, own)
        = IF builder.registered[s] = "if"
          THEN ExecuteWrapped(condition, DefaultValue[s], s \in SameType, input, object)
          ELSE object
  BY DEF Execute
<1>2. plain.ran <=> accepted
  BY DEF ExecuteStep, Outcome, AcceptsInput
<1> HIDE DEF plain, accepted
<1>3. object.ran <=> accepted /\ (s \in Conditional => own = "true")
  BY <1>2 DEF ExecuteConditional, Conditionally, Outcome
<1> HIDE DEF object
<1>4. ExecuteWrapped(condition, DefaultValue[s], s \in SameType, input, object).ran
        <=> condition = "true" /\ object.ran
  BY <1>3 DEF ExecuteWrapped, Conditionally, Outcome
<1>5. Execute(s, input, result, condition, own).ran <=>
        accepted /\ (s \in Conditional => own = "true")
                 /\ (builder.registered[s] = "if" => condition = "true")
  BY <1>1, <1>3, <1>4
<1> QED BY <1>5 DEF accepted

LEMMA RunKeeps ==
  ASSUME BuilderInv, Run
  PROVE BuilderInv'
<1>1. /\ status = "built"
      /\ UNCHANGED <<steps, shared, builder, status, groups, guarded, builds>>
  BY DEF Run
<1>2. PICK s \in builder.graph.nodes, input \in Values, result \in Values \cup {NoValue} :
        \E condition \in Answers(s \in Guarded), own \in Answers(s \in Conditional) :
          last' = [step |-> s, input |-> input, condition |-> condition, own |-> own,
                   outcome |-> Execute(s, input, result, condition, own)]
  BY DEF Run
<1>3. PICK condition \in Answers(s \in Guarded), own \in Answers(s \in Conditional) :
        last' = [step |-> s, input |-> input, condition |-> condition, own |-> own,
                 outcome |-> Execute(s, input, result, condition, own)]
  BY <1>2
<1> DEFINE accepted == AcceptsInput(Validator(steps[s], shared), input \notin Unreadable, input)
<1>4. Objects' /\ Grouped(builder, groups, guarded)' /\ Configuration'
  BY <1>1 DEF BuilderInv, Objects, Made, Configuration, ConfigPropagates, Offers
<1>5. Execute(s, input, result, condition, own).ran <=>
        accepted /\ own = "true" /\ (builder.registered[s] = "if" => condition = "true")
  <2>1. s \in Conditional \/ own = "true"
    BY DEF Answers
  <2> QED BY <2>1, HandlerRan
<1>6. ASSUME NEW i \in DOMAIN groups, Registers(i, s)
      PROVE builder.registered[s] = "if" <=> i \in guarded
  <2>1. Grouped(builder, groups, guarded) /\ s \in StepIDs
    BY BuilderFields DEF BuilderInv, Grouped, Sane
  <2>2. FirstIn(groups, i, s)
    BY <1>6 DEF Registers, Group, FirstIn
  <2> QED BY <2>1, <2>2 DEF Grouped
<1> HIDE DEF accepted
<1>7. ASSUME NEW i \in DOMAIN groups, Registers(i, s)
      PROVE Execute(s, input, result, condition, own).ran <=>
              accepted /\ own = "true" /\ (i \in guarded => condition = "true")
  BY <1>5, <1>6, <1>7
<1>8. ConditionsKept'
  <2>1. /\ last'.step = s /\ last'.input = input
        /\ last'.condition = condition /\ last'.own = own
        /\ last'.outcome = Execute(s, input, result, condition, own)
    BY <1>3
  <2>2. \A i : Registers(i, s)' <=> Registers(i, s)
    BY <1>1 DEF Registers, Group
  <2> QED BY <1>1, <1>7, <2>1, <2>2 DEF ConditionsKept, accepted
<1>9. Decided'
  BY <1>1, <1>8 DEF BuilderInv, Decided
<1> QED BY <1>4, <1>9 DEF BuilderInv
LEMMA NextKeeps ==
  ASSUME BuilderAssumption, ValuesAssumption, BuilderInv, [Next]_vars
  PROVE BuilderInv'
<1>1. CASE MakeStep
  BY <1>1, MakeStepKeeps
<1>2. CASE Add
  BY <1>2, AddKeeps
<1>3. CASE ChooseEntryPoint
  BY <1>3, ChooseEntryPointKeeps
<1>4. CASE WithConfig
  BY <1>4, WithConfigKeeps
<1>5. CASE BuildElsewhere
  BY <1>5, BuildElsewhereKeeps
<1>6. CASE Build
  BY <1>6, BuildKeeps
<1>7. CASE Run
  BY <1>7, RunKeeps
<1>8. CASE UNCHANGED vars
  BY <1>8 DEF vars, BuilderInv, Objects, Made, Configuration, ConfigPropagates, Offers,
              Decided, ConditionsKept, Registers, Group
<1> QED BY <1>1, <1>2, <1>3, <1>4, <1>5, <1>6, <1>7, <1>8 DEF Next

-----------------------------------------------------------------------------
(* The inductive invariant: the builder's graph is that of its calls, and   *)
(* what follows from it of the steps, of Build and of executions.           *)
THEOREM BuilderInvariance == Spec => []BuilderInv
<1>1. Init => BuilderInv
  BY ValuesAssumption, InitEstablishes
<1>2. BuilderInv /\ [Next]_vars => BuilderInv'
  BY BuilderAssumption, ValuesAssumption, NextKeeps
<1>3. QED
  BY <1>1, <1>2, PTL DEF Spec

(* Every variable stays in its range, what the graph names is registered,   *)
(* and the next call chains from steps of the graph, for any calls.         *)
THEOREM BuilderTypeCorrect == Spec => []BuilderTypeOK
<1>1. BuilderInv => BuilderTypeOK
  BY InvGivesTypes
<1>2. QED
  BY <1>1, BuilderInvariance, PTL

(* For any number of steps and calls, Build accepts exactly the calls of    *)
(* which the first adds the entry point alone and no two add one step.      *)
THEOREM BuildAcceptsExactly == Spec => []AcceptedExactly
<1>1. BuilderInv => AcceptedExactly
  BY InvGivesAcceptance
<1>2. QED
  BY <1>1, BuilderInvariance, PTL

(* The levels of what it accepted are the calls, in their order, and a step *)
(* takes its input from the first step of the call before.                  *)
THEOREM CallsAreLevels == Spec => []LevelsAreCalls
<1>1. BuilderInv => LevelsAreCalls
  BY InvGivesLevels
<1>2. QED
  BY <1>1, BuilderInvariance, PTL

(* What Build accepts satisfies what WorkflowEngine assumes of its          *)
(* constants, from any calls, also those that added no step.                *)
THEOREM BuiltFits == Spec => []BuiltFitsEngine
<1>1. BuilderInv => BuiltFitsEngine
  BY InvGivesFit
<1>2. QED
  BY <1>1, BuilderInvariance, PTL

(* In any workflow that is built, with any calls, a step's handler runs on   *)
(* an input it accepts if and only if its own condition holds and that of   *)
(* the call that registered it: the condition of a later call is dropped,   *)
(* because AddStep ignores a step that is registered already.               *)
THEOREM ConditionsAreKept == Spec => []ConditionsKept
<1>1. BuilderInv => ConditionsKept
  BY DEF BuilderInv, Decided
<1>2. QED
  BY <1>1, BuilderInvariance, PTL

(* Whatever other workflows are built, before, between and after the calls  *)
(* of this one: a step keeps what its options configured, and otherwise the *)
(* configuration of the first workflow built with it that had one, in the   *)
(* order of the calls of Build.                                             *)
THEOREM ConfigurationPropagates == Spec => []ConfigPropagates
<1>1. BuilderInv => ConfigPropagates
  BY InvGivesPropagation
<1>2. QED
  BY <1>1, BuilderInvariance, PTL
===============================================================================
