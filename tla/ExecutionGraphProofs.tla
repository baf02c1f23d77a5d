-------------------------- MODULE ExecutionGraphProofs --------------------------
(***************************************************************************)
(* Facts about graphs and sequences, for the proofs about ExecutionGraph.   *)
(* Valid and Levels are defined by the paths from the entry point; the      *)
(* algorithms that answer them never see a path.  Between the two:          *)
(*                                                                          *)
(*   - a graph is valid when the steps can be ranked, the successors of a   *)
(*     step lower than the step, and the entry point is in no closed set    *)
(*     of steps but the set of all;                                         *)
(*   - the levels are the values of the one function that is zero at the    *)
(*     entry point, larger at each successor, and larger by one than at     *)
(*     some predecessor.                                                    *)
(*                                                                          *)
(* The induction over paths these need is by the least counterexample.      *)
(*                                                                         *)
(* The rest is about the two algorithms: what the depth-first walk and the  *)
(* search of ComputeLevels keep true at every step, and what follows when   *)
(* they end.                                                                *)
(***************************************************************************)
EXTENDS ExecutionGraph, FiniteSetTheorems, SequenceTheorems, TLAPS

-----------------------------------------------------------------------------
(* Numbers and sequences.                                                   *)

\* Every set of natural numbers that is not empty has a least element.
LEMMA Least ==
  ASSUME NEW T \in SUBSET Nat, T # {}
  PROVE \E x \in T : \A y \in T : x <= y
<1>1. PICK x \in T : \A y \in T : <<y, x>> \notin OpToRel(<, Nat)
  BY NatLessThanWellFounded, WFMin
<1>2. \A y \in T : ~(y < x)
  BY <1>1 DEF OpToRel
<1> QED BY <1>2

\* A set of natural numbers below a bound has a largest element.
LEMMA Largest ==
  ASSUME NEW T \in SUBSET Nat, T # {}, NEW n \in Nat, \A x \in T : x <= n
  PROVE \E x \in T : \A y \in T : y <= x
<1> DEFINE U == {m \in Nat : \A y \in T : y <= m}
<1>1. PICK m \in U : \A x \in U : m <= x
  BY Least
<1>2. m \in T
  <2> SUFFICES ASSUME m \notin T PROVE FALSE
    OBVIOUS
  <2>1. \A y \in T : y < m
    BY <1>1
  <2>2. m > 0
    <3>1. PICK y : y \in T
      OBVIOUS
    <3>2. y \in Nat /\ m \in Nat /\ y < m
      BY <1>1, <2>1, <3>1
    <3> QED BY <3>2
  <2>3. m - 1 \in U
    BY <1>1, <2>1, <2>2
  <2> QED BY <1>1, <2>3
<1> QED BY <1>1, <1>2

\* The first and the last of a sequence, and what is left.
LEMMA SequenceEnds ==
  ASSUME NEW S, NEW s \in Seq(S), s # <<>>
  PROVE /\ Len(s) \in Nat \ {0} /\ DOMAIN s = 1 .. Len(s)
        /\ Head(s) = s[1] /\ Head(s) \in S
        /\ Tail(s) \in Seq(S) /\ Len(Tail(s)) = Len(s) - 1
        /\ \A i \in 1 .. Len(s) - 1 : Tail(s)[i] = s[i + 1]
        /\ Last(s) = s[Len(s)] /\ Last(s) \in S
        /\ Front(s) \in Seq(S) /\ Len(Front(s)) = Len(s) - 1
        /\ \A i \in 1 .. Len(s) - 1 : Front(s)[i] = s[i]
<1>1. Len(s) \in Nat \ {0} /\ DOMAIN s = 1 .. Len(s) /\ \A i \in 1 .. Len(s) : s[i] \in S
  OBVIOUS
<1>2. /\ Head(s) = s[1] /\ Tail(s) \in Seq(S) /\ Len(Tail(s)) = Len(s) - 1
      /\ \A i \in 1 .. Len(s) - 1 : Tail(s)[i] = s[i + 1]
  BY <1>1
<1>3. /\ SubSeq(s, 1, Len(s) - 1) \in Seq(S) /\ Len(SubSeq(s, 1, Len(s) - 1)) = Len(s) - 1
      /\ \A i \in 1 .. Len(s) - 1 : SubSeq(s, 1, Len(s) - 1)[i] = s[i]
  BY <1>1
<1> QED BY <1>1, <1>2, <1>3 DEF Front, Last

\* What Append does to a sequence, element by element.
LEMMA AppendFacts ==
  ASSUME NEW S, NEW s \in Seq(S), NEW x \in S
  PROVE /\ Append(s, x) \in Seq(S) /\ Len(Append(s, x)) = Len(s) + 1 /\ Append(s, x) # <<>>
        /\ DOMAIN Append(s, x) = 1 .. Len(s) + 1
        /\ \A i \in 1 .. Len(s) : Append(s, x)[i] = s[i]
        /\ Append(s, x)[Len(s) + 1] = x
        /\ ToSet(Append(s, x)) = ToSet(s) \cup {x}
        /\ Last(Append(s, x)) = x /\ Front(Append(s, x)) = s
<1>1. /\ Append(s, x) \in Seq(S) /\ Len(Append(s, x)) = Len(s) + 1 /\ Append(s, x) # <<>>
      /\ DOMAIN Append(s, x) = 1 .. Len(s) + 1
      /\ \A i \in 1 .. Len(s) : Append(s, x)[i] = s[i]
      /\ Append(s, x)[Len(s) + 1] = x
  OBVIOUS
<1>2. ToSet(Append(s, x)) = ToSet(s) \cup {x}
  BY <1>1 DEF ToSet
<1>3. Last(Append(s, x)) = x
  BY <1>1 DEF Last
<1>4. Front(Append(s, x)) = s
  <2>1. /\ Front(Append(s, x)) \in Seq(S) /\ Len(Front(Append(s, x))) = Len(s)
        /\ \A i \in 1 .. Len(s) : Front(Append(s, x))[i] = s[i]
    <3>1. \A t \in Seq(S) : t # <<>> =>
            /\ Front(t) \in Seq(S) /\ Len(Front(t)) = Len(t) - 1
            /\ \A i \in 1 .. Len(t) - 1 : Front(t)[i] = t[i]
      BY SequenceEnds
    <3> DEFINE t == Append(s, x)
    <3>2. t \in Seq(S) /\ t # <<>> /\ Len(t) = Len(s) + 1 /\ \A i \in 1 .. Len(s) : t[i] = s[i]
      BY <1>1
    <3> HIDE DEF t
    <3>3. /\ Front(t) \in Seq(S) /\ Len(Front(t)) = Len(t) - 1
          /\ \A i \in 1 .. Len(t) - 1 : Front(t)[i] = t[i]
      BY <3>1, <3>2
    <3>4. Len(s) \in Nat
      OBVIOUS
    <3>5. /\ Front(t) \in Seq(S) /\ Len(Front(t)) = Len(s)
          /\ \A i \in 1 .. Len(s) : Front(t)[i] = s[i]
      BY <3>2, <3>3, <3>4
    <3> QED BY <3>5 DEF t
  <2> QED BY <2>1, SeqEqual
<1> QED BY <1>1, <1>2, <1>3, <1>4

\* The set of a sequence, and what Tail leaves of it.
LEMMA SetOfSequence ==
  ASSUME NEW S, NEW s \in Seq(S)
  PROVE /\ ToSet(s) \subseteq S
        /\ \A x : x \in ToSet(s) <=> \E i \in 1 .. Len(s) : s[i] = x
        /\ ToSet(s) = {} <=> s = <<>>
        /\ s # <<>> => ToSet(s) = {Head(s)} \cup ToSet(Tail(s))
<1>1. DOMAIN s = 1 .. Len(s) /\ Len(s) \in Nat /\ \A i \in 1 .. Len(s) : s[i] \in S
  OBVIOUS
<1>2. ToSet(s) \subseteq S /\ \A x : x \in ToSet(s) <=> \E i \in 1 .. Len(s) : s[i] = x
  BY <1>1 DEF ToSet
<1>3. ToSet(s) = {} <=> s = <<>>
  <2>1. s # <<>> => 1 \in 1 .. Len(s)
    BY EmptySeq
  <2>2. s = <<>> => Len(s) = 0
    BY EmptySeq
  <2> QED BY <1>1, <1>2, <2>1, <2>2
<1>4. ASSUME s # <<>> PROVE ToSet(s) = {Head(s)} \cup ToSet(Tail(s))
  <2>1. /\ Tail(s) \in Seq(S) /\ Len(Tail(s)) = Len(s) - 1 /\ Head(s) = s[1]
        /\ \A i \in 1 .. Len(s) - 1 : Tail(s)[i] = s[i + 1]
    BY <1>4, SequenceEnds
  <2>2. \A x : x \in ToSet(Tail(s)) <=> \E i \in 1 .. Len(s) - 1 : s[i + 1] = x
    <3>1. DOMAIN Tail(s) = 1 .. Len(s) - 1
      BY <2>1
    <3> QED BY <2>1, <3>1 DEF ToSet
  <2>3. \A x : x \in ToSet(s) <=> (x = s[1] \/ \E i \in 1 .. Len(s) - 1 : s[i + 1] = x)
    <3> TAKE x
    <3>1. (\E i \in 1 .. Len(s) - 1 : s[i + 1] = x) => x \in ToSet(s)
      BY <1>1, <1>2
    <3>2. ASSUME NEW i \in 1 .. Len(s), s[i] = x
          PROVE x = s[1] \/ \E j \in 1 .. Len(s) - 1 : s[j + 1] = x
      <4>1. CASE i = 1
        BY <3>2, <4>1
      <4>2. CASE i # 1
        <5>1. i - 1 \in 1 .. Len(s) - 1 /\ s[(i - 1) + 1] = x
          BY <1>1, <3>2, <4>2
        <5> QED BY <5>1
      <4> QED BY <4>1, <4>2
    <3>3. x = s[1] => x \in ToSet(s)
      BY <1>1, <1>2, <1>4
    <3> QED BY <1>2, <3>1, <3>2, <3>3
  <2> QED BY <2>1, <2>2, <2>3
<1> QED BY <1>2, <1>3, <1>4
-----------------------------------------------------------------------------
(* Graphs, and the paths of a graph.                                        *)

\* The graphs that the mutators make: finitely many nodes, edges between them.
Shape(g) ==
  /\ g \in Graph /\ IsFiniteSet(g.nodes)
  /\ \A s \in StepIDs : ToSet(g.next[s]) \subseteq g.nodes

Successors(g, s) == ToSet(g.next[s])

\* At(g) is what its definition says: one exists for each number of steps.
LEMMA Paths ==
  ASSUME NEW g, Shape(g), g.entry \in g.nodes
  PROVE LET N == Cardinality(g.nodes) IN
        /\ N \in Nat \ {0} /\ DOMAIN At(g) = 0 .. N /\ At(g)[0] = {g.entry}
        /\ \A k \in 1 .. N : At(g)[k] = UNION {Successors(g, s) : s \in At(g)[k - 1]}
        /\ \A k \in 0 .. N : At(g)[k] \subseteq g.nodes
<1> DEFINE N == Cardinality(g.nodes)
           Start(f) == f[0] = {g.entry}
           Goes(f, n) == \A k \in 1 .. n : f[k] = UNION {Successors(g, s) : s \in f[k - 1]}
           Upto(n) == \E f : DOMAIN f = 0 .. n /\ Start(f) /\ Goes(f, n)
           Step(f) == [k \in 0 .. N |->
                         IF k = 0 THEN {g.entry} ELSE UNION {Successors(g, s) : s \in f[k - 1]}]
<1>1. N \in Nat \ {0}
  <2>1. N \in Nat /\ (N = 0 <=> g.nodes = {})
    BY FS_CardinalityType, FS_EmptySet DEF Shape
  <2> QED BY <2>1
<1> HIDE DEF N
<1>2. Upto(0)
  <2> DEFINE f == [k \in 0 .. 0 |-> {g.entry}]
  <2>1. DOMAIN f = 0 .. 0 /\ Start(f) /\ Goes(f, 0)
    OBVIOUS
  <2> QED BY <2>1
<1>3. ASSUME NEW n \in Nat, Upto(n) PROVE Upto(n + 1)
  <2>1. PICK f : DOMAIN f = 0 .. n /\ Start(f) /\ Goes(f, n)
    BY <1>3
  <2> DEFINE e == [k \in 0 .. n + 1 |->
                     IF k = n + 1 THEN UNION {Successors(g, s) : s \in f[n]} ELSE f[k]]
  <2>2. DOMAIN e = 0 .. n + 1 /\ Start(e)
    BY <2>1
  <2>3. ASSUME NEW k \in 1 .. n + 1 PROVE e[k] = UNION {Successors(g, s) : s \in e[k - 1]}
    <3>1. CASE k = n + 1
      <4>1. e[k - 1] = f[n]
        BY <3>1
      <4> QED BY <3>1, <4>1
    <3>2. CASE k # n + 1
      <4>1. k \in 1 .. n /\ e[k] = f[k] /\ e[k - 1] = f[k - 1]
        BY <3>2
      <4> HIDE DEF e
      <4> QED BY <2>1, <4>1
    <3> QED BY <3>1, <3>2
  <2> HIDE DEF e
  <2> QED BY <2>2, <2>3
<1> HIDE DEF Upto
<1>4. Upto(N)
  <2> DEFINE T == {n \in Nat : ~Upto(n)}
  <2> SUFFICES ASSUME T # {} PROVE FALSE
    BY <1>1
  <2>1. PICK n \in T : \A m \in T : n <= m
    BY Least
  <2>2. n # 0
    BY <1>2, <2>1
  <2>3. n - 1 \in Nat /\ n - 1 \notin T
    BY <2>1, <2>2
  <2>4. Upto((n - 1) + 1)
    BY <1>3, <2>3
  <2>5. (n - 1) + 1 = n
    BY <2>1
  <2> QED BY <2>1, <2>4, <2>5
<1>5. \E f : f = Step(f)
  <2>1. PICK f : DOMAIN f = 0 .. N /\ Start(f) /\ Goes(f, N)
    BY <1>4 DEF Upto
  <2> DEFINE e == [k \in 0 .. N |-> f[k]]
  <2>2. \A k \in 0 .. N : e[k] = Step(e)[k]
    <3> TAKE k \in 0 .. N
    <3>1. CASE k = 0
      BY <1>1, <2>1, <3>1
    <3>2. CASE k # 0
      <4>1. k \in 1 .. N /\ k - 1 \in 0 .. N
        BY <1>1, <3>2
      <4>2. e[k] = f[k] /\ e[k - 1] = f[k - 1]
        BY <4>1
      <4>3. Step(e)[k] = UNION {Successors(g, s) : s \in e[k - 1]}
        BY <4>1
      <4> HIDE DEF e, Step
      <4> QED BY <2>1, <4>1, <4>2, <4>3
    <3> QED BY <3>1, <3>2
  <2>3. e = Step(e)
    <3>1. Step(e) = [k \in 0 .. N |-> Step(e)[k]]
      OBVIOUS
    <3> HIDE DEF Step
    <3> QED BY <2>2, <3>1
  <2> QED BY <2>3
<1>6. At(g) = CHOOSE f : f = Step(f)
  BY DEF At, Successors, N
<1>7. At(g) = Step(At(g))
  <2> HIDE DEF Step
  <2> QED BY <1>5, <1>6
<1>8. /\ DOMAIN At(g) = 0 .. N /\ At(g)[0] = {g.entry}
      /\ \A k \in 1 .. N : At(g)[k] = UNION {Successors(g, s) : s \in At(g)[k - 1]}
  <2>1. DOMAIN At(g) = 0 .. N
    BY <1>7
  <2>2. \A k \in 0 .. N : At(g)[k] = Step(At(g))[k]
    BY <1>7
  <2>3. Step(At(g))[0] = {g.entry}
    BY <1>1
  <2>4. \A k \in 1 .. N : Step(At(g))[k] = UNION {Successors(g, s) : s \in At(g)[k - 1]}
    BY <1>1
  <2> HIDE DEF Step
  <2> QED BY <1>1, <2>1, <2>2, <2>3, <2>4
<1>9. \A k \in 0 .. N : At(g)[k] \subseteq g.nodes
  <2> DEFINE T == {k \in 0 .. N : ~(At(g)[k] \subseteq g.nodes)}
  <2> SUFFICES ASSUME T # {} PROVE FALSE
    OBVIOUS
  <2>1. PICK k \in T : \A m \in T : k <= m
    <3>1. T \subseteq Nat
      BY <1>1
    <3> QED BY <3>1, Least
  <2>2. k # 0
    BY <1>8, <2>1
  <2>3. k \in 1 .. N /\ k - 1 \in 0 .. N /\ k - 1 \notin T
    BY <1>1, <2>1, <2>2
  <2>4. At(g)[k - 1] \subseteq StepIDs
    BY <2>3 DEF Shape, Graph
  <2>5. At(g)[k] \subseteq g.nodes
    BY <1>8, <2>3, <2>4 DEF Shape, Successors
  <2> QED BY <2>1, <2>5
<1> QED BY <1>1, <1>8, <1>9 DEF N
-----------------------------------------------------------------------------
(* What the mutators do to the fields of a graph.                           *)

NoCaches(g) == g.sortCache = <<>> /\ g.levelCache = <<>>

\* The fields of a graph that lost its caches.
LEMMA InvalidatedFields ==
  ASSUME NEW g \in Graph
  PROVE LET f == Invalidated(g)
        IN /\ f \in Graph /\ NoCaches(f)
           /\ f.entry = g.entry /\ f.nodes = g.nodes /\ f.next = g.next /\ f.previous = g.previous
<1> DEFINE f == Invalidated(g)
           f1 == [g EXCEPT !.sortCache = <<>>]
<1>1. <<>> \in Seq(StepIDs) /\ <<>> \in Seq(SUBSET StepIDs)
  OBVIOUS
<1>2. /\ f1 \in Graph /\ f1.sortCache = <<>> /\ f1.entry = g.entry /\ f1.nodes = g.nodes
      /\ f1.next = g.next /\ f1.previous = g.previous
  BY <1>1 DEF Graph
<1>3. f = [f1 EXCEPT !.levelCache = <<>>]
  BY DEF Invalidated
<1> HIDE DEF f1, f
<1>4. /\ f \in Graph /\ f.levelCache = <<>> /\ f.sortCache = f1.sortCache /\ f.entry = f1.entry
      /\ f.nodes = f1.nodes /\ f.next = f1.next /\ f.previous = f1.previous
  BY <1>1, <1>2, <1>3 DEF Graph
<1> QED BY <1>2, <1>4 DEF NoCaches, f

\* A node more, and the entry point if there was none.
LEMMA AddNodeFields ==
  ASSUME NEW g \in Graph, NEW s \in StepIDs
  PROVE LET f == AddNode(g, s)
        IN /\ f \in Graph /\ NoCaches(f) /\ f.nodes = g.nodes \cup {s}
           /\ f.next = g.next /\ f.previous = g.previous
<1> DEFINE m1 == [g EXCEPT !.nodes = @ \cup {s}]
           m == [m1 EXCEPT !.entry = IF @ = NoStep THEN s ELSE @]
<1>1. /\ m1 \in Graph /\ m1.nodes = g.nodes \cup {s} /\ m1.entry = g.entry
      /\ m1.next = g.next /\ m1.previous = g.previous
  BY DEF Graph
<1> HIDE DEF m1
<1>2. m1.entry \in StepIDs \cup {NoStep}
  BY <1>1 DEF Graph
<1>3. /\ m \in Graph /\ m.nodes = m1.nodes /\ m.next = m1.next /\ m.previous = m1.previous
  BY <1>1, <1>2 DEF Graph
<1>4. AddNode(g, s) = Invalidated(m)
  BY DEF AddNode, m1
<1> HIDE DEF m
<1> QED BY <1>1, <1>3, <1>4, InvalidatedFields

\* Another entry point.
LEMMA SetEntryFields ==
  ASSUME NEW g \in Graph, NEW s \in StepIDs
  PROVE LET f == SetEntryPoint(g, s)
        IN /\ f \in Graph /\ (f = g \/ NoCaches(f))
           /\ f.nodes = g.nodes /\ f.next = g.next /\ f.previous = g.previous
<1>1. CASE s \notin g.nodes
  BY <1>1 DEF SetEntryPoint
<1>2. CASE s \in g.nodes
  <2> DEFINE m == [g EXCEPT !.entry = s]
  <2>1. /\ m \in Graph /\ m.nodes = g.nodes /\ m.next = g.next /\ m.previous = g.previous
    BY DEF Graph
  <2>2. SetEntryPoint(g, s) = Invalidated(m)
    BY <1>2 DEF SetEntryPoint
  <2> HIDE DEF m
  <2> QED BY <2>1, <2>2, InvalidatedFields
<1> QED BY <1>1, <1>2

\* f is g with an edge more, at both of its ends.
EdgeAdded(g, f, s, t) ==
  /\ f \in Graph /\ NoCaches(f) /\ f.nodes = g.nodes
  /\ f.previous[t] = Append(g.previous[t], s)
  /\ \A u \in StepIDs : u # s => f.next[u] = g.next[u]
  /\ \A u \in StepIDs : u # t => f.previous[u] = g.previous[u]
  /\ \A u \in StepIDs :
       Successors(f, u) = IF u = s THEN Successors(g, u) \cup {t} ELSE Successors(g, u)
  /\ ToSet(f.previous[t]) = ToSet(g.previous[t]) \cup {s}

LEMMA AddEdgeFields ==
  ASSUME NEW g \in Graph, NEW s \in g.nodes, NEW t \in g.nodes
  PROVE EdgeAdded(g, AddEdge(g, s, t), s, t)
<1> DEFINE m1 == [g EXCEPT !.next[s] = Append(@, t)]
           m == [m1 EXCEPT !.previous[t] = Append(@, s)]
           nx == [g.next EXCEPT ![s] = Append(@, t)]
           pr == [g.previous EXCEPT ![t] = Append(@, s)]
<1>1. /\ s \in StepIDs /\ t \in StepIDs
      /\ g.next \in [StepIDs -> Seq(StepIDs)] /\ g.previous \in [StepIDs -> Seq(StepIDs)]
  BY DEF Graph
<1>2. /\ Append(g.next[s], t) \in Seq(StepIDs) /\ Append(g.previous[t], s) \in Seq(StepIDs)
      /\ ToSet(Append(g.next[s], t)) = ToSet(g.next[s]) \cup {t}
      /\ ToSet(Append(g.previous[t], s)) = ToSet(g.previous[t]) \cup {s}
  <2>1. g.next[s] \in Seq(StepIDs) /\ g.previous[t] \in Seq(StepIDs)
    BY <1>1
  <2> QED BY <1>1, <2>1, AppendFacts
<1>3. /\ nx \in [StepIDs -> Seq(StepIDs)] /\ pr \in [StepIDs -> Seq(StepIDs)]
      /\ nx[s] = Append(g.next[s], t) /\ pr[t] = Append(g.previous[t], s)
      /\ \A u \in StepIDs : u # s => nx[u] = g.next[u]
      /\ \A u \in StepIDs : u # t => pr[u] = g.previous[u]
  BY <1>1, <1>2
<1>4. m1 = [g EXCEPT !.next = nx]
  BY DEF Graph
<1> HIDE DEF nx, m1
<1>5. /\ m1 \in Graph /\ m1.nodes = g.nodes /\ m1.next = nx /\ m1.previous = g.previous
  BY <1>3, <1>4 DEF Graph
<1>6. m = [m1 EXCEPT !.previous = pr]
  BY <1>5 DEF Graph
<1>7. AddEdge(g, s, t) = Invalidated(m)
  BY DEF AddEdge, m1
<1> HIDE DEF m, pr
<1>8. m \in Graph /\ m.nodes = g.nodes /\ m.next = nx /\ m.previous = pr
  BY <1>3, <1>5, <1>6 DEF Graph
<1>9. LET f == Invalidated(m)
      IN /\ f \in Graph /\ NoCaches(f)
         /\ f.nodes = m.nodes /\ f.next = m.next /\ f.previous = m.previous
  BY <1>8, InvalidatedFields
<1> QED BY <1>2, <1>3, <1>7, <1>8, <1>9 DEF EdgeAdded, Successors
-----------------------------------------------------------------------------
(* Valid graphs.                                                            *)

\* Numbers for the steps, lower ones for the successors of a step.
Ranks(g) ==
  {r \in [g.nodes -> 1 .. Cardinality(g.nodes)] :
     \A s \in g.nodes : \A t \in Successors(g, s) : r[t] < r[s]}

\* A set of steps that holds the entry point and all that follows.
Closed(g, C) ==
  C \subseteq g.nodes /\ g.entry \in C /\ \A s \in C : Successors(g, s) \subseteq C
Reached(g) == \A C \in SUBSET g.nodes : Closed(g, C) => C = g.nodes

Sound(g) == g.entry \in g.nodes /\ Ranks(g) # {} /\ Reached(g)

\* The edges of a graph join its nodes.
LEMMA ShapeFacts ==
  ASSUME NEW g, Shape(g)
  PROVE /\ g.nodes \subseteq StepIDs
        /\ \A s \in g.nodes : Successors(g, s) \subseteq g.nodes
BY DEF Shape, Graph, Successors

\* A path has no more edges than there are ranks below the entry point's.
LEMMA PathsEnd ==
  ASSUME NEW g, Shape(g), g.entry \in g.nodes, NEW r \in Ranks(g)
  PROVE At(g)[Cardinality(g.nodes)] = {}
<1> DEFINE N == Cardinality(g.nodes)
           T == {k \in 0 .. N : \E s \in At(g)[k] : r[s] > N - k}
<1>1. /\ N \in Nat \ {0} /\ At(g)[0] = {g.entry}
      /\ \A k \in 1 .. N : At(g)[k] = UNION {Successors(g, s) : s \in At(g)[k - 1]}
      /\ \A k \in 0 .. N : At(g)[k] \subseteq g.nodes
  BY Paths
<1>2. r \in [g.nodes -> 1 .. N] /\ \A s \in g.nodes : \A t \in Successors(g, s) : r[t] < r[s]
  BY DEF Ranks
<1> HIDE DEF N
<1>3. T = {}
  <2> SUFFICES ASSUME T # {} PROVE FALSE
    OBVIOUS
  <2>1. PICK k \in T : \A m \in T : k <= m
    <3>1. T \subseteq Nat
      BY <1>1
    <3> QED BY <3>1, Least
  <2>2. PICK s \in At(g)[k] : r[s] > N - k
    BY <2>1
  <2>3. k # 0
    BY <1>1, <1>2, <2>2
  <2>4. k \in 1 .. N /\ k - 1 \in 0 .. N /\ k - 1 \notin T
    BY <1>1, <2>1, <2>3
  <2>5. PICK p \in At(g)[k - 1] : s \in Successors(g, p)
    BY <1>1, <2>2, <2>4
  <2>6. ~(r[p] > N - (k - 1))
    BY <2>4, <2>5
  <2>7. p \in g.nodes /\ s \in g.nodes
    BY <1>1, <2>2, <2>4, <2>5, ShapeFacts
  <2>8. r[s] < r[p] /\ r[s] \in Int /\ r[p] \in Int
    BY <1>2, <2>5, <2>7
  <2> QED BY <1>1, <2>2, <2>4, <2>6, <2>8
<1>4. ASSUME NEW s \in At(g)[N] PROVE FALSE
  <2>1. s \in g.nodes /\ N \in 0 .. N
    BY <1>1, <1>4
  <2>2. ~(r[s] > N - N)
    BY <1>3, <2>1
  <2> QED BY <1>1, <1>2, <2>1, <2>2
<1> QED BY <1>4 DEF N

\* A graph with ranks and without steps out of reach is valid: least
\* counterexamples turn the closed set of all path ends into At(g).
LEMMA SoundIsValid ==
  ASSUME NEW g, Shape(g), Sound(g)
  PROVE Valid(g)
<1> DEFINE N == Cardinality(g.nodes)
           U == UNION {At(g)[k] : k \in DOMAIN At(g)}
<1>1. PICK r : r \in Ranks(g)
  BY DEF Sound
<1>2. g.entry \in g.nodes
  BY DEF Sound
<1>3. /\ N \in Nat \ {0} /\ DOMAIN At(g) = 0 .. N /\ At(g)[0] = {g.entry}
      /\ \A k \in 1 .. N : At(g)[k] = UNION {Successors(g, s) : s \in At(g)[k - 1]}
      /\ \A k \in 0 .. N : At(g)[k] \subseteq g.nodes
  BY <1>2, Paths
<1>4. At(g)[N] = {}
  BY <1>1, <1>2, PathsEnd
<1> HIDE DEF N
<1>5. U \subseteq g.nodes /\ g.entry \in U
  BY <1>3
<1>6. ASSUME NEW s \in U PROVE Successors(g, s) \subseteq U
  <2>1. PICK k \in 0 .. N : s \in At(g)[k]
    BY <1>3
  <2>2. k # N
    BY <1>4, <2>1
  <2>3. k + 1 \in 1 .. N /\ k + 1 \in 0 .. N /\ (k + 1) - 1 = k
    BY <1>3, <2>2
  <2>4. Successors(g, s) \subseteq At(g)[k + 1]
    BY <1>3, <2>1, <2>3
  <2> QED BY <1>3, <2>3, <2>4
<1>7. U = g.nodes
  BY <1>5, <1>6 DEF Sound, Reached, Closed
<1> QED BY <1>2, <1>4, <1>7 DEF Valid, N

\* The longest path to a step of a valid graph.
LEMMA LongestPath ==
  ASSUME NEW g, Shape(g), Valid(g), NEW s \in g.nodes
  PROVE \E k \in 0 .. Cardinality(g.nodes) - 1 :
          s \in At(g)[k] /\ \A m \in DOMAIN At(g) : s \in At(g)[m] => m <= k
<1> DEFINE N == Cardinality(g.nodes)
           T == {k \in 0 .. N : s \in At(g)[k]}
<1>1. N \in Nat \ {0} /\ DOMAIN At(g) = 0 .. N /\ At(g)[N] = {}
  BY Paths DEF Valid
<1>2. \E k \in DOMAIN At(g) : s \in At(g)[k]
  BY DEF Valid
<1> HIDE DEF N
<1>3. T # {} /\ T \subseteq Nat /\ \A k \in T : k <= N
  BY <1>1, <1>2
<1>4. PICK k \in T : \A m \in T : m <= k
  BY <1>1, <1>3, Largest
<1>5. k # N
  BY <1>1, <1>4
<1>6. k \in 0 .. N - 1
  BY <1>1, <1>4, <1>5
<1> QED BY <1>1, <1>4, <1>6 DEF N

\* And the other way round: the longest paths of a valid graph rank it.
LEMMA ValidIsSound ==
  ASSUME NEW g, Shape(g), Valid(g)
  PROVE Sound(g)
<1> DEFINE N == Cardinality(g.nodes)
           Longest(s, k) ==
             s \in At(g)[k] /\ \A m \in DOMAIN At(g) : s \in At(g)[m] => m <= k
           h == [s \in g.nodes |-> CHOOSE k \in 0 .. N - 1 : Longest(s, k)]
           r == [s \in g.nodes |-> N - h[s]]
<1>1. g.entry \in g.nodes
  BY DEF Valid
<1>2. /\ N \in Nat \ {0} /\ DOMAIN At(g) = 0 .. N /\ At(g)[0] = {g.entry}
      /\ \A k \in 1 .. N : At(g)[k] = UNION {Successors(g, s) : s \in At(g)[k - 1]}
      /\ \A k \in 0 .. N : At(g)[k] \subseteq g.nodes
  BY <1>1, Paths
<1>3. \A s \in g.nodes : \E k \in 0 .. N - 1 : Longest(s, k)
  BY LongestPath
<1>4. UNION {At(g)[k] : k \in DOMAIN At(g)} = g.nodes
  BY DEF Valid
<1> HIDE DEF N, Longest
<1>5. \A s \in g.nodes : h[s] \in 0 .. N - 1 /\ Longest(s, h[s])
  BY <1>3
<1> HIDE DEF h
<1>6. r \in [g.nodes -> 1 .. N]
  BY <1>2, <1>5
<1>7. ASSUME NEW s \in g.nodes, NEW t \in Successors(g, s) PROVE r[t] < r[s]
  <2>1. t \in g.nodes
    BY <1>7, ShapeFacts
  <2>2. h[s] \in 0 .. N - 1 /\ s \in At(g)[h[s]]
    BY <1>5 DEF Longest
  <2>3. h[s] + 1 \in 1 .. N /\ (h[s] + 1) - 1 = h[s]
    BY <1>2, <2>2
  <2>4. t \in At(g)[h[s] + 1]
    BY <1>2, <1>7, <2>2, <2>3
  <2>5. h[t] \in 0 .. N - 1 /\ h[s] + 1 <= h[t]
    BY <1>2, <1>5, <2>1, <2>3, <2>4 DEF Longest
  <2> QED BY <1>2, <2>1, <2>2, <2>5
<1>8. r \in Ranks(g)
  BY <1>6, <1>7 DEF Ranks, N
<1>9. ASSUME NEW C \in SUBSET g.nodes, Closed(g, C) PROVE C = g.nodes
  <2> DEFINE T == {k \in 0 .. N : ~(At(g)[k] \subseteq C)}
  <2>1. T = {}
    <3> SUFFICES ASSUME T # {} PROVE FALSE
      OBVIOUS
    <3>1. PICK k \in T : \A m \in T : k <= m
      <4>1. T \subseteq Nat
        BY <1>2
      <4> QED BY <4>1, Least
    <3>2. k # 0
      BY <1>2, <1>9, <3>1 DEF Closed
    <3>3. k \in 1 .. N /\ k - 1 \in 0 .. N /\ k - 1 \notin T
      BY <1>2, <3>1, <3>2
    <3>4. At(g)[k - 1] \subseteq C
      BY <3>3
    <3>5. At(g)[k] \subseteq C
      BY <1>2, <1>9, <3>3, <3>4 DEF Closed
    <3> QED BY <3>1, <3>5
  <2>2. \A k \in 0 .. N : At(g)[k] \subseteq C
    BY <2>1
  <2>3. g.nodes \subseteq C
    BY <1>2, <1>4, <2>2
  <2> QED BY <2>3
<1>10. Ranks(g) # {} /\ Reached(g)
  BY <1>8, <1>9 DEF Reached
<1> QED BY <1>1, <1>10 DEF Sound

\* No path comes back to the entry point.
LEMMA NothingBeforeEntry ==
  ASSUME NEW g, Shape(g), Sound(g), NEW p \in g.nodes
  PROVE g.entry \notin Successors(g, p)
<1>1. PICK r : r \in Ranks(g)
  BY DEF Sound
<1> DEFINE C == {s \in g.nodes : r[s] <= r[g.entry]}
<1>2. /\ r \in [g.nodes -> 1 .. Cardinality(g.nodes)] /\ g.entry \in g.nodes
      /\ \A s \in g.nodes : \A t \in Successors(g, s) : r[t] < r[s]
      /\ Cardinality(g.nodes) \in Nat
  BY <1>1, FS_CardinalityType DEF Ranks, Sound, Shape
<1>3. Closed(g, C)
  <2>1. ASSUME NEW s \in C, NEW t \in Successors(g, s) PROVE t \in C
    <3>1. t \in g.nodes
      BY <2>1, ShapeFacts
    <3>2. r[t] < r[s] /\ r[s] <= r[g.entry] /\ r[t] \in Int /\ r[s] \in Int /\ r[g.entry] \in Int
      BY <1>2, <2>1, <3>1
    <3> QED BY <3>1, <3>2
  <2>2. g.entry \in C
    BY <1>2
  <2> QED BY <2>1, <2>2 DEF Closed
<1>4. p \in C
  BY <1>3 DEF Sound, Reached
<1>5. r[p] \in Int /\ r[g.entry] \in Int /\ r[p] <= r[g.entry]
  BY <1>2, <1>4
<1> QED BY <1>2, <1>5
-----------------------------------------------------------------------------
(* The levels of a valid graph.                                             *)

\* The steps numbered so that every successor is deeper, and every step but
\* the entry point just below one that leads to it.
Depths(g) ==
  {h \in [g.nodes -> Nat] :
     /\ h[g.entry] = 0
     /\ \A s \in g.nodes : \A t \in Successors(g, s) : h[t] > h[s]
     /\ \A t \in g.nodes \ {g.entry} :
          \E s \in g.nodes : t \in Successors(g, s) /\ h[t] = h[s] + 1}

Deepest(g, h) == Max({h[s] : s \in g.nodes})
ByDepth(g, h) == [i \in 1 .. Deepest(g, h) + 1 |-> {s \in g.nodes : h[s] = i - 1}]

\* Max is the largest element, where there is one.
LEMMA MaxIs ==
  ASSUME NEW T \in SUBSET Int, NEW x \in T, \A y \in T : y <= x
  PROVE Max(T) = x
<1>1. x \in T /\ \A y \in T : x >= y
  OBVIOUS
<1>2. ASSUME NEW z \in T, \A y \in T : z >= y PROVE z = x
  <2>1. z >= x /\ x >= z /\ z \in Int /\ x \in Int
    BY <1>1, <1>2
  <2> QED BY <2>1
<1> QED BY <1>1, <1>2 DEF Max

\* A step at depth k ends a path of k edges, and none of more.
LEMMA DepthIsLength ==
  ASSUME NEW g, Shape(g), Sound(g), NEW h \in Depths(g)
  PROVE LET N == Cardinality(g.nodes) IN
        /\ \A s \in g.nodes : h[s] \in 0 .. N - 1 /\ s \in At(g)[h[s]]
        /\ \A k \in 0 .. N : \A s \in At(g)[k] : k <= h[s]
<1> DEFINE N == Cardinality(g.nodes)
           Late == {k \in 0 .. N : \E s \in At(g)[k] : ~(k <= h[s])}
           Lost == {k \in 0 .. N : \E s \in g.nodes : h[s] = k /\ s \notin At(g)[k]}
           Deep == {k \in Nat : k >= N /\ \E s \in g.nodes : h[s] = k}
<1>1. /\ N \in Nat \ {0} /\ DOMAIN At(g) = 0 .. N /\ At(g)[0] = {g.entry}
      /\ \A k \in 1 .. N : At(g)[k] = UNION {Successors(g, s) : s \in At(g)[k - 1]}
      /\ \A k \in 0 .. N : At(g)[k] \subseteq g.nodes
  BY Paths DEF Sound
<1>2. At(g)[N] = {}
  BY SoundIsValid DEF Valid
<1>3. /\ h \in [g.nodes -> Nat] /\ h[g.entry] = 0 /\ g.entry \in g.nodes
      /\ \A s \in g.nodes : \A t \in Successors(g, s) : h[t] > h[s]
      /\ \A t \in g.nodes \ {g.entry} :
           \E s \in g.nodes : t \in Successors(g, s) /\ h[t] = h[s] + 1
  BY DEF Depths, Sound
<1> HIDE DEF N
<1>4. Late = {}
  <2> SUFFICES ASSUME Late # {} PROVE FALSE
    OBVIOUS
  <2>1. PICK k \in Late : \A m \in Late : k <= m
    <3>1. Late \subseteq Nat
      BY <1>1
    <3> QED BY <3>1, Least
  <2>2. PICK s \in At(g)[k] : ~(k <= h[s])
    BY <2>1
  <2>3. k # 0
    BY <1>1, <1>3, <2>2
  <2>4. k \in 1 .. N /\ k - 1 \in 0 .. N /\ k - 1 \notin Late
    BY <1>1, <2>1, <2>3
  <2>5. PICK p \in At(g)[k - 1] : s \in Successors(g, p)
    BY <1>1, <2>2, <2>4
  <2>6. k - 1 <= h[p]
    BY <2>4, <2>5
  <2>7. p \in g.nodes /\ s \in g.nodes
    BY <1>1, <2>2, <2>4, <2>5
  <2>8. h[p] < h[s] /\ h[p] \in Nat /\ h[s] \in Nat
    BY <1>3, <2>5, <2>7
  <2> QED BY <2>2, <2>4, <2>6, <2>8
<1>5. Lost = {}
  <2> SUFFICES ASSUME Lost # {} PROVE FALSE
    OBVIOUS
  <2>1. PICK k \in Lost : \A m \in Lost : k <= m
    <3>1. Lost \subseteq Nat
      BY <1>1
    <3> QED BY <3>1, Least
  <2>2. PICK t \in g.nodes : h[t] = k /\ t \notin At(g)[k]
    BY <2>1
  <2>3. t # g.entry
    BY <1>1, <1>3, <2>2
  <2>4. PICK p \in g.nodes : t \in Successors(g, p) /\ h[t] = h[p] + 1
    BY <1>3, <2>3
  <2>5. h[p] = k - 1 /\ k \in 1 .. N /\ k - 1 \in 0 .. N
    <3>1. h[p] \in Nat /\ k \in 0 .. N /\ k = h[p] + 1
      BY <1>3, <2>1, <2>2, <2>4
    <3> QED BY <1>1, <3>1
  <2>6. k - 1 \notin Lost
    BY <1>1, <2>1, <2>5
  <2>7. p \in At(g)[k - 1]
    BY <2>5, <2>6
  <2>8. t \in At(g)[k]
    BY <1>1, <2>4, <2>5, <2>7
  <2> QED BY <2>2, <2>8
<1>6. Deep = {}
  <2> SUFFICES ASSUME Deep # {} PROVE FALSE
    OBVIOUS
  <2>1. PICK k \in Deep : \A m \in Deep : k <= m
    <3>1. Deep \subseteq Nat
      OBVIOUS
    <3> QED BY <3>1, Least
  <2>2. PICK t \in g.nodes : h[t] = k
    BY <2>1
  <2>3. t # g.entry
    BY <1>1, <1>3, <2>1, <2>2
  <2>4. PICK p \in g.nodes : t \in Successors(g, p) /\ h[t] = h[p] + 1
    BY <1>3, <2>3
  <2>5. h[p] \in Nat /\ k = h[p] + 1 /\ k >= N /\ h[p] \notin Deep
    <3>1. h[p] \in Nat /\ k = h[p] + 1 /\ k >= N
      BY <1>3, <2>1, <2>2, <2>4
    <3>2. ~(k <= h[p])
      BY <3>1
    <3> QED BY <2>1, <3>1, <3>2
  <2>6. ~(h[p] >= N)
    BY <2>4, <2>5
  <2>7. h[t] = N /\ N \in 0 .. N
    BY <1>1, <2>2, <2>5, <2>6
  <2>8. t \in At(g)[N]
    BY <1>5, <2>7
  <2> QED BY <1>2, <2>8
<1>7. ASSUME NEW s \in g.nodes PROVE h[s] \in 0 .. N - 1 /\ s \in At(g)[h[s]]
  <2>1. h[s] \in Nat /\ ~(h[s] >= N)
    BY <1>3, <1>6
  <2>2. h[s] \in 0 .. N - 1 /\ h[s] \in 0 .. N
    BY <1>1, <2>1
  <2> QED BY <1>5, <2>2
<1>8. \A k \in 0 .. N : \A s \in At(g)[k] : k <= h[s]
  BY <1>4
<1> QED BY <1>7, <1>8 DEF N

\* One step is the deepest, and there is a step at every depth above it.
LEMMA DeepestStep ==
  ASSUME NEW g, Shape(g), Sound(g), NEW h \in Depths(g)
  PROVE LET m == Deepest(g, h) IN
        /\ m \in Nat /\ \A s \in g.nodes : h[s] \in 0 .. m
        /\ \A d \in 0 .. m : \E s \in g.nodes : h[s] = d
<1> DEFINE N == Cardinality(g.nodes)
           H == {h[s] : s \in g.nodes}
           m == Max(H)
<1>1. /\ h \in [g.nodes -> Nat] /\ g.entry \in g.nodes /\ h[g.entry] = 0
      /\ \A t \in g.nodes \ {g.entry} :
           \E s \in g.nodes : t \in Successors(g, s) /\ h[t] = h[s] + 1
  BY DEF Depths, Sound
<1>2. N \in Nat /\ \A s \in g.nodes : h[s] \in 0 .. N - 1
  BY DepthIsLength, FS_CardinalityType DEF Shape
<1> HIDE DEF N
<1>3. H # {} /\ H \in SUBSET Nat /\ \A x \in H : x <= N
  BY <1>1, <1>2
<1>4. PICK x \in H : \A y \in H : y <= x
  <2> HIDE DEF H
  <2> QED BY <1>2, <1>3, Largest
<1>5. m = x
  <2>1. H \in SUBSET Int
    BY <1>3
  <2> HIDE DEF H
  <2> QED BY <1>4, <2>1, MaxIs
<1>6. m \in Nat /\ (\A s \in g.nodes : h[s] \in 0 .. m) /\ m \in H
  <2>1. \A s \in g.nodes : h[s] \in H
    OBVIOUS
  <2>2. x \in Nat /\ x \in H /\ \A s \in g.nodes : h[s] <= x
    BY <1>3, <1>4, <2>1
  <2> HIDE DEF H, m
  <2> QED BY <1>1, <1>5, <2>2
<1> HIDE DEF m
<1>7. ASSUME NEW d \in 0 .. m, \A s \in g.nodes : h[s] # d PROVE FALSE
  <2> DEFINE T == {e \in 0 .. m : \A s \in g.nodes : h[s] # e}
  <2>1. T # {} /\ T \in SUBSET Nat /\ \A e \in T : e <= m
    BY <1>6, <1>7
  <2>2. PICK e \in T : \A f \in T : f <= e
    <3> HIDE DEF T
    <3> QED BY <1>6, <2>1, Largest
  <2>3. e # m
    BY <1>6, <2>2
  <2>4. e + 1 \in 0 .. m /\ e + 1 \notin T
    <3>1. e + 1 \in 0 .. m /\ ~(e + 1 <= e)
      BY <1>6, <2>2, <2>3
    <3> QED BY <2>2, <3>1
  <2>5. PICK t \in g.nodes : h[t] = e + 1
    BY <2>4
  <2>6. t # g.entry
    BY <1>1, <2>2, <2>5
  <2>7. PICK p \in g.nodes : h[t] = h[p] + 1
    BY <1>1, <2>6
  <2>8. h[p] = e
    BY <1>1, <2>2, <2>5, <2>7
  <2> QED BY <2>2, <2>8
<1> QED BY <1>6, <1>7 DEF m, Deepest

\* The levels of the definition are the steps by their depth.
LEMMA LevelsByDepth ==
  ASSUME NEW g, Shape(g), Sound(g), NEW h \in Depths(g)
  PROVE Levels(g) = ByDepth(g, h)
<1> DEFINE N == Cardinality(g.nodes)
           K(s) == {k \in DOMAIN At(g) : s \in At(g)[k]}
           longest == [s \in g.nodes |-> Max(K(s))]
<1>1. DOMAIN At(g) = 0 .. N /\ N \in Nat
  BY Paths DEF Sound
<1>2. /\ \A s \in g.nodes : h[s] \in 0 .. N - 1 /\ s \in At(g)[h[s]]
      /\ \A k \in 0 .. N : \A s \in At(g)[k] : k <= h[s]
  BY DepthIsLength
<1>3. h = [s \in g.nodes |-> h[s]]
  BY DEF Depths
<1> HIDE DEF N
<1>4. ASSUME NEW s \in g.nodes PROVE Max(K(s)) = h[s]
  <2>1. h[s] \in K(s) /\ K(s) \in SUBSET Int /\ \A k \in K(s) : k <= h[s]
    BY <1>1, <1>2
  <2> HIDE DEF K
  <2> QED BY <2>1, MaxIs
<1>5. longest = h
  <2> HIDE DEF K
  <2> QED BY <1>3, <1>4
<1>6. Levels(g) = [i \in 1 .. Max({longest[s] : s \in g.nodes}) + 1 |->
                     {s \in g.nodes : longest[s] = i - 1}]
  BY DEF Levels
<1> HIDE DEF longest
<1> QED BY <1>5, <1>6 DEF ByDepth, Deepest

\* A valid graph has such numbers: the lengths of the longest paths.
LEMMA DepthsExist ==
  ASSUME NEW g, Shape(g), Valid(g)
  PROVE Depths(g) # {}
<1> DEFINE N == Cardinality(g.nodes)
           Longest(s, k) ==
             s \in At(g)[k] /\ \A m \in DOMAIN At(g) : s \in At(g)[m] => m <= k
           h == [s \in g.nodes |-> CHOOSE k \in 0 .. N - 1 : Longest(s, k)]
<1>1. g.entry \in g.nodes /\ Sound(g)
  BY ValidIsSound DEF Valid
<1>2. /\ N \in Nat \ {0} /\ DOMAIN At(g) = 0 .. N /\ At(g)[0] = {g.entry}
      /\ \A k \in 1 .. N : At(g)[k] = UNION {Successors(g, s) : s \in At(g)[k - 1]}
      /\ \A k \in 0 .. N : At(g)[k] \subseteq g.nodes
  BY <1>1, Paths
<1>3. \A s \in g.nodes : \E k \in 0 .. N - 1 : Longest(s, k)
  BY LongestPath
<1>4. \A s \in g.nodes : Successors(g, s) \subseteq g.nodes
  BY ShapeFacts
<1> HIDE DEF N, Longest
<1>5. \A s \in g.nodes : h[s] \in 0 .. N - 1 /\ Longest(s, h[s])
  BY <1>3
<1>6. h \in [g.nodes -> Nat]
  BY <1>2, <1>3
<1> HIDE DEF h
<1>7. ASSUME NEW s \in g.nodes, NEW k \in 0 .. N, s \in At(g)[k]
      PROVE k <= h[s]
  BY <1>2, <1>5, <1>7 DEF Longest
<1>8. ASSUME NEW t \in g.nodes, h[t] # 0
      PROVE \E s \in g.nodes : t \in Successors(g, s) /\ s \in At(g)[h[t] - 1]
  <2>1. h[t] \in 1 .. N /\ t \in At(g)[h[t]] /\ h[t] - 1 \in 0 .. N
    BY <1>2, <1>5, <1>8 DEF Longest
  <2> QED BY <1>2, <2>1
<1>9. ASSUME NEW s \in g.nodes, NEW t \in Successors(g, s) PROVE h[t] > h[s]
  <2>1. t \in g.nodes /\ h[s] \in 0 .. N - 1 /\ s \in At(g)[h[s]] /\ h[t] \in Nat
    BY <1>4, <1>5, <1>6 DEF Longest
  <2>2. h[s] + 1 \in 1 .. N /\ h[s] + 1 \in 0 .. N /\ (h[s] + 1) - 1 = h[s]
    BY <1>2, <2>1
  <2>3. t \in At(g)[h[s] + 1]
    BY <1>2, <1>9, <2>1, <2>2
  <2>4. h[s] + 1 <= h[t]
    BY <1>7, <2>1, <2>2, <2>3
  <2> QED BY <2>1, <2>4
<1>10. h[g.entry] = 0
  <2>1. \A s \in g.nodes : g.entry \notin Successors(g, s)
    BY <1>1, NothingBeforeEntry
  <2> QED BY <1>1, <1>8, <2>1
<1>11. ASSUME NEW t \in g.nodes \ {g.entry}
       PROVE \E s \in g.nodes : t \in Successors(g, s) /\ h[t] = h[s] + 1
  <2>1. h[t] # 0
    BY <1>2, <1>5 DEF Longest
  <2>2. PICK s \in g.nodes : t \in Successors(g, s) /\ s \in At(g)[h[t] - 1]
    BY <1>8, <2>1
  <2>3. h[t] \in 0 .. N - 1 /\ h[s] \in Nat /\ h[t] - 1 \in 0 .. N /\ h[t] \in Nat
    BY <1>2, <1>5, <1>6, <2>1
  <2>4. h[t] - 1 <= h[s] /\ h[t] > h[s]
    BY <1>7, <1>9, <2>2, <2>3
  <2> QED BY <2>2, <2>3, <2>4
<1>12. h \in Depths(g)
  BY <1>6, <1>9, <1>10, <1>11 DEF Depths
<1> QED BY <1>12

\* The levels of a sound graph, as a sequence of sets of steps.
LEMMA LevelsTyped ==
  ASSUME NEW g, Shape(g), Sound(g), NEW h \in Depths(g)
  PROVE LET m == Deepest(g, h)
            levels == ByDepth(g, h)
        IN /\ levels \in Seq(SUBSET StepIDs) /\ m \in Nat
           /\ Len(levels) = m + 1 /\ levels # <<>>
           /\ \A i \in 1 .. m + 1 : levels[i] = {s \in g.nodes : h[s] = i - 1}
<1> DEFINE m == Deepest(g, h)
           levels == ByDepth(g, h)
<1>1. m \in Nat
  BY DeepestStep
<1>2. g.nodes \subseteq StepIDs
  BY ShapeFacts
<1>3. levels = [i \in 1 .. m + 1 |-> {s \in g.nodes : h[s] = i - 1}]
  BY DEF ByDepth
<1> HIDE DEF m, levels
<1>4. \A i \in 1 .. m + 1 : {s \in g.nodes : h[s] = i - 1} \in SUBSET StepIDs
  BY <1>2
<1>5. levels \in Seq(SUBSET StepIDs) /\ Len(levels) = m + 1
      /\ \A i \in 1 .. m + 1 : levels[i] = {s \in g.nodes : h[s] = i - 1}
  BY <1>1, <1>3, <1>4
<1>6. levels # <<>>
  <2>1. levels = <<>> => Len(levels) = 0
    BY EmptySeq
  <2>2. Len(levels) # 0
    BY <1>1, <1>5
  <2> QED BY <2>1, <2>2
<1> QED BY <1>1, <1>5, <1>6 DEF m, levels
-----------------------------------------------------------------------------
(* The depth-first walk.                                                    *)

\* No step is entered twice, and a step is finished after its successors.
Orderly(g, w) ==
  /\ w \in Walk(g) /\ IsInjective(w.finished)
  /\ \A i, j \in DOMAIN w.frames : w.frames[i].node = w.frames[j].node => i = j
  /\ RecStack(w) \cap ToSet(w.finished) = {}
  /\ \A i \in DOMAIN w.finished : \A t \in Successors(g, w.finished[i]) :
       \E j \in DOMAIN w.finished : j < i /\ w.finished[j] = t

\* A call looked at its successors up to the one it entered.
Looked(g, w, i) ==
  /\ ToSet(w.frames[i].left) \subseteq Successors(g, w.frames[i].node)
  /\ \A t \in Successors(g, w.frames[i].node) :
       \/ t \in ToSet(w.frames[i].left) \/ t \in ToSet(w.finished)
       \/ i < Len(w.frames) /\ t = w.frames[i + 1].node
Stacked(g, w) ==
  /\ \A i \in DOMAIN w.frames : Looked(g, w, i)
  /\ \A r \in Ranks(g) : \A i, j \in DOMAIN w.frames :
       i < j => r[w.frames[j].node] < r[w.frames[i].node]

Walked(g, w) == Orderly(g, w) /\ Stacked(g, w)

\* The walk began at the entry point and stays in what follows from it.
Rooted(g, w) ==
  /\ IF w.frames = <<>> THEN g.entry \in ToSet(w.finished) ELSE w.frames[1].node = g.entry
  /\ \A C \in SUBSET g.nodes : Closed(g, C) => Visited(w) \subseteq C

\* What a walk consists of.
LEMMA WalkFacts ==
  ASSUME NEW g, Shape(g), NEW w \in Walk(g)
  PROVE /\ w.frames \in Seq([node : g.nodes, left : Seq(g.nodes)])
        /\ w.finished \in Seq(g.nodes)
        /\ Len(w.frames) \in Nat /\ DOMAIN w.frames = 1 .. Len(w.frames)
        /\ Len(w.finished) \in Nat /\ DOMAIN w.finished = 1 .. Len(w.finished)
        /\ \A i \in DOMAIN w.frames :
             w.frames[i].node \in g.nodes /\ w.frames[i].left \in Seq(g.nodes)
        /\ \A i \in DOMAIN w.finished : w.finished[i] \in g.nodes
        /\ \A s : s \in RecStack(w) <=> \E i \in DOMAIN w.frames : w.frames[i].node = s
        /\ \A s : s \in ToSet(w.finished) <=> \E i \in DOMAIN w.finished : w.finished[i] = s
        /\ w.frames = <<>> <=> Len(w.frames) = 0
<1> DEFINE F == [node : g.nodes, left : Seq(g.nodes)]
<1>1. w.frames \in Seq(F) /\ w.finished \in Seq(g.nodes)
  BY DEF Walk
<1>2. \A f \in F : f.node \in g.nodes /\ f.left \in Seq(g.nodes)
  OBVIOUS
<1> HIDE DEF F
<1>3. /\ Len(w.frames) \in Nat /\ DOMAIN w.frames = 1 .. Len(w.frames)
      /\ Len(w.finished) \in Nat /\ DOMAIN w.finished = 1 .. Len(w.finished)
      /\ \A i \in DOMAIN w.frames : w.frames[i] \in F
      /\ \A i \in DOMAIN w.finished : w.finished[i] \in g.nodes
  BY <1>1
<1>4. w.frames = <<>> <=> Len(w.frames) = 0
  BY <1>1, EmptySeq
<1>5. /\ \A s : s \in RecStack(w) <=> \E i \in DOMAIN w.frames : w.frames[i].node = s
      /\ \A s : s \in ToSet(w.finished) <=> \E i \in DOMAIN w.finished : w.finished[i] = s
  BY DEF RecStack, ToSet
<1> QED BY <1>1, <1>2, <1>3, <1>4, <1>5 DEF F

\* A call of a step that is not visited, on top of the calls there are.
LEMMA EnterFacts ==
  ASSUME NEW g, Shape(g), NEW w \in Walk(g), NEW s \in g.nodes
  PROVE LET e == Enter(g, w, s)
            n == Len(w.frames)
        IN /\ e \in Walk(g) /\ e.finished = w.finished
           /\ Len(e.frames) = n + 1 /\ e.frames # <<>> /\ DOMAIN e.frames = 1 .. n + 1
           /\ \A i \in 1 .. n : e.frames[i] = w.frames[i]
           /\ e.frames[n + 1] = [node |-> s, left |-> g.next[s]]
           /\ RecStack(e) = RecStack(w) \cup {s}
<1> DEFINE F == [node : g.nodes, left : Seq(g.nodes)]
           e == Enter(g, w, s)
           n == Len(w.frames)
<1>1. Frame(g, s) \in F
  <2>1. g.next[s] \in Seq(StepIDs) /\ ToSet(g.next[s]) \subseteq g.nodes
    BY ShapeFacts DEF Shape, Graph
  <2>2. g.next[s] \in Seq(g.nodes)
    <3>1. \A i \in DOMAIN g.next[s] : g.next[s][i] \in g.nodes
      BY <2>1 DEF ToSet
    <3> QED BY <2>1, <3>1
  <2> QED BY <2>2 DEF Frame
<1>2. /\ w.frames \in Seq(F) /\ w.finished \in Seq(g.nodes)
      /\ w = [frames |-> w.frames, finished |-> w.finished]
  BY DEF Walk
<1>3. e = [frames |-> Append(w.frames, Frame(g, s)), finished |-> w.finished]
  <2> DEFINE x == w.frames
             y == w.finished
  <2>1. w = [frames |-> x, finished |-> y]
    BY <1>2
  <2>2. e = [w EXCEPT !.frames = Append(x, Frame(g, s))]
    BY DEF Enter
  <2> HIDE DEF e, x, y
  <2>3. e = [frames |-> Append(x, Frame(g, s)), finished |-> y]
    BY <2>1, <2>2
  <2> QED BY <2>3 DEF x, y
<1>4. Frame(g, s) = [node |-> s, left |-> g.next[s]]
  BY DEF Frame
<1> HIDE DEF F
<1>5. /\ e.frames \in Seq(F) /\ Len(e.frames) = n + 1 /\ e.frames # <<>> /\ n \in Nat
      /\ DOMAIN e.frames = 1 .. n + 1 /\ DOMAIN w.frames = 1 .. n
      /\ \A i \in 1 .. n : e.frames[i] = w.frames[i]
      /\ e.frames[n + 1] = Frame(g, s)
  BY <1>1, <1>2, <1>3, AppendFacts
<1>6. e \in Walk(g)
  BY <1>2, <1>3, <1>5 DEF Walk, F
<1>7. RecStack(e) = RecStack(w) \cup {s}
  <2>1. \A i \in 1 .. n + 1 : e.frames[i].node = IF i = n + 1 THEN s ELSE w.frames[i].node
    BY <1>4, <1>5
  <2>2. n + 1 \in 1 .. n + 1 /\ (\A i \in 1 .. n : i \in 1 .. n + 1 /\ i # n + 1)
        /\ \A i \in 1 .. n + 1 : i # n + 1 => i \in 1 .. n
    BY <1>5
  <2>3. RecStack(e) = {e.frames[i].node : i \in 1 .. n + 1}
    BY <1>5 DEF RecStack
  <2>4. RecStack(w) = {w.frames[i].node : i \in 1 .. n}
    BY <1>5 DEF RecStack
  <2> HIDE DEF e, n
  <2>5. \A x \in RecStack(e) : x \in RecStack(w) \cup {s}
    BY <2>1, <2>2, <2>3, <2>4
  <2>6. \A x \in RecStack(w) \cup {s} : x \in RecStack(e)
    BY <2>1, <2>2, <2>3, <2>4
  <2> QED BY <2>5, <2>6
<1>8. e.finished = w.finished
  BY <1>3
<1> HIDE DEF e, n
<1> QED BY <1>4, <1>5, <1>6, <1>7, <1>8 DEF e, n

\* What a step does: the last call returns, looks on, or enters a successor.
Returned(w) ==
  [frames |-> Front(w.frames), finished |-> Append(w.finished, Last(w.frames).node)]
LookedOn(w) ==
  [w EXCEPT !.frames = Append(Front(w.frames), [Last(w.frames) EXCEPT !.left = Tail(@)])]

\* A step returns, passes over a visited successor, or enters one.
LEMMA StepCases ==
  ASSUME NEW g, NEW w
  PROVE WalkStep(g, w) =
          IF Last(w.frames).left = <<>> THEN Returned(w)
          ELSE IF Head(Last(w.frames).left) \in Visited(w) THEN LookedOn(w)
          ELSE Enter(g, LookedOn(w), Head(Last(w.frames).left))
BY DEF WalkStep, SeesVisited, Returned, LookedOn

\* The last call returns.
LEMMA ReturnedFacts ==
  ASSUME NEW g, Shape(g), NEW w \in Walk(g), w.frames # <<>>
  PROVE LET e == Returned(w)
            n == Len(w.frames)
            m == Len(w.finished)
        IN /\ e \in Walk(g) /\ n >= 1
           /\ Len(e.frames) = n - 1 /\ DOMAIN e.frames = 1 .. n - 1
           /\ \A i \in 1 .. n - 1 : e.frames[i] = w.frames[i]
           /\ Len(e.finished) = m + 1 /\ DOMAIN e.finished = 1 .. m + 1
           /\ \A i \in 1 .. m : e.finished[i] = w.finished[i]
           /\ e.finished[m + 1] = w.frames[n].node
           /\ ToSet(e.finished) = ToSet(w.finished) \cup {w.frames[n].node}
           /\ Last(w.frames) = w.frames[n]
<1> DEFINE F == [node : g.nodes, left : Seq(g.nodes)]
           e == Returned(w)
           n == Len(w.frames)
           m == Len(w.finished)
<1>1. w.frames \in Seq(F) /\ w.finished \in Seq(g.nodes)
  BY DEF Walk
<1>2. \A f \in F : f.node \in g.nodes
  OBVIOUS
<1> HIDE DEF F
<1>3. /\ n \in Nat \ {0} /\ Last(w.frames) = w.frames[n] /\ Last(w.frames) \in F
      /\ e.frames \in Seq(F) /\ Len(e.frames) = n - 1
      /\ \A i \in 1 .. n - 1 : e.frames[i] = w.frames[i]
  BY <1>1, SequenceEnds DEF Returned
<1>4. /\ e.finished \in Seq(g.nodes) /\ Len(e.finished) = m + 1
      /\ DOMAIN e.finished = 1 .. m + 1
      /\ \A i \in 1 .. m : e.finished[i] = w.finished[i]
      /\ e.finished[m + 1] = w.frames[n].node
      /\ ToSet(e.finished) = ToSet(w.finished) \cup {w.frames[n].node}
  <2>1. w.frames[n].node \in g.nodes /\ e.finished = Append(w.finished, w.frames[n].node)
    BY <1>2, <1>3 DEF Returned
  <2> DEFINE f == w.finished
             top == w.frames[n].node
  <2>2. f \in Seq(g.nodes) /\ top \in g.nodes
    BY <1>1, <2>1
  <2> HIDE DEF f, top
  <2>3. /\ Append(f, top) \in Seq(g.nodes) /\ Len(Append(f, top)) = Len(f) + 1
        /\ DOMAIN Append(f, top) = 1 .. Len(f) + 1
        /\ \A i \in 1 .. Len(f) : Append(f, top)[i] = f[i]
        /\ Append(f, top)[Len(f) + 1] = top
        /\ ToSet(Append(f, top)) = ToSet(f) \cup {top}
    BY <2>2, AppendFacts
  <2> QED BY <2>1, <2>3 DEF f, top
<1>5. e \in Walk(g)
  <2>1. e = [frames |-> e.frames, finished |-> e.finished]
    BY DEF Returned
  <2> QED BY <1>3, <1>4, <2>1 DEF Walk, F
<1>6. DOMAIN e.frames = 1 .. n - 1
  BY <1>3
<1> QED BY <1>3, <1>4, <1>5, <1>6

\* The last call passes over a successor.
LEMMA LookedOnFacts ==
  ASSUME NEW g, Shape(g), NEW w \in Walk(g), w.frames # <<>>, Last(w.frames).left # <<>>
  PROVE LET e == LookedOn(w)
            n == Len(w.frames)
        IN /\ e \in Walk(g) /\ n >= 1 /\ e.finished = w.finished
           /\ Len(e.frames) = n /\ DOMAIN e.frames = 1 .. n /\ e.frames # <<>>
           /\ \A i \in 1 .. n - 1 : e.frames[i] = w.frames[i]
           /\ e.frames[n].left = Tail(w.frames[n].left)
           /\ \A i \in 1 .. n : e.frames[i].node = w.frames[i].node
           /\ RecStack(e) = RecStack(w)
           /\ Last(w.frames) = w.frames[n]
           /\ Head(w.frames[n].left) \in g.nodes
           /\ ToSet(w.frames[n].left)
                = {Head(w.frames[n].left)} \cup ToSet(Tail(w.frames[n].left))
<1> DEFINE F == [node : g.nodes, left : Seq(g.nodes)]
           e == LookedOn(w)
           n == Len(w.frames)
           top == Last(w.frames)
           f == [top EXCEPT !.left = Tail(@)]
<1>1. w.frames \in Seq(F) /\ w.finished \in Seq(g.nodes)
      /\ w = [frames |-> w.frames, finished |-> w.finished]
  BY DEF Walk
<1>2. /\ n \in Nat \ {0} /\ DOMAIN w.frames = 1 .. n /\ top = w.frames[n] /\ top \in F
      /\ Front(w.frames) \in Seq(F) /\ Len(Front(w.frames)) = n - 1
      /\ \A i \in 1 .. n - 1 : Front(w.frames)[i] = w.frames[i]
  <2> HIDE DEF F
  <2> QED BY <1>1, SequenceEnds
<1>3. top.left \in Seq(g.nodes)
  BY <1>2
<1>4. /\ Tail(top.left) \in Seq(g.nodes) /\ Head(top.left) \in g.nodes
      /\ ToSet(top.left) = {Head(top.left)} \cup ToSet(Tail(top.left))
  <2> DEFINE left == top.left
  <2>1. left \in Seq(g.nodes) /\ left # <<>>
    BY <1>3
  <2> HIDE DEF left
  <2>2. /\ Tail(left) \in Seq(g.nodes) /\ Head(left) \in g.nodes
        /\ ToSet(left) = {Head(left)} \cup ToSet(Tail(left))
    BY <2>1, SequenceEnds, SetOfSequence
  <2> QED BY <2>2 DEF left
<1>5. f \in F /\ f.node = top.node /\ f.left = Tail(top.left)
  <2> HIDE DEF top
  <2> QED BY <1>2, <1>4
<1>6. e = [frames |-> Append(Front(w.frames), f), finished |-> w.finished]
  <2> DEFINE x == w.frames
             y == w.finished
  <2>1. w = [frames |-> x, finished |-> y]
    BY <1>1
  <2>2. e = [w EXCEPT !.frames = Append(Front(x), f)]
    BY DEF LookedOn
  <2> HIDE DEF e, x, y, f
  <2>3. e = [frames |-> Append(Front(x), f), finished |-> y]
    BY <2>1, <2>2
  <2> QED BY <2>3 DEF x, y
<1> HIDE DEF F, f, top
<1>7. /\ Append(Front(w.frames), f) \in Seq(F) /\ Len(Append(Front(w.frames), f)) = (n - 1) + 1
      /\ Append(Front(w.frames), f) # <<>>
      /\ \A i \in 1 .. n - 1 : Append(Front(w.frames), f)[i] = Front(w.frames)[i]
      /\ Append(Front(w.frames), f)[(n - 1) + 1] = f
  <2> DEFINE x == Front(w.frames)
  <2>1. x \in Seq(F) /\ Len(x) = n - 1
    BY <1>2
  <2> HIDE DEF x, n
  <2>2. /\ Append(x, f) \in Seq(F) /\ Len(Append(x, f)) = Len(x) + 1 /\ Append(x, f) # <<>>
        /\ \A i \in 1 .. Len(x) : Append(x, f)[i] = x[i]
        /\ Append(x, f)[Len(x) + 1] = f
    BY <1>5, <2>1, AppendFacts
  <2>3. /\ Append(x, f) \in Seq(F) /\ Len(Append(x, f)) = (n - 1) + 1 /\ Append(x, f) # <<>>
        /\ \A i \in 1 .. n - 1 : Append(x, f)[i] = x[i]
        /\ Append(x, f)[(n - 1) + 1] = f
    BY <2>1, <2>2
  <2> QED BY <2>3 DEF x
<1>8. /\ e.frames \in Seq(F) /\ e.finished = w.finished /\ Len(e.frames) = n /\ e.frames # <<>>
      /\ \A i \in 1 .. n - 1 : e.frames[i] = w.frames[i]
      /\ e.frames[n] = f
  <2>1. (n - 1) + 1 = n
    BY <1>2
  <2>2. e.frames = Append(Front(w.frames), f) /\ e.finished = w.finished
    BY <1>6
  <2> HIDE DEF n, e
  <2> QED BY <1>2, <1>7, <2>1, <2>2
<1>9. e \in Walk(g)
  <2>1. e = [frames |-> e.frames, finished |-> w.finished]
    BY <1>6
  <2> HIDE DEF e
  <2> QED BY <1>1, <1>8, <2>1 DEF Walk, F
<1>10. DOMAIN e.frames = 1 .. n
  <2> HIDE DEF e
  <2> QED BY <1>2, <1>8
<1>11. ASSUME NEW i \in 1 .. n PROVE e.frames[i].node = w.frames[i].node
  <2>1. CASE i = n
    <3> HIDE DEF e, n
    <3> QED BY <1>2, <1>5, <1>8, <2>1
  <2>2. CASE i # n
    <3>1. i \in 1 .. n - 1
      BY <1>2, <2>2
    <3> HIDE DEF e, n
    <3> QED BY <1>8, <3>1
  <2> QED BY <2>1, <2>2
<1>12. RecStack(e) = RecStack(w)
  <2> HIDE DEF e, n
  <2> QED BY <1>2, <1>10, <1>11 DEF RecStack
<1> HIDE DEF e, n
<1>13. /\ e.frames[n].left = Tail(w.frames[n].left)
       /\ Last(w.frames) = w.frames[n]
       /\ Head(w.frames[n].left) \in g.nodes
       /\ ToSet(w.frames[n].left)
            = {Head(w.frames[n].left)} \cup ToSet(Tail(w.frames[n].left))
  <2>1. w.frames[n] = top
    BY <1>2
  <2>2. Last(w.frames) = top
    BY DEF top
  <2> QED BY <1>4, <1>5, <1>8, <2>1, <2>2
<1>14. n >= 1
  BY <1>2
<1> QED BY <1>8, <1>9, <1>10, <1>11, <1>12, <1>13, <1>14 DEF e, n

\* The empty walk, and the walk that starts at a root.
LEMMA NewWalkIsWalked ==
  ASSUME NEW g, Shape(g)
  PROVE /\ Walked(g, NewWalk) /\ NewWalk.frames = <<>> /\ NewWalk.finished = <<>>
        /\ Visited(NewWalk) = {}
<1>1. NewWalk \in Walk(g) /\ NewWalk.frames = <<>> /\ NewWalk.finished = <<>>
  BY DEF NewWalk, Walk
<1>2. DOMAIN NewWalk.frames = {} /\ DOMAIN NewWalk.finished = {} /\ Len(NewWalk.frames) = 0
  BY <1>1, EmptySeq
<1>3. RecStack(NewWalk) = {} /\ ToSet(NewWalk.finished) = {}
  BY <1>1, <1>2, WalkFacts
<1> QED BY <1>1, <1>2, <1>3 DEF Walked, Orderly, Stacked, Visited, IsInjective

\* What entering a step asks of the walk: its caller has nothing else left.
LEMMA EnterKeepsWalked ==
  ASSUME NEW g, Shape(g), NEW w \in Walk(g), Orderly(g, w),
         NEW s \in g.nodes, s \notin Visited(w),
         \A r \in Ranks(g) : \A i, j \in DOMAIN w.frames :
           i < j => r[w.frames[j].node] < r[w.frames[i].node],
         \A i \in DOMAIN w.frames : i < Len(w.frames) => Looked(g, w, i),
         w.frames # <<>> =>
           /\ s \in Successors(g, w.frames[Len(w.frames)].node)
           /\ ToSet(w.frames[Len(w.frames)].left)
                \subseteq Successors(g, w.frames[Len(w.frames)].node)
           /\ \A t \in Successors(g, w.frames[Len(w.frames)].node) :
                t \in ToSet(w.frames[Len(w.frames)].left) \cup ToSet(w.finished) \cup {s}
  PROVE Walked(g, Enter(g, w, s))
<1> DEFINE e == Enter(g, w, s)
           n == Len(w.frames)
<1>1. /\ e \in Walk(g) /\ e.finished = w.finished /\ Len(e.frames) = n + 1
      /\ DOMAIN e.frames = 1 .. n + 1
      /\ \A i \in 1 .. n : e.frames[i] = w.frames[i]
      /\ e.frames[n + 1] = [node |-> s, left |-> g.next[s]]
      /\ RecStack(e) = RecStack(w) \cup {s}
  BY EnterFacts
<1>2. /\ n \in Nat /\ DOMAIN w.frames = 1 .. n /\ (w.frames = <<>> <=> n = 0)
      /\ \A i \in 1 .. n : w.frames[i].node \in g.nodes
      /\ \A x : x \in RecStack(w) <=> \E i \in DOMAIN w.frames : w.frames[i].node = x
  BY WalkFacts
<1>3. \A i \in 1 .. n + 1 : i \in 1 .. n \/ i = n + 1
  BY <1>2
<1>4. e.frames[n + 1].node = s /\ e.frames[n + 1].left = g.next[s] /\ n + 1 \in 1 .. n + 1
  BY <1>1, <1>2
<1>5. s \notin RecStack(w) /\ s \notin ToSet(w.finished)
  BY DEF Visited
<1> HIDE DEF e, n
<1>6. Orderly(g, e)
  <2>1. ASSUME NEW i \in 1 .. n + 1, NEW j \in 1 .. n + 1, e.frames[i].node = e.frames[j].node
        PROVE i = j
    <3>1. \A k \in 1 .. n : w.frames[k].node # s
      BY <1>2, <1>5
    <3>2. CASE i \in 1 .. n /\ j \in 1 .. n
      BY <1>1, <1>2, <2>1, <3>2 DEF Orderly
    <3>3. CASE i \in 1 .. n /\ j = n + 1
      BY <1>1, <1>4, <2>1, <3>1, <3>3
    <3>4. CASE i = n + 1 /\ j \in 1 .. n
      BY <1>1, <1>4, <2>1, <3>1, <3>4
    <3> QED BY <1>3, <3>2, <3>3, <3>4
  <2>2. RecStack(e) \cap ToSet(e.finished) = {}
    BY <1>1, <1>5 DEF Orderly
  <2> QED BY <1>1, <2>1, <2>2 DEF Orderly
<1>7. ASSUME NEW i \in 1 .. n + 1 PROVE Looked(g, e, i)
  <2>1. CASE i \in 1 .. n /\ i < n
    <3>1. i + 1 \in 1 .. n /\ i \in 1 .. n
      BY <1>2, <2>1
    <3>2. Looked(g, w, i) /\ e.frames[i] = w.frames[i] /\ e.frames[i + 1] = w.frames[i + 1]
      BY <1>1, <1>2, <2>1, <3>1 DEF n
    <3>3. i < n + 1
      BY <1>2, <2>1
    <3> QED BY <1>1, <2>1, <3>2, <3>3 DEF Looked, n
  <2>2. CASE i = n /\ n # 0
    <3>1. n \in 1 .. n /\ n < n + 1 /\ w.frames # <<>>
      BY <1>2, <2>2
    <3>2. e.frames[n] = w.frames[n]
      BY <1>1, <3>1
    <3>3. /\ ToSet(w.frames[n].left) \subseteq Successors(g, w.frames[n].node)
          /\ \A t \in Successors(g, w.frames[n].node) :
                t \in ToSet(w.frames[n].left) \cup ToSet(w.finished) \cup {s}
      BY <3>1 DEF n
    <3> QED BY <1>1, <1>4, <2>2, <3>1, <3>2, <3>3 DEF Looked
  <2>3. CASE i = n + 1
    BY <1>1, <1>4, <2>3 DEF Looked, Successors
  <2> QED BY <1>2, <1>3, <2>1, <2>2, <2>3
<1>8. ASSUME NEW r \in Ranks(g), NEW i \in 1 .. n + 1, NEW j \in 1 .. n + 1, i < j
      PROVE r[e.frames[j].node] < r[e.frames[i].node]
  <2>1. CASE j \in 1 .. n
    <3>1. i \in 1 .. n
      BY <1>2, <1>8, <2>1
    <3>2. i \in DOMAIN w.frames /\ j \in DOMAIN w.frames
      BY <1>2, <2>1, <3>1
    <3>3. r[w.frames[j].node] < r[w.frames[i].node]
      BY <1>8, <3>2
    <3> QED BY <1>1, <2>1, <3>1, <3>3
  <2>2. CASE j = n + 1
    <3>1. i \in 1 .. n /\ n \in 1 .. n /\ w.frames # <<>>
      BY <1>2, <1>8, <2>2
    <3>2. r[s] < r[w.frames[n].node]
      <4>1. s \in Successors(g, w.frames[n].node) /\ w.frames[n].node \in g.nodes
        BY <1>2, <3>1 DEF n
      <4> QED BY <4>1 DEF Ranks
    <3>3. i = n \/ r[w.frames[n].node] < r[w.frames[i].node]
      <4>1. i \in DOMAIN w.frames /\ n \in DOMAIN w.frames /\ (i = n \/ i < n)
        BY <1>2, <3>1
      <4> QED BY <4>1
    <3>4. r[s] \in Int /\ r[w.frames[n].node] \in Int /\ r[w.frames[i].node] \in Int
      <4>1. r \in [g.nodes -> 1 .. Cardinality(g.nodes)]
        BY DEF Ranks
      <4>2. w.frames[n].node \in g.nodes /\ w.frames[i].node \in g.nodes
        BY <1>2, <3>1
      <4>3. \A x \in 1 .. Cardinality(g.nodes) : x \in Int
        OBVIOUS
      <4> QED BY <4>1, <4>2, <4>3
    <3>5. r[s] < r[w.frames[i].node]
      BY <3>2, <3>3, <3>4
    <3> QED BY <1>1, <1>4, <2>2, <3>1, <3>5
  <2> QED BY <1>3, <2>1, <2>2
<1>9. DOMAIN e.frames = 1 .. n + 1
  BY <1>1
<1>10. Stacked(g, e)
  BY <1>7, <1>8, <1>9 DEF Stacked
<1> QED BY <1>6, <1>10 DEF Walked, e

\* The walk of a caller that tries the next root.
LEMMA EnterRoot ==
  ASSUME NEW g, Shape(g), NEW w, Walked(g, w), w.frames = <<>>,
         NEW s \in g.nodes, s \notin Visited(w)
  PROVE Walked(g, Enter(g, w, s))
<1>1. w \in Walk(g) /\ Orderly(g, w)
  BY DEF Walked, Orderly
<1>2. DOMAIN w.frames = {}
  BY EmptySeq
<1> QED BY <1>1, <1>2, EnterKeepsWalked

\* No call returns to itself on a graph with ranks.
LEMMA RanksForbidCycles ==
  ASSUME NEW g, Shape(g), NEW w, Walked(g, w), w.frames # <<>>, NEW r \in Ranks(g)
  PROVE ~FindsCycle(w)
<1> DEFINE n == Len(w.frames)
           top == Last(w.frames)
<1> SUFFICES ASSUME FindsCycle(w) PROVE FALSE
  OBVIOUS
<1>1. w \in Walk(g) /\ Orderly(g, w) /\ Stacked(g, w)
  BY DEF Walked, Orderly
<1>2. /\ n \in Nat \ {0} /\ DOMAIN w.frames = 1 .. n /\ top = w.frames[n]
      /\ top.left # <<>> /\ Head(top.left) \in RecStack(w)
      /\ \A i \in 1 .. n : w.frames[i].node \in g.nodes /\ w.frames[i].left \in Seq(g.nodes)
      /\ \A x : x \in RecStack(w) <=> \E i \in DOMAIN w.frames : w.frames[i].node = x
  <2>1. top = w.frames[n]
    BY DEF Last
  <2>2. top.left # <<>> /\ Head(top.left) \in RecStack(w)
    BY DEF FindsCycle, SeesVisited
  <2> HIDE DEF top
  <2> QED BY <1>1, <2>1, <2>2, WalkFacts
<1> HIDE DEF top
<1>3. PICK i \in 1 .. n : w.frames[i].node = Head(top.left)
  BY <1>2
<1> HIDE DEF n
<1>4. n \in 1 .. n /\ (i = n \/ i < n)
  BY <1>2, <1>3
<1>5. Head(top.left) \in Successors(g, top.node)
  <2>1. top.left \in Seq(g.nodes)
    BY <1>2, <1>4
  <2>2. Head(top.left) \in ToSet(top.left)
    BY <1>2, <2>1, SetOfSequence
  <2>3. ToSet(top.left) \subseteq Successors(g, top.node)
    BY <1>1, <1>2, <1>4 DEF Stacked, Looked
  <2> QED BY <2>2, <2>3
<1>6. r[Head(top.left)] < r[top.node]
  <2>1. top.node \in g.nodes
    BY <1>2, <1>4
  <2> QED BY <1>5, <2>1 DEF Ranks
<1>7. i = n \/ r[top.node] < r[w.frames[i].node]
  BY <1>1, <1>2, <1>4 DEF Stacked
<1>8. r[top.node] \in Int /\ r[w.frames[i].node] \in Int
  <2>1. r \in [g.nodes -> 1 .. Cardinality(g.nodes)]
    BY DEF Ranks
  <2>2. \A x \in 1 .. Cardinality(g.nodes) : x \in Int
    OBVIOUS
  <2>3. top.node \in g.nodes /\ w.frames[i].node \in g.nodes
    BY <1>2, <1>4
  <2> QED BY <2>1, <2>2, <2>3
<1>9. r[w.frames[i].node] < r[top.node]
  BY <1>3, <1>6
<1> QED BY <1>2, <1>7, <1>8, <1>9

\* A call returns when all its successors were finished.
LEMMA ReturnKeepsWalked ==
  ASSUME NEW g, Shape(g), NEW w, Walked(g, w), w.frames # <<>>, Last(w.frames).left = <<>>
  PROVE /\ Walked(g, Returned(w)) /\ Visited(Returned(w)) = Visited(w)
        /\ Rooted(g, w) => Rooted(g, Returned(w))
<1> DEFINE e == Returned(w)
           n == Len(w.frames)
           m == Len(w.finished)
           top == w.frames[n].node
<1>1. w \in Walk(g) /\ Orderly(g, w) /\ Stacked(g, w)
  BY DEF Walked, Orderly
<1>2. /\ e \in Walk(g) /\ n >= 1
      /\ Len(e.frames) = n - 1 /\ DOMAIN e.frames = 1 .. n - 1
      /\ \A i \in 1 .. n - 1 : e.frames[i] = w.frames[i]
      /\ Len(e.finished) = m + 1 /\ DOMAIN e.finished = 1 .. m + 1
      /\ \A i \in 1 .. m : e.finished[i] = w.finished[i]
      /\ e.finished[m + 1] = top
      /\ ToSet(e.finished) = ToSet(w.finished) \cup {top}
      /\ w.frames[n].left = <<>>
  BY <1>1, ReturnedFacts
<1> HIDE DEF e
<1>3. /\ n \in Nat /\ DOMAIN w.frames = 1 .. n
      /\ m \in Nat /\ DOMAIN w.finished = 1 .. m
      /\ \A i \in 1 .. n : w.frames[i].node \in g.nodes
      /\ \A x : x \in RecStack(w) <=> \E i \in 1 .. n : w.frames[i].node = x
      /\ \A x : x \in RecStack(e) <=> \E i \in 1 .. n - 1 : e.frames[i].node = x
      /\ \A x : x \in ToSet(w.finished) <=> \E i \in 1 .. m : w.finished[i] = x
      /\ (e.frames = <<>> <=> n - 1 = 0)
  <2>1. /\ n \in Nat /\ DOMAIN w.frames = 1 .. n
        /\ m \in Nat /\ DOMAIN w.finished = 1 .. m
        /\ \A i \in DOMAIN w.frames : w.frames[i].node \in g.nodes
        /\ \A x : x \in RecStack(w) <=> \E i \in DOMAIN w.frames : w.frames[i].node = x
        /\ \A x : x \in ToSet(w.finished) <=> \E i \in DOMAIN w.finished : w.finished[i] = x
    BY <1>1, WalkFacts
  <2>2. /\ \A x : x \in RecStack(e) <=> \E i \in DOMAIN e.frames : e.frames[i].node = x
        /\ (e.frames = <<>> <=> Len(e.frames) = 0)
    <3>1. e \in Walk(g)
      BY <1>2
    <3> QED BY <3>1, WalkFacts
  <2> QED BY <1>2, <2>1, <2>2
<1> HIDE DEF n, m
<1>20. /\ \A i, j \in 1 .. n : w.frames[i].node = w.frames[j].node => i = j
       /\ \A i, j \in 1 .. m : w.finished[i] = w.finished[j] => i = j
       /\ \A i \in 1 .. m : \A t \in Successors(g, w.finished[i]) :
            \E j \in 1 .. m : j < i /\ w.finished[j] = t
       /\ RecStack(w) \cap ToSet(w.finished) = {}
  <2>1. IsInjective(w.finished) /\ DOMAIN w.finished = 1 .. m /\ DOMAIN w.frames = 1 .. n
    BY <1>1, <1>3 DEF Orderly
  <2>2. \A i, j \in 1 .. m : w.finished[i] = w.finished[j] => i = j
    BY <2>1 DEF IsInjective
  <2> QED BY <1>1, <2>1, <2>2 DEF Orderly
<1>4. n \in 1 .. n /\ \A i \in 1 .. n - 1 : i \in 1 .. n /\ i # n
  BY <1>2, <1>3
<1>5. \A i \in 1 .. n : i \in 1 .. n - 1 \/ i = n
  BY <1>3
<1>6. top \in RecStack(w) /\ top \notin ToSet(w.finished) /\ top \notin RecStack(e)
  <2>1. top \in RecStack(w)
    BY <1>3, <1>4
  <2>2. top \notin ToSet(w.finished)
    BY <1>1, <2>1 DEF Orderly
  <2>3. \A i \in 1 .. n - 1 : e.frames[i].node # top
    BY <1>2, <1>20, <1>4
  <2> QED BY <1>2, <1>3, <2>1, <2>2, <2>3
<1>7. RecStack(w) = RecStack(e) \cup {top}
  <2>1. \A x \in RecStack(e) : x \in RecStack(w)
    BY <1>2, <1>3, <1>4
  <2>2. \A x \in RecStack(w) : x = top \/ x \in RecStack(e)
    BY <1>2, <1>3, <1>5
  <2> QED BY <1>6, <2>1, <2>2
<1>8. Visited(e) = Visited(w)
  BY <1>2, <1>7 DEF Visited
<1>9. \A i \in 1 .. m + 1 : i \in 1 .. m \/ i = m + 1
  BY <1>3
<1>10. \A i \in 1 .. m : i \in 1 .. m + 1 /\ i < m + 1
  BY <1>3
<1>11. Orderly(g, e)
  <2>1. IsInjective(e.finished)
    <3> SUFFICES ASSUME NEW i \in 1 .. m + 1, NEW j \in 1 .. m + 1, e.finished[i] = e.finished[j]
                 PROVE i = j
      BY <1>2 DEF IsInjective
    <3>1. \A k \in 1 .. m : w.finished[k] # top
      BY <1>3, <1>6
    <3>2. CASE i \in 1 .. m /\ j \in 1 .. m
      <4>1. e.finished[i] = w.finished[i] /\ e.finished[j] = w.finished[j]
        BY <1>2, <3>2
      <4> QED BY <1>20, <3>2, <4>1
    <3>3. CASE i \in 1 .. m /\ j = m + 1
      BY <1>2, <3>1, <3>3
    <3>4. CASE i = m + 1 /\ j \in 1 .. m
      BY <1>2, <3>1, <3>4
    <3> QED BY <1>9, <3>2, <3>3, <3>4
  <2>2. \A i, j \in DOMAIN e.frames : e.frames[i].node = e.frames[j].node => i = j
    BY <1>20, <1>2, <1>4
  <2>3. RecStack(e) \cap ToSet(e.finished) = {}
    BY <1>1, <1>2, <1>6, <1>7 DEF Orderly
  <2>4. ASSUME NEW i \in 1 .. m + 1, NEW t \in Successors(g, e.finished[i])
        PROVE \E j \in 1 .. m + 1 : j < i /\ e.finished[j] = t
    <3>1. CASE i \in 1 .. m
      <4>1. PICK j \in 1 .. m : j < i /\ w.finished[j] = t
        BY <1>20, <1>2, <2>4, <3>1
      <4> QED BY <1>2, <1>10, <4>1
    <3>2. CASE i = m + 1
      <4>1. Looked(g, w, n)
        BY <1>1, <1>3, <1>4 DEF Stacked
      <4>2. t \in Successors(g, w.frames[n].node)
        BY <1>2, <2>4, <3>2
      <4>3. t \in ToSet(w.frames[n].left) \/ t \in ToSet(w.finished)
        BY <1>3, <4>1, <4>2 DEF Looked, n
      <4>4. ToSet(w.frames[n].left) = {}
        BY <1>2, EmptySeq DEF ToSet
      <4>5. PICK j \in 1 .. m : w.finished[j] = t
        BY <1>3, <4>3, <4>4
      <4> QED BY <1>2, <1>10, <3>2, <4>5
    <3> QED BY <1>9, <3>1, <3>2
  <2>5. \A i \in DOMAIN e.finished : \A t \in Successors(g, e.finished[i]) :
          \E j \in DOMAIN e.finished : j < i /\ e.finished[j] = t
    <3>1. DOMAIN e.finished = 1 .. m + 1
      BY <1>2
    <3> QED BY <2>4, <3>1
  <2> QED BY <1>2, <2>1, <2>2, <2>3, <2>5 DEF Orderly
<1>12. ASSUME NEW i \in 1 .. n - 1 PROVE Looked(g, e, i)
  <2>1. Looked(g, w, i) /\ i < n
    BY <1>1, <1>3, <1>4 DEF Stacked
  <2>2. e.frames[i] = w.frames[i]
    BY <1>2
  <2>3. CASE i < n - 1
    <3>1. i + 1 \in 1 .. n - 1
      BY <1>3, <2>3
    <3>2. e.frames[i + 1] = w.frames[i + 1]
      BY <1>2, <3>1
    <3> QED BY <1>2, <2>1, <2>2, <2>3, <3>2 DEF Looked
  <2>4. CASE ~(i < n - 1)
    <3>1. i + 1 = n
      BY <1>3, <2>4
    <3>2. w.frames[i + 1].node \in ToSet(e.finished)
      BY <1>2, <3>1
    <3> QED BY <1>2, <2>1, <2>2, <3>2 DEF Looked
  <2> QED BY <2>3, <2>4
<1>13. \A r \in Ranks(g) : \A i, j \in DOMAIN e.frames :
         i < j => r[e.frames[j].node] < r[e.frames[i].node]
  <2> SUFFICES ASSUME NEW r \in Ranks(g), NEW i \in 1 .. n - 1, NEW j \in 1 .. n - 1, i < j
               PROVE r[e.frames[j].node] < r[e.frames[i].node]
    BY <1>2
  <2>1. i \in DOMAIN w.frames /\ j \in DOMAIN w.frames
    BY <1>3, <1>4
  <2>2. r[w.frames[j].node] < r[w.frames[i].node]
    BY <1>1, <2>1 DEF Stacked
  <2> QED BY <1>2, <2>2
<1>14. Walked(g, e)
  BY <1>2, <1>11, <1>12, <1>13 DEF Walked, Stacked
<1>15. ASSUME Rooted(g, w) PROVE Rooted(g, e)
  <2>1. w.frames[1].node = g.entry
    BY <1>15 DEF Rooted
  <2>2. CASE n = 1
    <3>1. e.frames = <<>> /\ g.entry \in ToSet(e.finished)
      BY <1>2, <1>3, <2>1, <2>2
    <3> QED BY <1>8, <1>15, <3>1 DEF Rooted
  <2>3. CASE n # 1
    <3>1. 1 \in 1 .. n - 1 /\ n - 1 # 0
      BY <1>2, <1>3, <2>3
    <3>2. e.frames # <<>> /\ e.frames[1].node = g.entry
      BY <1>2, <1>3, <2>1, <3>1
    <3> QED BY <1>8, <1>15, <3>2 DEF Rooted
  <2> QED BY <2>2, <2>3
<1> QED BY <1>8, <1>14, <1>15 DEF e

\* What a call knows when it has taken a successor to look at.
LEMMA LookKeepsWalked ==
  ASSUME NEW g, Shape(g), NEW w, Walked(g, w), w.frames # <<>>, Last(w.frames).left # <<>>
  PROVE LET e == LookedOn(w)
            n == Len(w.frames)
            s == Head(Last(w.frames).left)
        IN /\ e \in Walk(g) /\ Orderly(g, e) /\ Visited(e) = Visited(w)
           /\ e.frames # <<>> /\ Len(e.frames) = n
           /\ \A r \in Ranks(g) : \A i, j \in DOMAIN e.frames :
                i < j => r[e.frames[j].node] < r[e.frames[i].node]
           /\ \A i \in DOMAIN e.frames : i < n => Looked(g, e, i)
           /\ s \in g.nodes /\ s \in Successors(g, e.frames[n].node)
           /\ ToSet(e.frames[n].left) \subseteq Successors(g, e.frames[n].node)
           /\ \A t \in Successors(g, e.frames[n].node) :
                t \in ToSet(e.frames[n].left) \cup ToSet(e.finished) \cup {s}
           /\ Rooted(g, w) => Rooted(g, e)
<1> DEFINE e == LookedOn(w)
           n == Len(w.frames)
           s == Head(Last(w.frames).left)
<1>1. w \in Walk(g) /\ Orderly(g, w) /\ Stacked(g, w)
  BY DEF Walked, Orderly
<1>2. /\ e \in Walk(g) /\ n >= 1 /\ e.finished = w.finished
      /\ Len(e.frames) = n /\ DOMAIN e.frames = 1 .. n /\ e.frames # <<>>
      /\ \A i \in 1 .. n - 1 : e.frames[i] = w.frames[i]
      /\ e.frames[n].left = Tail(w.frames[n].left)
      /\ \A i \in 1 .. n : e.frames[i].node = w.frames[i].node
      /\ RecStack(e) = RecStack(w)
      /\ s = Head(w.frames[n].left) /\ s \in g.nodes
      /\ ToSet(w.frames[n].left) = {s} \cup ToSet(e.frames[n].left)
  BY <1>1, LookedOnFacts
<1>3. n \in Nat /\ DOMAIN w.frames = 1 .. n
  BY <1>1, WalkFacts
<1> HIDE DEF e, n, s
<1>4. n \in 1 .. n /\ 1 \in 1 .. n
  BY <1>2, <1>3
<1>5. Visited(e) = Visited(w)
  BY <1>2 DEF Visited
<1>6. Orderly(g, e)
  BY <1>1, <1>2, <1>3 DEF Orderly
<1>7. \A r \in Ranks(g) : \A i, j \in DOMAIN e.frames :
        i < j => r[e.frames[j].node] < r[e.frames[i].node]
  BY <1>1, <1>2, <1>3 DEF Stacked
<1>8. ASSUME NEW i \in 1 .. n, i < n PROVE Looked(g, e, i)
  <2>1. i \in 1 .. n - 1 /\ i + 1 \in 1 .. n
    BY <1>3, <1>8
  <2>2. Looked(g, w, i) /\ e.frames[i] = w.frames[i] /\ e.frames[i + 1].node = w.frames[i + 1].node
    BY <1>1, <1>2, <1>3, <1>8, <2>1 DEF Stacked
  <2> QED BY <1>2, <2>2 DEF Looked, n
<1>9. /\ s \in Successors(g, e.frames[n].node)
      /\ ToSet(e.frames[n].left) \subseteq Successors(g, e.frames[n].node)
      /\ \A t \in Successors(g, e.frames[n].node) :
            t \in ToSet(e.frames[n].left) \cup ToSet(e.finished) \cup {s}
  <2>1. Looked(g, w, n) /\ e.frames[n].node = w.frames[n].node
    BY <1>1, <1>2, <1>3, <1>4 DEF Stacked
  <2>2. ~(n < Len(w.frames))
    BY <1>3 DEF n
  <2>3. /\ ToSet(w.frames[n].left) \subseteq Successors(g, w.frames[n].node)
        /\ \A t \in Successors(g, w.frames[n].node) :
             t \in ToSet(w.frames[n].left) \/ t \in ToSet(w.finished)
    BY <2>1, <2>2 DEF Looked
  <2> QED BY <1>2, <2>1, <2>3
<1>10. Rooted(g, w) => Rooted(g, e)
  BY <1>2, <1>4, <1>5 DEF Rooted
<1> QED BY <1>2, <1>5, <1>6, <1>7, <1>8, <1>9, <1>10 DEF e, n, s

\* The step that is entered follows from the last call.
LEMMA EnterKeepsRooted ==
  ASSUME NEW g, Shape(g), NEW w \in Walk(g), Rooted(g, w), w.frames # <<>>,
         NEW s \in g.nodes, s \in Successors(g, w.frames[Len(w.frames)].node)
  PROVE Rooted(g, Enter(g, w, s))
<1> DEFINE e == Enter(g, w, s)
           n == Len(w.frames)
<1>1. /\ e \in Walk(g) /\ e.finished = w.finished
      /\ Len(e.frames) = n + 1 /\ e.frames # <<>> /\ DOMAIN e.frames = 1 .. n + 1
      /\ \A i \in 1 .. n : e.frames[i] = w.frames[i]
      /\ e.frames[n + 1] = [node |-> s, left |-> g.next[s]]
      /\ RecStack(e) = RecStack(w) \cup {s}
  BY EnterFacts
<1>2. /\ n \in Nat /\ DOMAIN w.frames = 1 .. n /\ n # 0
      /\ \A x : x \in RecStack(w) <=> \E i \in DOMAIN w.frames : w.frames[i].node = x
  BY WalkFacts
<1> HIDE DEF e
<1>3. 1 \in 1 .. n /\ n \in 1 .. n
  BY <1>2
<1>4. Visited(e) = Visited(w) \cup {s} /\ w.frames[n].node \in Visited(w)
  BY <1>1, <1>2, <1>3 DEF Visited
<1>5. ASSUME NEW C \in SUBSET g.nodes, Closed(g, C) PROVE Visited(e) \subseteq C
  <2>1. Visited(w) \subseteq C
    BY <1>5 DEF Rooted
  <2>2. s \in C
    BY <1>4, <1>5, <2>1 DEF Closed
  <2> QED BY <1>4, <2>1, <2>2
<1>6. e.frames[1].node = g.entry
  BY <1>1, <1>3 DEF Rooted
<1> QED BY <1>1, <1>5, <1>6 DEF Rooted, e

\* One step of the walk.
LEMMA StepKeepsWalked ==
  ASSUME NEW g, Shape(g), NEW w, Walked(g, w), w.frames # <<>>, ~FindsCycle(w)
  PROVE /\ Walked(g, WalkStep(g, w))
        /\ Rooted(g, w) => Rooted(g, WalkStep(g, w))
<1> DEFINE left == Last(w.frames).left
           e == LookedOn(w)
           n == Len(w.frames)
           s == Head(left)
<1>1. CASE left = <<>>
  BY <1>1, StepCases, ReturnKeepsWalked
<1>2. CASE left # <<>>
  <2>1. /\ e \in Walk(g) /\ Orderly(g, e) /\ Visited(e) = Visited(w)
        /\ e.frames # <<>> /\ Len(e.frames) = n
        /\ \A r \in Ranks(g) : \A i, j \in DOMAIN e.frames :
             i < j => r[e.frames[j].node] < r[e.frames[i].node]
        /\ \A i \in DOMAIN e.frames : i < n => Looked(g, e, i)
        /\ s \in g.nodes /\ s \in Successors(g, e.frames[n].node)
        /\ ToSet(e.frames[n].left) \subseteq Successors(g, e.frames[n].node)
        /\ \A t \in Successors(g, e.frames[n].node) :
             t \in ToSet(e.frames[n].left) \cup ToSet(e.finished) \cup {s}
        /\ Rooted(g, w) => Rooted(g, e)
    BY <1>2, LookKeepsWalked
  <2>2. s \notin RecStack(w)
    BY <1>2 DEF FindsCycle, SeesVisited
  <2>3. WalkStep(g, w) = IF s \in Visited(w) THEN e ELSE Enter(g, e, s)
    BY <1>2, StepCases
  <2> HIDE DEF e, n, s
  <2>4. CASE s \in Visited(w)
    <3>1. s \in ToSet(e.finished)
      <4>1. e.finished = w.finished
        BY DEF e, LookedOn
      <4> QED BY <2>2, <2>4, <4>1 DEF Visited
    <3>2. \A i \in DOMAIN e.frames : Looked(g, e, i)
      <4> SUFFICES ASSUME NEW i \in DOMAIN e.frames, ~(i < n) PROVE Looked(g, e, i)
        BY <2>1
      <4>1. i = n
        <5>1. n \in Nat /\ DOMAIN e.frames = 1 .. n
          BY <2>1, WalkFacts
        <5> QED BY <5>1
      <4> QED BY <2>1, <3>1, <4>1 DEF Looked
    <3>3. Walked(g, e)
      BY <2>1, <3>2 DEF Walked, Stacked
    <3> QED BY <2>1, <2>3, <2>4, <3>3
  <2>5. CASE s \notin Visited(w)
    <3>1. Walked(g, Enter(g, e, s))
      BY <2>1, <2>5, EnterKeepsWalked
    <3>2. ASSUME Rooted(g, w) PROVE Rooted(g, Enter(g, e, s))
      <4>1. Rooted(g, e) /\ s \in Successors(g, e.frames[Len(e.frames)].node)
        BY <2>1, <3>2
      <4> QED BY <2>1, <4>1, EnterKeepsRooted
    <3> QED BY <2>3, <2>5, <3>1, <3>2
  <2> QED BY <2>4, <2>5
<1> QED BY <1>1, <1>2

\* A sequence without repetitions is no longer than the set it is from.
LEMMA LengthWithoutRepeats ==
  ASSUME NEW S, IsFiniteSet(S), NEW s \in Seq(S), IsInjective(s)
  PROVE /\ Len(s) <= Cardinality(S)
        /\ ToSet(s) = S => Len(s) = Cardinality(S)
<1> DEFINE I == 1 .. Len(s)
<1>1. s \in [I -> S] /\ DOMAIN s = I /\ Len(s) \in Nat
  OBVIOUS
<1>2. Cardinality(I) = Len(s)
  <2>1. Cardinality(I) = IF 1 > Len(s) THEN 0 ELSE Len(s) - 1 + 1
    BY <1>1, FS_Interval
  <2> HIDE DEF I
  <2> QED BY <1>1, <2>1
<1> HIDE DEF I
<1>3. s \in Injection(I, S)
  BY <1>1 DEF Injection, IsInjective
<1>4. Cardinality(I) <= Cardinality(S) /\ (Cardinality(I) = Cardinality(S) <=> s \in Surjection(I, S))
  BY <1>3, FS_Injection
<1>5. ToSet(s) = S => s \in Surjection(I, S)
  BY <1>1 DEF Surjection, ToSet
<1> QED BY <1>2, <1>4, <1>5

\* There are no more calls than steps.
LEMMA StackIsShort ==
  ASSUME NEW g, Shape(g), NEW w, Orderly(g, w)
  PROVE Len(w.frames) <= Cardinality(g.nodes)
<1> DEFINE n == Len(w.frames)
           s == [i \in 1 .. n |-> w.frames[i].node]
<1>1. /\ n \in Nat /\ DOMAIN w.frames = 1 .. n
      /\ \A i \in 1 .. n : w.frames[i].node \in g.nodes
  <2>1. w \in Walk(g)
    BY DEF Orderly
  <2> QED BY <2>1, WalkFacts
<1>2. \A i, j \in 1 .. n : w.frames[i].node = w.frames[j].node => i = j
  BY <1>1 DEF Orderly
<1> HIDE DEF n
<1>3. s \in Seq(g.nodes) /\ Len(s) = n
  BY <1>1
<1>4. IsInjective(s)
  BY <1>2 DEF IsInjective
<1> HIDE DEF s
<1>5. Len(s) <= Cardinality(g.nodes)
  BY <1>3, <1>4, LengthWithoutRepeats DEF Shape
<1> QED BY <1>3, <1>5 DEF n

\* No call is left and every step was visited: the order is a ranking.
LEMMA WalkRanks ==
  ASSUME NEW g, Shape(g), NEW w, Walked(g, w), w.frames = <<>>, g.nodes \subseteq Visited(w)
  PROVE Ranks(g) # {}
<1> DEFINE f == w.finished
           at(s) == CHOOSE i \in DOMAIN f : f[i] = s
           r == [s \in g.nodes |-> at(s)]
<1>1. Orderly(g, w) /\ w \in Walk(g)
  BY DEF Walked, Orderly
<1>2. /\ f \in Seq(g.nodes) /\ Len(f) \in Nat /\ DOMAIN f = 1 .. Len(f)
      /\ \A s : s \in ToSet(f) <=> \E i \in DOMAIN f : f[i] = s
      /\ \A s : s \in RecStack(w) <=> \E i \in DOMAIN w.frames : w.frames[i].node = s
      /\ DOMAIN w.frames = 1 .. Len(w.frames) /\ Len(w.frames) = 0
  BY <1>1, WalkFacts
<1>3. g.nodes \subseteq ToSet(f)
  <2>1. RecStack(w) = {}
    BY <1>2
  <2> QED BY <2>1 DEF Visited
<1>4. Len(f) <= Cardinality(g.nodes) /\ Cardinality(g.nodes) \in Nat
  BY <1>1, <1>2, LengthWithoutRepeats, FS_CardinalityType DEF Orderly, Shape
<1>5. \A s \in g.nodes : at(s) \in DOMAIN f /\ f[at(s)] = s
  <2> TAKE s \in g.nodes
  <2>1. \E i \in DOMAIN f : f[i] = s
    BY <1>2, <1>3
  <2> QED BY <2>1
<1>6. \A i, j \in DOMAIN f : f[i] = f[j] => i = j
  BY <1>1 DEF Orderly, IsInjective
<1>7. \A i \in DOMAIN f : \A t \in Successors(g, f[i]) : \E j \in DOMAIN f : j < i /\ f[j] = t
  BY <1>1 DEF Orderly
<1> HIDE DEF f, at
<1>8. r \in [g.nodes -> 1 .. Cardinality(g.nodes)]
  <2>1. \A s \in g.nodes : at(s) \in 1 .. Cardinality(g.nodes)
    BY <1>2, <1>4, <1>5
  <2> QED BY <2>1
<1>9. ASSUME NEW s \in g.nodes, NEW t \in Successors(g, s) PROVE r[t] < r[s]
  <2>1. t \in g.nodes
    BY <1>9, ShapeFacts
  <2>2. PICK j \in DOMAIN f : j < at(s) /\ f[j] = t
    BY <1>5, <1>7, <1>9
  <2>3. j = at(t)
    BY <1>5, <1>6, <2>1, <2>2
  <2> QED BY <2>1, <2>2, <2>3
<1>10. r \in Ranks(g)
  <2> HIDE DEF r
  <2> QED BY <1>8, <1>9 DEF Ranks
<1> QED BY <1>10

\* A walk from the entry point that ended visited what can be reached.
LEMMA WalkEnded ==
  ASSUME NEW g, Shape(g), g.entry \in g.nodes,
         NEW w, Walked(g, w), Rooted(g, w), w.frames = <<>>
  PROVE /\ Visited(w) = ToSet(w.finished)
        /\ Reached(g) => Visited(w) = g.nodes
        /\ Cardinality(Visited(w)) = Cardinality(g.nodes) => Reached(g)
<1>1. Orderly(g, w) /\ w \in Walk(g)
  BY DEF Walked, Orderly
<1>2. /\ \A s : s \in ToSet(w.finished) <=> \E i \in DOMAIN w.finished : w.finished[i] = s
      /\ \A s : s \in RecStack(w) <=> \E i \in DOMAIN w.frames : w.frames[i].node = s
      /\ \A i \in DOMAIN w.finished : w.finished[i] \in g.nodes
      /\ DOMAIN w.frames = 1 .. Len(w.frames) /\ Len(w.frames) = 0
  BY <1>1, WalkFacts
<1>3. Visited(w) = ToSet(w.finished)
  <2>1. RecStack(w) = {}
    BY <1>2
  <2> QED BY <2>1 DEF Visited
<1>4. Visited(w) \subseteq g.nodes
  BY <1>2, <1>3
<1>5. Closed(g, Visited(w))
  <2>1. g.entry \in Visited(w)
    BY <1>3 DEF Rooted
  <2>2. ASSUME NEW s \in Visited(w), NEW t \in Successors(g, s) PROVE t \in Visited(w)
    <3>1. PICK i \in DOMAIN w.finished : w.finished[i] = s
      BY <1>2, <1>3
    <3>2. \E j \in DOMAIN w.finished : w.finished[j] = t
      BY <1>1, <2>2, <3>1 DEF Orderly
    <3> QED BY <1>2, <1>3, <3>2
  <2> QED BY <1>4, <2>1, <2>2 DEF Closed
<1>6. Reached(g) => Visited(w) = g.nodes
  BY <1>4, <1>5 DEF Reached
<1>7. ASSUME Cardinality(Visited(w)) = Cardinality(g.nodes) PROVE Reached(g)
  <2>1. Visited(w) = g.nodes
    BY <1>4, <1>7, FS_Subset DEF Shape
  <2>2. \A C \in SUBSET g.nodes : Closed(g, C) => Visited(w) \subseteq C
    BY DEF Rooted
  <2> QED BY <2>1, <2>2 DEF Reached
<1> QED BY <1>3, <1>6, <1>7

\* Post-order, reversed, is topological.
LEMMA ReverseIsTopological ==
  ASSUME NEW g, Shape(g), Sound(g), NEW w, Walked(g, w), Rooted(g, w), w.frames = <<>>
  PROVE Reverse(w.finished) \in Seq(g.nodes) /\ IsTopological(g, Reverse(w.finished))
<1> DEFINE f == w.finished
           n == Len(f)
           o == Reverse(f)
<1>1. Orderly(g, w) /\ w \in Walk(g)
  BY DEF Walked, Orderly
<1>2. /\ f \in Seq(g.nodes) /\ n \in Nat /\ DOMAIN f = 1 .. n
      /\ \A s : s \in ToSet(f) <=> \E i \in DOMAIN f : f[i] = s
      /\ \A i \in DOMAIN f : f[i] \in g.nodes
  BY <1>1, WalkFacts
<1>3. ToSet(f) = g.nodes
  BY WalkEnded DEF Sound
<1>4. n = Cardinality(g.nodes)
  BY <1>1, <1>2, <1>3, LengthWithoutRepeats DEF Orderly, Shape
<1>5. o = [i \in 1 .. n |-> f[(n - i) + 1]]
  BY DEF Reverse
<1>6. /\ \A i, j \in DOMAIN f : f[i] = f[j] => i = j
      /\ \A i \in DOMAIN f : \A t \in Successors(g, f[i]) : \E j \in DOMAIN f : j < i /\ f[j] = t
  BY <1>1 DEF Orderly, IsInjective
<1> HIDE DEF f, n, o
<1>7. o \in Seq(g.nodes) /\ Len(o) = n /\ DOMAIN o = 1 .. n
  <2>1. \A i \in 1 .. n : (n - i) + 1 \in 1 .. n
    BY <1>2
  <2> QED BY <1>2, <1>5, <2>1
<1>8. ToSet(o) = g.nodes
  <2>1. \A i \in 1 .. n : o[i] \in g.nodes
    BY <1>7
  <2>2. ASSUME NEW s \in g.nodes PROVE \E i \in 1 .. n : o[i] = s
    <3>1. PICK j \in 1 .. n : f[j] = s
      BY <1>2, <1>3
    <3>2. (n - j) + 1 \in 1 .. n /\ (n - ((n - j) + 1)) + 1 = j
      BY <1>2
    <3> QED BY <1>5, <3>1, <3>2
  <2> QED BY <1>7, <2>1, <2>2 DEF ToSet
<1>9. ASSUME NEW i \in 1 .. n, NEW j \in 1 .. n, o[j] \in Successors(g, o[i]) PROVE i < j
  <2> DEFINE x == (n - i) + 1
             y == (n - j) + 1
  <2>1. x \in 1 .. n /\ y \in 1 .. n /\ (y < x => i < j)
    BY <1>2
  <2>2. o[i] = f[x] /\ o[j] = f[y]
    BY <1>5
  <2> HIDE DEF x, y
  <2>3. PICK k \in DOMAIN f : k < x /\ f[k] = f[y]
    BY <1>2, <1>6, <1>9, <2>1, <2>2
  <2>4. k = y
    BY <1>2, <1>6, <2>1, <2>3
  <2> QED BY <2>1, <2>3, <2>4
<1> QED BY <1>4, <1>7, <1>8, <1>9 DEF IsTopological, Successors, f, n, o
-----------------------------------------------------------------------------
(* The search of ComputeLevels.                                             *)

\* The steps of the queue have levels, and left belongs to the first.
Queued(g, b) ==
  /\ b \in Search(g)
  /\ b.queue = <<>> => b.left = <<>>
  /\ b.queue # <<>> => ToSet(b.left) \subseteq Successors(g, Head(b.queue))
  /\ \A i \in DOMAIN b.queue : b.level[b.queue[i]] >= 0

\* A level above zero was counted from a step that leads there.
Counted(g, b) ==
  /\ b.level[g.entry] >= 0
  /\ \A s \in StepIDs : b.level[s] # -1 => b.level[s] >= 0 /\ s \in g.nodes
  /\ \A s \in g.nodes : b.level[s] = 0 => s = g.entry
  /\ \A t \in g.nodes : b.level[t] > 0 =>
       \E s \in g.nodes : t \in Successors(g, s) /\ b.level[s] + 1 >= b.level[t]

\* A successor is deeper, or will be looked at.
Pending(b, s, t) ==
  \/ \E i \in DOMAIN b.queue : i > 1 /\ b.queue[i] = s
  \/ b.queue # <<>> /\ s = Head(b.queue) /\ t \in ToSet(b.left)
Deepened(g, b) ==
  \A s \in g.nodes : b.level[s] >= 0 =>
    \A t \in Successors(g, s) : b.level[t] > b.level[s] \/ Pending(b, s, t)

Searched(g, b) == Queued(g, b) /\ Counted(g, b) /\ Deepened(g, b)

\* What a search consists of.
LEMMA SearchFacts ==
  ASSUME NEW g, Shape(g), NEW b \in Search(g)
  PROVE /\ b.level \in [StepIDs -> Int] /\ b.queue \in Seq(g.nodes) /\ b.left \in Seq(g.nodes)
        /\ b = [level |-> b.level, queue |-> b.queue, left |-> b.left]
        /\ Len(b.queue) \in Nat /\ DOMAIN b.queue = 1 .. Len(b.queue)
        /\ \A i \in DOMAIN b.queue : b.queue[i] \in g.nodes
        /\ b.queue = <<>> <=> Len(b.queue) = 0
        /\ \A s \in g.nodes : s \in StepIDs /\ b.level[s] \in Int
<1>1. /\ b.level \in [StepIDs -> Int] /\ b.queue \in Seq(g.nodes) /\ b.left \in Seq(g.nodes)
      /\ b = [level |-> b.level, queue |-> b.queue, left |-> b.left]
  BY DEF Search
<1>2. b.queue = <<>> <=> Len(b.queue) = 0
  BY <1>1, EmptySeq
<1> QED BY <1>1, <1>2, ShapeFacts

\* The successors of a node, as a sequence of nodes.
LEMMA NextOfNode ==
  ASSUME NEW g, Shape(g), NEW s \in g.nodes
  PROVE g.next[s] \in Seq(g.nodes) /\ ToSet(g.next[s]) = Successors(g, s)
<1>1. g.next[s] \in Seq(StepIDs) /\ ToSet(g.next[s]) \subseteq g.nodes
  BY ShapeFacts DEF Shape, Graph
<1>2. \A i \in DOMAIN g.next[s] : g.next[s][i] \in g.nodes
  BY <1>1 DEF ToSet
<1> QED BY <1>1, <1>2 DEF Successors

\* The search starts from the entry point at level zero.
LEMMA StartIsSearched ==
  ASSUME NEW g, Shape(g), g.entry \in g.nodes
  PROVE Searched(g, StartSearch(g))
<1> DEFINE b == StartSearch(g)
           l == [s \in StepIDs |-> IF s = g.entry THEN 0 ELSE -1]
<1>1. g.entry \in StepIDs /\ g.nodes \subseteq StepIDs
  BY ShapeFacts
<1>2. NewSearch.level = [s \in StepIDs |-> -1]
  BY DEF NewSearch
<1>3. b = [level |-> l, queue |-> <<g.entry>>, left |-> g.next[g.entry]]
  <2>1. [NewSearch.level EXCEPT ![g.entry] = 0] = l
    BY <1>1, <1>2
  <2> HIDE DEF l
  <2> QED BY <2>1 DEF StartSearch
<1>4. /\ b.level = l /\ b.left = g.next[g.entry] /\ b.queue = <<g.entry>>
      /\ b.queue \in Seq(g.nodes) /\ Len(b.queue) = 1 /\ DOMAIN b.queue = 1 .. 1 /\ b.queue # <<>>
      /\ b.queue[1] = g.entry /\ Head(b.queue) = g.entry
  <2> HIDE DEF l
  <2>1. b.level = l /\ b.left = g.next[g.entry] /\ b.queue = <<g.entry>>
    BY <1>3
  <2>2. Len(<<g.entry>>) = 1 /\ <<g.entry>>[1] = g.entry /\ <<g.entry>> \in Seq(g.nodes)
    <3>1. Len(<<g.entry>>) = 1
      OBVIOUS
    <3>2. <<g.entry>>[1] = g.entry
      OBVIOUS
    <3>3. <<g.entry>> \in Seq(g.nodes)
      <4>1. <<g.entry>> \in [1 .. 1 -> g.nodes]
        OBVIOUS
      <4>2. Seq(g.nodes) = UNION {[1 .. n -> g.nodes] : n \in Nat}
        BY SeqDef
      <4> QED BY <4>1, <4>2
    <3> QED BY <3>1, <3>2, <3>3
  <2> DEFINE q == <<g.entry>>
  <2>3. q \in Seq(g.nodes) /\ Len(q) = 1 /\ q[1] = g.entry
    BY <2>2
  <2> HIDE DEF q
  <2>4. q # <<>> /\ DOMAIN q = 1 .. 1
    <3>1. q # <<>>
      <4>1. q = <<>> => Len(q) = 0
        BY EmptySeq
      <4>2. Len(q) # 0
        BY <2>3
      <4> QED BY <4>1, <4>2
    <3>2. DOMAIN q = 1 .. Len(q)
      BY <2>3
    <3> QED BY <2>3, <3>1, <3>2
  <2>5. Head(q) = g.entry
    BY <2>3, <2>4
  <2> QED BY <2>1, <2>3, <2>4, <2>5 DEF q
<1>5. /\ g.next[g.entry] \in Seq(g.nodes) /\ ToSet(g.next[g.entry]) = Successors(g, g.entry)
  BY NextOfNode
<1>6. /\ l \in [StepIDs -> Int] /\ l[g.entry] = 0
      /\ \A s \in StepIDs : s # g.entry => l[s] = -1
  BY <1>1
<1> HIDE DEF b, l
<1>7. b \in Search(g)
  BY <1>3, <1>4, <1>5, <1>6 DEF Search
<1>8. Queued(g, b)
  BY <1>4, <1>5, <1>6, <1>7 DEF Queued
<1>9. Counted(g, b)
  <2>1. \A s \in StepIDs : l[s] = 0 \/ l[s] = -1
    BY <1>6
  <2>2. \A s \in StepIDs : l[s] # -1 => s = g.entry
    BY <1>6
  <2>3. \A s \in g.nodes : l[s] = 0 => s = g.entry
    BY <1>1, <1>6
  <2>4. \A s \in g.nodes : ~(l[s] > 0)
    BY <1>1, <2>1
  <2> QED BY <1>4, <1>6, <2>2, <2>3, <2>4 DEF Counted
<1>10. Deepened(g, b)
  <2> SUFFICES ASSUME NEW s \in g.nodes, l[s] >= 0, NEW t \in Successors(g, s)
               PROVE Pending(b, s, t)
    BY <1>4 DEF Deepened
  <2>1. s = g.entry
    BY <1>1, <1>6
  <2> QED BY <1>4, <1>5, <2>1 DEF Pending
<1> QED BY <1>8, <1>9, <1>10 DEF Searched, b

\* One step of the search.
LEMMA StepKeepsSearched ==
  ASSUME NEW g, Shape(g), Sound(g), NEW b, Searched(g, b), b.queue # <<>>
  PROVE Searched(g, SearchStep(g, b))
<1> DEFINE e == SearchStep(g, b)
           n == Len(b.queue)
           u == Head(b.queue)
<1>1. b \in Search(g)
  BY DEF Searched, Queued
<1>2. /\ b.level \in [StepIDs -> Int] /\ b.queue \in Seq(g.nodes) /\ b.left \in Seq(g.nodes)
      /\ b = [level |-> b.level, queue |-> b.queue, left |-> b.left]
      /\ n \in Nat /\ DOMAIN b.queue = 1 .. n /\ n # 0
      /\ \A i \in DOMAIN b.queue : b.queue[i] \in g.nodes
      /\ \A s \in g.nodes : s \in StepIDs /\ b.level[s] \in Int
  BY <1>1, SearchFacts
<1>3. /\ u = b.queue[1] /\ u \in g.nodes /\ b.level[u] >= 0
      /\ Tail(b.queue) \in Seq(g.nodes) /\ Len(Tail(b.queue)) = n - 1
      /\ \A i \in 1 .. n - 1 : Tail(b.queue)[i] = b.queue[i + 1]
  <2>1. 1 \in DOMAIN b.queue
    BY <1>2
  <2> QED BY <1>2, <2>1, SequenceEnds DEF Searched, Queued
<1>4. PICK r : r \in Ranks(g)
  BY DEF Sound
<1>5. \A s \in g.nodes : s \notin Successors(g, s)
  <2> SUFFICES ASSUME NEW s \in g.nodes, s \in Successors(g, s) PROVE FALSE
    OBVIOUS
  <2>1. r[s] < r[s] /\ r[s] \in 1 .. Cardinality(g.nodes)
    BY <1>4 DEF Ranks
  <2> QED BY <2>1
<1>6. ToSet(b.left) \subseteq Successors(g, u)
  BY DEF Searched, Queued
<1> HIDE DEF n, u, e
<1>7. ASSUME b.left # <<>> PROVE Searched(g, e)
  <2> DEFINE s == Head(b.left)
             l == b.level[u] + 1
  <2>1. /\ s \in g.nodes /\ Tail(b.left) \in Seq(g.nodes)
        /\ ToSet(b.left) = {s} \cup ToSet(Tail(b.left))
    BY <1>2, <1>7, SequenceEnds, SetOfSequence
  <2>2. s \in Successors(g, u) /\ s # u
    BY <1>3, <1>5, <1>6, <2>1
  <2>3. l \in Int /\ l > 0 /\ l > b.level[u]
    BY <1>2, <1>3
  <2>4. e = IF l > b.level[s]
            THEN [level |-> [b.level EXCEPT ![s] = l],
                  queue |-> Append(b.queue, s), left |-> Tail(b.left)]
            ELSE [b EXCEPT !.left = Tail(@)]
    BY <1>7 DEF SearchStep, e, u
  <2> HIDE DEF s, l
  <2>5. CASE l > b.level[s]
    <3>1. /\ e = [level |-> [b.level EXCEPT ![s] = l],
                  queue |-> Append(b.queue, s), left |-> Tail(b.left)]
          /\ e.level = [b.level EXCEPT ![s] = l]
          /\ e.queue = Append(b.queue, s) /\ e.left = Tail(b.left)
      BY <2>4, <2>5
    <3>2. /\ e.level \in [StepIDs -> Int] /\ e.level[s] = l
          /\ \A x \in StepIDs : x # s => e.level[x] = b.level[x]
      BY <1>2, <2>1, <2>3, <3>1
    <3>3. /\ e.queue \in Seq(g.nodes) /\ Len(e.queue) = n + 1 /\ DOMAIN e.queue = 1 .. n + 1
          /\ e.queue # <<>> /\ \A i \in 1 .. n : e.queue[i] = b.queue[i]
          /\ e.queue[n + 1] = s
      <4> DEFINE q == b.queue
      <4>1. q \in Seq(g.nodes)
        BY <1>2
      <4> HIDE DEF q
      <4>2. /\ Append(q, s) \in Seq(g.nodes) /\ Len(Append(q, s)) = Len(q) + 1
            /\ Append(q, s) # <<>> /\ DOMAIN Append(q, s) = 1 .. Len(q) + 1
            /\ \A i \in 1 .. Len(q) : Append(q, s)[i] = q[i]
            /\ Append(q, s)[Len(q) + 1] = s
        BY <2>1, <4>1, AppendFacts
      <4> QED BY <3>1, <4>2 DEF q, n
    <3>4. Head(e.queue) = u
      <4>1. Head(e.queue) = e.queue[1] /\ 1 \in 1 .. n
        BY <1>2, <3>3, SequenceEnds
      <4> QED BY <1>3, <3>3, <4>1
    <3>5. e \in Search(g)
      BY <2>1, <3>1, <3>2, <3>3 DEF Search
    <3>6. \A x \in StepIDs : e.level[x] >= b.level[x]
      <4> TAKE x \in StepIDs
      <4>1. b.level[x] \in Int
        BY <1>2
      <4>2. CASE x = s
        BY <2>3, <2>5, <3>2, <4>1, <4>2
      <4>3. CASE x # s
        BY <3>2, <4>1, <4>3
      <4> QED BY <4>2, <4>3
    <3>7. e.level[u] = b.level[u]
      BY <1>2, <1>3, <2>2, <3>2
    <3>8. \A i \in 1 .. n + 1 : i \in 1 .. n \/ i = n + 1
      BY <1>2
    <3>9. Queued(g, e)
      <4>1. ASSUME NEW i \in 1 .. n + 1 PROVE e.level[e.queue[i]] >= 0
        <5>1. CASE i \in 1 .. n
          <6>1. b.queue[i] \in StepIDs /\ b.level[b.queue[i]] >= 0 /\ e.queue[i] = b.queue[i]
            BY <1>2, <3>3, <5>1 DEF Searched, Queued
          <6>2. b.level[b.queue[i]] \in Int /\ e.level[b.queue[i]] \in Int
            BY <1>2, <3>2, <6>1
          <6> QED BY <3>6, <6>1, <6>2
        <5>2. CASE i = n + 1
          BY <2>3, <3>2, <3>3, <5>2
        <5> QED BY <3>8, <5>1, <5>2
      <4>2. ToSet(e.left) \subseteq Successors(g, Head(e.queue))
        BY <1>6, <2>1, <3>1, <3>4
      <4> QED BY <3>3, <3>5, <4>1, <4>2 DEF Queued
    <3>10. Counted(g, e)
      <4>1. e.level[g.entry] >= 0
        <5>1. g.entry \in g.nodes /\ b.level[g.entry] >= 0
          BY DEF Searched, Counted, Sound
        <5>2. g.entry \in StepIDs /\ b.level[g.entry] \in Int /\ e.level[g.entry] \in Int
          BY <1>2, <3>2, <5>1
        <5> QED BY <3>6, <5>1, <5>2
      <4>2. ASSUME NEW x \in StepIDs, e.level[x] # -1 PROVE e.level[x] >= 0 /\ x \in g.nodes
        <5>1. CASE x = s
          BY <2>1, <2>3, <3>2, <5>1
        <5>2. CASE x # s
          BY <3>2, <4>2, <5>2 DEF Searched, Counted
        <5> QED BY <5>1, <5>2
      <4>3. ASSUME NEW x \in g.nodes, e.level[x] = 0 PROVE x = g.entry
        <5>1. x # s
          BY <2>3, <3>2, <4>3
        <5>2. b.level[x] = 0
          BY <1>2, <3>2, <4>3, <5>1
        <5> QED BY <5>2 DEF Searched, Counted
      <4>4. ASSUME NEW t \in g.nodes, e.level[t] > 0
            PROVE \E x \in g.nodes : t \in Successors(g, x) /\ e.level[x] + 1 >= e.level[t]
        <5>1. CASE t = s
          <6>1. e.level[u] + 1 >= e.level[s]
            BY <2>3, <3>2, <3>7 DEF l
          <6> QED BY <1>3, <2>2, <5>1, <6>1
        <5>2. CASE t # s
          <6>1. e.level[t] = b.level[t] /\ b.level[t] > 0
            BY <1>2, <3>2, <4>4, <5>2
          <6>2. PICK x \in g.nodes : t \in Successors(g, x) /\ b.level[x] + 1 >= b.level[t]
            BY <6>1 DEF Searched, Counted
          <6>3. /\ e.level[x] >= b.level[x]
                /\ e.level[x] \in Int /\ b.level[x] \in Int /\ b.level[t] \in Int
            BY <1>2, <3>2, <3>6
          <6>4. e.level[x] + 1 >= e.level[t]
            BY <6>1, <6>2, <6>3
          <6> QED BY <6>2, <6>4
        <5> QED BY <5>1, <5>2
      <4> QED BY <4>1, <4>2, <4>3, <4>4 DEF Counted
    <3>11. ASSUME NEW x \in g.nodes, e.level[x] >= 0, NEW t \in Successors(g, x)
           PROVE e.level[t] > e.level[x] \/ Pending(e, x, t)
      <4>1. CASE x = s
        <5>1. n + 1 \in 1 .. n + 1 /\ n + 1 > 1
          BY <1>2
        <5> QED BY <3>3, <4>1, <5>1 DEF Pending
      <4>2. CASE x # s
        <5>1. e.level[x] = b.level[x] /\ t \in g.nodes
          BY <1>2, <3>2, <3>11, <4>2, ShapeFacts
        <5>2. b.level[t] > b.level[x] \/ Pending(b, x, t)
          BY <3>11, <5>1 DEF Searched, Deepened
        <5>3. CASE b.level[t] > b.level[x]
          <6>1. /\ e.level[t] >= b.level[t]
                /\ b.level[t] \in Int /\ e.level[t] \in Int /\ b.level[x] \in Int
            BY <1>2, <3>2, <3>6, <5>1
          <6> QED BY <5>1, <5>3, <6>1
        <5>4. CASE \E i \in DOMAIN b.queue : i > 1 /\ b.queue[i] = x
          <6>1. PICK i \in 1 .. n : i > 1 /\ b.queue[i] = x
            BY <1>2, <5>4
          <6>2. i \in 1 .. n + 1 /\ e.queue[i] = x
            BY <1>2, <3>3, <6>1
          <6> QED BY <3>3, <6>1, <6>2 DEF Pending
        <5>5. CASE x = u /\ t \in ToSet(b.left)
          <6>1. CASE t = s
            BY <2>3, <3>2, <3>7, <5>5, <6>1
          <6>2. CASE t # s
            <7>1. t \in ToSet(e.left)
              BY <2>1, <3>1, <5>5, <6>2
            <7> QED BY <3>3, <3>4, <5>5, <7>1 DEF Pending
          <6> QED BY <6>1, <6>2
        <5> QED BY <5>2, <5>3, <5>4, <5>5 DEF Pending, u
      <4> QED BY <4>1, <4>2
    <3> QED BY <3>9, <3>10, <3>11 DEF Searched, Deepened
  <2>6. CASE ~(l > b.level[s])
    <3>1. e = [b EXCEPT !.left = Tail(@)]
      BY <2>4, <2>6
    <3>2. e.level = b.level /\ e.queue = b.queue /\ e.left = Tail(b.left)
          /\ e = [level |-> b.level, queue |-> b.queue, left |-> Tail(b.left)]
      BY <1>2, <3>1
    <3>3. e \in Search(g)
      BY <1>2, <2>1, <3>2 DEF Search
    <3>4. Queued(g, e)
      BY <1>6, <2>1, <3>2, <3>3 DEF Searched, Queued, u
    <3>5. Counted(g, e)
      BY <3>2 DEF Searched, Counted
    <3>6. b.level[s] > b.level[u]
      BY <1>2, <1>3, <2>1, <2>3, <2>6
    <3>7. ASSUME NEW x \in g.nodes, b.level[x] >= 0, NEW t \in Successors(g, x)
          PROVE b.level[t] > b.level[x] \/ Pending(e, x, t)
      <4>1. b.level[t] > b.level[x] \/ Pending(b, x, t)
        BY <3>7 DEF Searched, Deepened
      <4>2. ASSUME Pending(b, x, t), ~Pending(e, x, t) PROVE x = u /\ t = s
        BY <2>1, <3>2, <4>2 DEF Pending, u
      <4> QED BY <3>6, <4>1, <4>2
    <3> QED BY <3>2, <3>4, <3>5, <3>7 DEF Searched, Deepened
  <2> QED BY <2>5, <2>6
<1>8. ASSUME b.left = <<>> PROVE Searched(g, e)
  <2> DEFINE left == IF n = 1 THEN <<>> ELSE g.next[b.queue[2]]
  <2>1. e = [b EXCEPT !.queue = Tail(@), !.left = left]
    BY <1>8 DEF SearchStep, e, n
  <2>2. left \in Seq(g.nodes) /\ (n # 1 => ToSet(left) = Successors(g, b.queue[2]))
    <3>1. CASE n = 1
      BY <3>1
    <3>2. CASE n # 1
      <4>1. b.queue[2] \in g.nodes
        BY <1>2, <3>2
      <4> QED BY <3>2, <4>1, NextOfNode
    <3> QED BY <3>1, <3>2
  <2>3. n = 1 => left = <<>>
    OBVIOUS
  <2> HIDE DEF left
  <2>4. /\ e.level = b.level /\ e.queue = Tail(b.queue) /\ e.left = left
        /\ e = [level |-> b.level, queue |-> Tail(b.queue), left |-> left]
    BY <1>2, <2>1
  <2>5. e \in Search(g)
    BY <1>2, <1>3, <2>2, <2>4 DEF Search
  <2>6. /\ Len(e.queue) = n - 1 /\ DOMAIN e.queue = 1 .. n - 1
        /\ (e.queue = <<>> <=> n = 1)
        /\ \A i \in 1 .. n - 1 : e.queue[i] = b.queue[i + 1] /\ i + 1 \in 1 .. n
    <3>1. Len(e.queue) = n - 1 /\ DOMAIN e.queue = 1 .. n - 1 /\ (e.queue = <<>> <=> Len(e.queue) = 0)
      BY <1>3, <2>4, <2>5, SearchFacts
    <3>2. n - 1 = 0 <=> n = 1
      BY <1>2
    <3> QED BY <1>2, <1>3, <2>4, <3>1, <3>2
  <2>7. n # 1 => Head(e.queue) = b.queue[2] /\ e.queue # <<>>
    <3> SUFFICES ASSUME n # 1 PROVE Head(e.queue) = b.queue[2] /\ e.queue # <<>>
      OBVIOUS
    <3>1. 1 \in 1 .. n - 1 /\ e.queue # <<>> /\ e.queue \in Seq(g.nodes)
      BY <1>2, <1>3, <2>4, <2>6
    <3>2. Head(e.queue) = e.queue[1] /\ e.queue[1] = b.queue[1 + 1]
      BY <2>6, <3>1, SequenceEnds
    <3> QED BY <3>1, <3>2
  <2>8. Queued(g, e)
    <3>1. e.queue = <<>> => e.left = <<>>
      BY <2>3, <2>4, <2>6
    <3>2. e.queue # <<>> => ToSet(e.left) \subseteq Successors(g, Head(e.queue))
      BY <2>2, <2>4, <2>6, <2>7
    <3>3. \A i \in DOMAIN e.queue : e.level[e.queue[i]] >= 0
      BY <1>2, <2>4, <2>6 DEF Searched, Queued
    <3> QED BY <2>5, <3>1, <3>2, <3>3 DEF Queued
  <2>9. Counted(g, e)
    BY <2>4 DEF Searched, Counted
  <2>10. ASSUME NEW x \in g.nodes, b.level[x] >= 0, NEW t \in Successors(g, x)
         PROVE b.level[t] > b.level[x] \/ Pending(e, x, t)
    <3>1. b.level[t] > b.level[x] \/ Pending(b, x, t)
      BY <2>10 DEF Searched, Deepened
    <3>2. ASSUME Pending(b, x, t) PROVE Pending(e, x, t)
      <4>1. ToSet(b.left) = {}
        BY <1>8, EmptySeq DEF ToSet
      <4>2. PICK i \in 1 .. n : i > 1 /\ b.queue[i] = x
        BY <1>2, <3>2, <4>1 DEF Pending
      <4>3. CASE i = 2
        <5>1. n # 1
          BY <4>2, <4>3
        <5>2. Head(e.queue) = x /\ e.queue # <<>> /\ t \in ToSet(e.left)
          BY <2>2, <2>4, <2>7, <2>10, <4>2, <4>3, <5>1
        <5> QED BY <5>2 DEF Pending
      <4>4. CASE i # 2
        <5>1. i - 1 \in 1 .. n - 1 /\ i - 1 > 1 /\ (i - 1) + 1 = i
          BY <1>2, <4>2, <4>4
        <5>2. e.queue[i - 1] = x
          BY <2>6, <4>2, <5>1
        <5> QED BY <2>6, <5>1, <5>2 DEF Pending
      <4> QED BY <4>3, <4>4
    <3> QED BY <3>1, <3>2
  <2> QED BY <2>4, <2>8, <2>9, <2>10 DEF Searched, Deepened
<1> QED BY <1>7, <1>8 DEF e

\* The search that ended found the depths, and its map is filled level by level.
LEMMA SearchEnded ==
  ASSUME NEW g, Shape(g), Sound(g), NEW b, Searched(g, b), b.queue = <<>>
  PROVE \E h \in Depths(g) : LevelSets(b.level) = ByDepth(g, h)
<1> DEFINE l == b.level
           h == [s \in g.nodes |-> l[s]]
           C == {s \in g.nodes : l[s] >= 0}
<1>1. b \in Search(g)
  BY DEF Searched, Queued
<1>2. /\ l \in [StepIDs -> Int] /\ g.nodes \subseteq StepIDs /\ g.entry \in g.nodes
      /\ DOMAIN b.queue = {} /\ b.left = <<>>
  <2>1. b.queue = <<>> => DOMAIN b.queue = {}
    BY EmptySeq
  <2> QED BY <1>1, <2>1, SearchFacts, ShapeFacts DEF Searched, Queued, Sound
<1>3. /\ l[g.entry] >= 0
      /\ \A s \in StepIDs : l[s] # -1 => l[s] >= 0 /\ s \in g.nodes
      /\ \A s \in g.nodes : l[s] = 0 => s = g.entry
      /\ \A t \in g.nodes : l[t] > 0 =>
           \E s \in g.nodes : t \in Successors(g, s) /\ l[s] + 1 >= l[t]
  BY DEF Searched, Counted
<1>4. \A s \in g.nodes : l[s] >= 0 => \A t \in Successors(g, s) : l[t] > l[s]
  BY <1>2 DEF Searched, Deepened, Pending
<1> HIDE DEF l
<1>5. C = g.nodes
  <2>1. g.entry \in C
    BY <1>2, <1>3
  <2>2. ASSUME NEW s \in C, NEW t \in Successors(g, s) PROVE t \in C
    <3>1. t \in g.nodes /\ l[t] > l[s] /\ l[s] >= 0
      BY <1>4, <2>2, ShapeFacts
    <3>2. l[t] \in Int /\ l[s] \in Int
      BY <1>2, <2>2, <3>1
    <3> QED BY <3>1, <3>2
  <2>3. Closed(g, C)
    BY <2>1, <2>2 DEF Closed
  <2> QED BY <2>3 DEF Sound, Reached
<1>6. \A s \in g.nodes : l[s] \in Nat /\ l[s] \in Int /\ s \in StepIDs
  <2> TAKE s \in g.nodes
  <2>1. s \in C
    BY <1>5
  <2> QED BY <1>2, <2>1
<1>7. l[g.entry] = 0
  <2> SUFFICES ASSUME l[g.entry] > 0 PROVE FALSE
    BY <1>2, <1>6
  <2>1. PICK p \in g.nodes : g.entry \in Successors(g, p)
    BY <1>2, <1>3
  <2> QED BY <2>1, NothingBeforeEntry
<1>8. h \in Depths(g)
  <2>1. h \in [g.nodes -> Nat] /\ h[g.entry] = 0
    BY <1>2, <1>6, <1>7
  <2>2. ASSUME NEW s \in g.nodes, NEW t \in Successors(g, s) PROVE h[t] > h[s]
    <3>1. t \in g.nodes /\ l[s] >= 0
      BY <1>6, <2>2, ShapeFacts
    <3> QED BY <1>4, <2>2, <3>1
  <2>3. ASSUME NEW t \in g.nodes \ {g.entry}
        PROVE \E s \in g.nodes : t \in Successors(g, s) /\ h[t] = h[s] + 1
    <3>1. l[t] > 0
      BY <1>3, <1>6, <2>3
    <3>2. PICK s \in g.nodes : t \in Successors(g, s) /\ l[s] + 1 >= l[t]
      BY <1>3, <2>3, <3>1
    <3>3. l[t] > l[s] /\ l[t] \in Int /\ l[s] \in Int
      BY <1>4, <1>6, <2>3, <3>2
    <3>4. l[t] = l[s] + 1
      BY <3>2, <3>3
    <3> QED BY <2>3, <3>2, <3>4
  <2> HIDE DEF h
  <2> QED BY <2>1, <2>2, <2>3 DEF Depths
<1>9. LevelSets(l) = ByDepth(g, h)
  <2> DEFINE L == {l[s] : s \in StepIDs}
             m == Deepest(g, h)
  <2>1. /\ m \in Nat /\ \A s \in g.nodes : h[s] \in 0 .. m
        /\ \A d \in 0 .. m : \E s \in g.nodes : h[s] = d
    BY <1>8, DeepestStep
  <2>2. Max(L) = m
    <3>1. L \in SUBSET Int
      BY <1>2
    <3>2. m \in L
      <4>1. m \in 0 .. m
        BY <2>1
      <4>2. PICK s \in g.nodes : h[s] = m
        BY <2>1, <4>1
      <4>3. l[s] = m /\ s \in StepIDs
        BY <1>6, <4>2
      <4> HIDE DEF m
      <4> QED BY <4>3
    <3>3. \A y \in L : y <= m
      <4> SUFFICES ASSUME NEW s \in StepIDs PROVE l[s] <= m
        BY DEF L
      <4>1. CASE s \in g.nodes
        <5>1. h[s] = l[s] /\ h[s] \in 0 .. m
          BY <2>1, <4>1
        <5> QED BY <2>1, <5>1
      <4>2. CASE s \notin g.nodes
        <5>1. l[s] = -1
          BY <1>3, <4>2
        <5> QED BY <2>1, <5>1
      <4> QED BY <4>1, <4>2
    <3> HIDE DEF L, m
    <3> QED BY <3>1, <3>2, <3>3, MaxIs
  <2>3. LevelSets(l) = [i \in 1 .. Max(L) + 1 |-> {s \in StepIDs : l[s] = i - 1}]
    BY DEF LevelSets
  <2>4. ByDepth(g, h) = [i \in 1 .. m + 1 |-> {s \in g.nodes : h[s] = i - 1}]
    BY DEF ByDepth
  <2> HIDE DEF L, m
  <2>5. ASSUME NEW i \in 1 .. m + 1
        PROVE {s \in StepIDs : l[s] = i - 1} = {s \in g.nodes : h[s] = i - 1}
    <3>1. \A s \in StepIDs : l[s] = i - 1 => s \in g.nodes
      <4>1. i - 1 # -1
        BY <2>1
      <4> QED BY <1>3, <4>1
    <3>2. \A s \in g.nodes : h[s] = l[s] /\ s \in StepIDs
      BY <1>6
    <3> HIDE DEF h
    <3> QED BY <3>1, <3>2
  <2> HIDE DEF h
  <2> QED BY <2>2, <2>3, <2>4, <2>5
<1> HIDE DEF h
<1> QED BY <1>8, <1>9 DEF l
===============================================================================
