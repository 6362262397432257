------------------------------ MODULE DagProofs ------------------------------
(***************************************************************************)
(* For every graph: the two edge maps agree, and the reduction keeps its   *)
(* promise, whatever the order of the maps: it removes edges only, between *)
(* vertices only, never the last dependency of a vertex, and every edge    *)
(* beside which there is a longer path.                                    *)
(***************************************************************************)
EXTENDS Dag, TLAPS, SequenceTheorems, WellFoundedInduction

\* A bounded set of naturals has a maximum.
LEMMA MaxOfBounded ==
  ASSUME NEW S \in SUBSET Nat, S # {}, NEW N \in Nat, \A i \in S : i <= N
  PROVE  Max(S) \in S /\ \A i \in S : Max(S) >= i
<1> DEFINE T == {N - i : i \in S}
<1>1. T \subseteq Nat /\ T # {}
  <2>1. \A i \in S : N - i \in Nat
    OBVIOUS
  <2>2. PICK i \in S : TRUE
    OBVIOUS
  <2>3. N - i \in T
    OBVIOUS
  <2> QED
    BY <2>1, <2>3
<1>2. PICK m \in T : \A y \in T : ~(<<y, m>> \in OpToRel(<, Nat))
  BY <1>1, NatLessThanWellFounded, WFMin
<1>3. \A y \in T : ~(y < m)
  BY <1>1, <1>2 DEF OpToRel
<1>4. PICK k \in S : m = N - k
  BY <1>2
<1>5. \A i \in S : k >= i
  BY <1>3, <1>4
<1> QED
  BY <1>5 DEF Max

-----------------------------------------------------------------------------
Frame == [todo : SUBSET vertices, depth : Nat]

Types ==
    /\ vertices \subseteq Vertex
    /\ downEdges \in [Vertex -> SUBSET vertices] /\ upEdges \in [Vertex -> SUBSET Vertex]
    /\ depth \in [Vertex -> Nat]
    /\ left \subseteq vertices /\ root \subseteq vertices
    /\ stack \in Seq(Frame)
    /\ orig \in [Vertex -> SUBSET Vertex]

\* While the parser builds, no walk has begun.
Building == mode = "build" => stack = <<>> /\ left = {} /\ root = {}

\* Depths are bounded, and only vertices have one.
Depths ==
    /\ \E N \in Nat : \A v \in Vertex : depth[v] <= N
    /\ \A v \in Vertex : depth[v] # 0 => v \in vertices

\* What the reduction has removed so far: no edge from a name that is no
\* vertex, and never the last dependency.
Reduced ==
    mode # "build" =>
        /\ \A u \in Vertex : downEdges[u] \subseteq orig[u]
        /\ \A u \in Vertex \ vertices : downEdges[u] = orig[u]
        /\ \A v \in Vertex : (\E u \in vertices : v \in orig[u]) =>
                             (\E u \in vertices : v \in downEdges[u])

IInv == Types /\ Building /\ Depths /\ Reduced /\ EdgesAgree

LEMMA InitIInv == Init => IInv
<1> SUFFICES ASSUME Init PROVE IInv
  OBVIOUS
<1>1. <<>> \in Seq(Frame)
  OBVIOUS
<1>2. Types /\ Building /\ Reduced /\ EdgesAgree
  BY <1>1 DEF Init, Types, Building, Reduced, EdgesAgree
<1>3. 0 \in Nat /\ \A v \in Vertex : depth[v] <= 0
  BY DEF Init
<1>4. Depths
  BY <1>3 DEF Init, Depths
<1> QED
  BY <1>2, <1>4 DEF IInv

\* The vertices v is cut off from leave it one that has a depth.
LEMMA DroppedKeepsBest ==
  ASSUME IInv, NEW v \in Vertex, NEW u \in Dropped(v)
  PROVE  \E best \in upEdges[v] \ Dropped(v) : depth[best] # 0
<1> DEFINE S == {0} \cup {depth[w] : w \in upEdges[v]}
<1>1. PICK N \in Nat : \A w \in Vertex : depth[w] <= N
  BY DEF IInv, Depths
<1>2. S \in SUBSET Nat /\ S # {} /\ \A i \in S : i <= N
  BY <1>1 DEF IInv, Types
<1>3. Max(S) \in S /\ \A i \in S : Max(S) >= i
  BY <1>1, <1>2, MaxOfBounded
<1>4. BestDepth(v) = Max(S)
  BY DEF BestDepth
<1>5. depth[u] \in S /\ depth[u] # 0 /\ depth[u] \in Nat
  BY DEF Dropped, IInv, Types
<1>6. Max(S) # 0
  BY <1>2, <1>3, <1>5
<1>7. PICK best \in upEdges[v] : depth[best] = Max(S)
  BY <1>3, <1>6
<1>8. best \notin Dropped(v)
  BY <1>4, <1>7 DEF Dropped
<1> QED
  BY <1>6, <1>7, <1>8

LEMMA BuildSteps ==
  ASSUME IInv, \/ \E v \in Vertex : AddVertex(v)
               \/ \E e \in Edge : Connect(e[1], e[2])
               \/ TransitiveReduction
  PROVE  IInv'
<1> USE DEF graph
<1>1. ASSUME NEW v \in Vertex, AddVertex(v) PROVE IInv'
  <2>1. stack' = <<>> /\ stack' \in Seq(Frame)' /\ mode' = "build" /\ mode = "build"
    BY <1>1 DEF AddVertex, IInv, Building
  <2>2. Types' /\ Building' /\ Reduced' /\ EdgesAgree'
    BY <1>1, <2>1 DEF AddVertex, IInv, Types, Building, Reduced, EdgesAgree
  <2>3. Depths'
    BY <1>1 DEF AddVertex, IInv, Depths
  <2> QED
    BY <2>2, <2>3 DEF IInv
<1>2. ASSUME NEW u \in Vertex, NEW v \in Vertex, Connect(u, v) PROVE IInv'
  <2>1. stack' = stack /\ Frame' = Frame
    BY <1>2 DEF Connect, Frame
  <2>2. Types' /\ Building' /\ Reduced' /\ EdgesAgree'
    BY <1>2, <2>1 DEF Connect, IInv, Types, Building, Reduced, EdgesAgree
  <2>3. Depths'
    BY <1>2 DEF Connect, IInv, Depths
  <2> QED
    BY <2>2, <2>3 DEF IInv
<1>3. CASE TransitiveReduction
  <2>1. stack' = stack /\ Frame' = Frame
    BY <1>3 DEF TransitiveReduction, Frame
  <2>2. Types' /\ Building' /\ Reduced' /\ EdgesAgree'
    BY <1>3, <2>1 DEF TransitiveReduction, IInv, Types, Building, Reduced, EdgesAgree
  <2>3. Depths'
    BY <1>3 DEF TransitiveReduction, IInv, Depths
  <2> QED
    BY <2>2, <2>3 DEF IInv
<1> QED
  BY <1>1, <1>2, <1>3, EdgeAssumption

\* The steps of the walks that leave graph and depths alone, and Pick.
LEMMA LoopSteps ==
  ASSUME IInv, Return \/ WalkAgain \/ WalkOver \/ UNCHANGED vars \/ \E v \in Vertex : Pick(v)
  PROVE  IInv'
<1> USE DEF graph, vars
<1>1. /\ UNCHANGED <<vertices, downEdges, upEdges, orig>> /\ Frame' = Frame
      /\ mode' = "build" <=> mode = "build"
  BY DEF Return, WalkAgain, WalkOver, Pick, Frame, IInv
<1>2. stack' \in Seq(Frame) /\ left' \subseteq vertices /\ root' \subseteq vertices
  <2>1. CASE Return
    BY <2>1, HeadTailProperties DEF Return, IInv, Types
  <2>2. CASE WalkAgain
    <3>1. [todo |-> root, depth |-> 1] \in Frame
      BY DEF Frame, IInv, Types
    <3> QED
      BY <2>2, <3>1 DEF WalkAgain, IInv, Types
  <2>3. ASSUME NEW v \in Vertex, Pick(v)
        PROVE  stack' \in Seq(Frame) /\ left' \subseteq vertices /\ root' \subseteq vertices
    <3>1. [todo |-> {v}, depth |-> 1] \in Frame
      BY <2>3 DEF Pick, Frame, IInv, Types
    <3> QED
      BY <2>3, <3>1 DEF Pick, IInv, Types
  <2>4. CASE WalkOver \/ UNCHANGED vars
    BY <2>4 DEF WalkOver, IInv, Types
  <2> QED
    BY <2>1, <2>2, <2>3, <2>4
<1>3. depth' = depth \/ depth' = [v \in Vertex |-> 0]
  BY DEF Return, WalkAgain, WalkOver, Pick
<1>4. Depths'
  <2>1. CASE depth' = depth
    BY <1>1, <2>1 DEF IInv, Depths
  <2>2. CASE depth' = [v \in Vertex |-> 0]
    <3>1. 0 \in Nat /\ \A v \in Vertex : depth'[v] <= 0 /\ depth'[v] = 0
      BY <2>2
    <3> QED
      BY <3>1 DEF Depths
  <2> QED
    BY <1>3, <2>1, <2>2
<1>5. Types'
  BY <1>1, <1>2, <1>3 DEF IInv, Types
<1>6. Building'
  BY DEF Return, WalkAgain, WalkOver, Pick, IInv, Building
<1> QED
  BY <1>1, <1>4, <1>5, <1>6 DEF IInv, Reduced, EdgesAgree

\* trwalk at v: what Entry does to the graph ...
LEMMA EntryStep ==
  ASSUME IInv, NEW v \in vertices, NEW d \in Nat, Entry(v, d), mode # "build",
         UNCHANGED <<mode, orig>>
  PROVE  /\ vertices' = vertices
         /\ downEdges' \in [Vertex -> SUBSET vertices] /\ upEdges' \in [Vertex -> SUBSET Vertex]
         /\ depth' \in [Vertex -> Nat]
         /\ Depths' /\ Reduced' /\ EdgesAgree'
<1>1. v \in Vertex
  BY DEF IInv, Types
<1>2. CASE mode = "depth"
  <2>1. depth' = [depth EXCEPT ![v] = d] /\ UNCHANGED graph
    BY <1>2 DEF Entry
  <2>2. PICK N \in Nat : \A w \in Vertex : depth[w] <= N
    BY DEF IInv, Depths
  <2>3. PICK M \in Nat : M >= N /\ M >= d
    OBVIOUS
  <2>4. \A w \in Vertex : depth[w] \in Nat /\ depth'[w] <= M
    BY <1>1, <2>1, <2>2, <2>3 DEF IInv, Types
  <2>5. Depths'
    BY <1>1, <2>1, <2>4 DEF IInv, Types, Depths, graph
  <2> QED
    BY <1>1, <2>1, <2>5 DEF IInv, Types, Reduced, EdgesAgree, graph
<1>3. CASE mode # "depth"
  <2>1. /\ downEdges' = [u \in Vertex |-> IF u \in Dropped(v) THEN downEdges[u] \ {v}
                                          ELSE downEdges[u]]
        /\ upEdges' = [upEdges EXCEPT ![v] = @ \ Dropped(v)]
        /\ UNCHANGED <<vertices, depth>>
    BY <1>3 DEF Entry, Disconnect
  <2>2. /\ downEdges' \in [Vertex -> SUBSET vertices] /\ upEdges' \in [Vertex -> SUBSET Vertex]
        /\ depth' \in [Vertex -> Nat] /\ Depths'
    BY <1>1, <2>1 DEF IInv, Types, Depths
  <2>3. EdgesAgree'
    BY <1>1, <2>1 DEF IInv, Types, EdgesAgree
  <2>4. Dropped(v) \subseteq vertices
    BY DEF Dropped, IInv, Types, Depths
  <2>5. \A u \in Vertex : downEdges'[u] \subseteq orig'[u]
    BY <2>1 DEF IInv, Types, Reduced
  <2>6. \A u \in Vertex \ vertices' : downEdges'[u] = orig'[u]
    BY <2>1, <2>4 DEF IInv, Types, Reduced
  <2>7. ASSUME NEW w \in Vertex, \E u \in vertices' : w \in orig'[u]
        PROVE  \E u \in vertices' : w \in downEdges'[u]
    <3>1. PICK u \in vertices : w \in downEdges[u]
      BY <2>1, <2>7 DEF IInv, Types, Reduced
    <3>2. u \in Vertex
      BY DEF IInv, Types
    <3>3. CASE w \in downEdges'[u]
      BY <2>1, <3>3
    <3>4. CASE w \notin downEdges'[u]
      <4>1. w = v /\ u \in Dropped(v)
        BY <2>1, <3>1, <3>2, <3>4
      <4>2. PICK best \in upEdges[v] \ Dropped(v) : depth[best] # 0
        BY <1>1, <4>1, DroppedKeepsBest
      <4>3. best \in vertices /\ best \in Vertex /\ v \in downEdges[best]
        BY <1>1, <4>2 DEF IInv, Types, Depths, EdgesAgree
      <4> QED
        BY <2>1, <4>1, <4>2, <4>3
    <3> QED
      BY <3>3, <3>4
  <2> QED
    BY <2>1, <2>2, <2>3, <2>5, <2>6, <2>7 DEF Reduced
<1> QED
  BY <1>2, <1>3

\* ... and to the call stack.
LEMMA WalkStep ==
  ASSUME IInv, NEW v \in Vertex, Walk(v)
  PROVE  IInv'
<1> DEFINE top == Head(stack)
           d1 == [todo |-> downEdges'[v], depth |-> top.depth + 1]
           d2 == [top EXCEPT !.todo = @ \ {v}]
<1>1. top \in Frame /\ Tail(stack) \in Seq(Frame)
  BY HeadTailProperties DEF Walk, IInv, Types
<1>2. v \in vertices /\ top.depth \in Nat
  BY <1>1 DEF Walk, Frame
<1>3. /\ vertices' = vertices
      /\ downEdges' \in [Vertex -> SUBSET vertices] /\ upEdges' \in [Vertex -> SUBSET Vertex]
      /\ depth' \in [Vertex -> Nat]
      /\ Depths' /\ Reduced' /\ EdgesAgree'
  BY <1>2, EntryStep DEF Walk
<1>4. d1 \in Frame /\ d2 \in Frame
  BY <1>1, <1>2, <1>3 DEF Frame
<1>5. stack' = <<d1, d2>> \o Tail(stack)
  BY DEF Walk
<1>6. stack' \in Seq(Frame)
  <2> HIDE DEF d1, d2
  <2>1. <<d1, d2>> \in Seq(Frame)
    BY <1>4
  <2> QED
    BY <1>1, <1>5, <2>1, ConcatProperties
<1>7. Frame' = Frame
  BY <1>3 DEF Frame
<1>8. Types'
  BY <1>3, <1>6, <1>7 DEF Walk, IInv, Types
<1>9. Building'
  BY DEF Walk, Building
<1> QED
  BY <1>3, <1>8, <1>9 DEF IInv

LEMMA StepIInv == IInv /\ [Next]_vars => IInv'
BY BuildSteps, LoopSteps, WalkStep DEF Next, Step

-----------------------------------------------------------------------------
(* The edge maps agree after every step of building and of the reduction   *)
(* (dag.go, Connect and Disconnect).                                       *)
THEOREM MapsAgree == Spec => []EdgesAgree
<1>1. IInv => EdgesAgree
  BY DEF IInv
<1> QED
  BY InitIInv, StepIInv, <1>1, PTL DEF Spec

-----------------------------------------------------------------------------
(* Paths.                                                                  *)
LEMMA PathEdge ==
  ASSUME NEW E, NEW e \in E
  PROVE  Path(E, e[1], e[2])
BY DEF Path

LEMMA PathExtend ==
  ASSUME NEW E, NEW u, NEW e \in E, Path(E, u, e[1])
  PROVE  Path(E, u, e[2])
BY DEF Path, Closed

LEMMA PathFewer ==
  ASSUME NEW E, NEW F \in SUBSET E, NEW u, NEW v, Path(F, u, v)
  PROVE  Path(E, u, v)
<1> SUFFICES ASSUME NEW S \in SUBSET Ends(E), \A e \in E : e[1] = u => e[2] \in S, Closed(E, S)
             PROVE  v \in S
  BY DEF Path
<1> DEFINE T == S \cap Ends(F)
<1>1. T \in SUBSET Ends(F) /\ Closed(F, T) /\ \A e \in F : e[1] = u => e[2] \in T
  BY DEF Closed, Ends
<1> QED
  BY <1>1 DEF Path

LEMMA PathFirst ==
  ASSUME NEW E, NEW u, NEW v, Path(E, u, v)
  PROVE  \E e \in E : e[1] = u /\ (e[2] = v \/ Path(E, e[2], v))
<1> DEFINE S == {y \in Ends(E) : \E e \in E : e[1] = u /\ (e[2] = y \/ Path(E, e[2], y))}
<1>1. \A e \in E : e[1] = u => e[2] \in S
  BY DEF Ends
<1>2. Closed(E, S)
  <2> SUFFICES ASSUME NEW f \in E, f[1] \in S PROVE f[2] \in S
    BY DEF Closed
  <2>1. PICK e \in E : e[1] = u /\ (e[2] = f[1] \/ Path(E, e[2], f[1]))
    OBVIOUS
  <2>2. Path(E, e[2], f[2])
    BY <2>1, PathEdge, PathExtend
  <2> QED
    BY <2>1, <2>2 DEF Ends
<1>3. v \in S
  BY <1>1, <1>2 DEF Path
<1> QED
  BY <1>3

\* From y one comes to a cycle.
Looping(E, y) == \E z \in Ends(E) \cup {y} : (z = y \/ Path(E, y, z)) /\ Path(E, z, z)

LEMMA LoopingNext ==
  ASSUME NEW E, NEW y, Looping(E, y)
  PROVE  \E e \in E : e[1] = y /\ Looping(E, e[2])
<1>1. PICK z \in Ends(E) \cup {y} : (z = y \/ Path(E, y, z)) /\ Path(E, z, z)
  BY DEF Looping
<1>2. PICK e \in E : e[1] = y /\ (e[2] = z \/ Path(E, e[2], z))
  BY <1>1, PathFirst
<1>3. z \in Ends(E)
  BY <1>1, PathFirst DEF Ends
<1> QED
  BY <1>1, <1>2, <1>3 DEF Looping

-----------------------------------------------------------------------------
(* No redundant edge: the reduction from u cuts u off from the vertices it *)
(* reaches by a longer path, which ends in a vertex deeper than u.         *)
Edges == EdgesOf(downEdges)

Frames == {stack[i] : i \in DOMAIN stack}
Pending == UNION {f.todo : f \in Frames}

\* The walks start from one vertex, when there is one.
RootShape ==
    /\ mode \in {"build", "pick", "done"} => root = {}
    /\ mode = "done" => left = {}
    /\ \A x, y \in root : x = y

\* The first walk: what is pending or has a depth is below the root, deeper
\* than it, and what is below something that has a depth has one or is pending;
\* if it comes to a cycle it never ends.
DepthWalk(u) ==
    /\ \A f \in Frames : \A y \in f.todo :
          \/ f.depth = 1 /\ y = u
          \/ f.depth >= 2 /\ Path(Edges, u, y)
    /\ \A x \in Vertex : depth[x] # 0 =>
          /\ x = u \/ (depth[x] >= 2 /\ Path(Edges, u, x))
          /\ x = u /\ ~Path(Edges, u, u) => depth[x] = 1
          /\ \A y \in downEdges[x] : depth[y] # 0 \/ y \in Pending
    /\ depth[u] # 0 \/ u \in Pending
    /\ Looping(Edges, u) => \E y \in Pending : Looping(Edges, y)

\* Only u is above v, of the vertices that have a depth.
Settled(u, v) == \A w \in upEdges[v] : depth[w] # 0 => w = u

\* The second walk: the depths are all there, and what is below the root is
\* settled or pending.
ReduceWalk(u) ==
    /\ depth[u] = 1
    /\ \A x \in Vertex : depth[x] # 0 =>
          /\ x = u \/ depth[x] >= 2
          /\ \A y \in downEdges[x] : depth[y] # 0
    /\ \A v \in downEdges[u] : Settled(u, v) \/ v \in Pending \/ u \in Pending

\* The vertices the loop is done with have no redundant edge.
NoRedundantEdge ==
    mode # "build" =>
        \A u \in vertices \ (left \cup root) : \A v \in downEdges[u] : ~Path(Edges \ {<<u, v>>}, u, v)

RInv ==
    /\ RootShape /\ NoRedundantEdge
    /\ mode = "depth" => \A u \in root : DepthWalk(u)
    /\ mode = "reduce" => \A u \in root : ReduceWalk(u)

LEMMA EdgesAre ==
  ASSUME IInv
  PROVE  /\ \A x \in Vertex : \A y \in downEdges[x] : <<x, y>> \in Edges
         /\ \A e \in Edges : e = <<e[1], e[2]>> /\ e[1] \in Vertex /\ e[2] \in downEdges[e[1]]
BY DEF Edges, EdgesOf, IInv, Types

LEMMA InitRInv == Init => RInv
BY DEF Init, RInv, RootShape, NoRedundantEdge

\* Edges are only removed once the reduction has begun.
LEMMA EdgesFewer ==
  ASSUME IInv, IInv', \A x \in Vertex : downEdges'[x] \subseteq downEdges[x]
  PROVE  Edges' \subseteq Edges
<1>1. downEdges' \in [Vertex -> SUBSET vertices']
  BY DEF IInv, Types
<1>2. ASSUME NEW e \in Edges' PROVE e \in Edges
  <2>1. PICK x \in Vertex : \E y \in downEdges'[x] : e = <<x, y>>
    BY <1>1, <1>2 DEF Edges, EdgesOf
  <2> QED
    BY <2>1, EdgesAre
<1> QED
  BY <1>2

LEMMA NoRedundantKept ==
  ASSUME IInv, IInv', NoRedundantEdge, mode # "build",
         \A x \in Vertex : downEdges'[x] \subseteq downEdges[x],
         vertices' \ (left' \cup root') \subseteq vertices \ (left \cup root)
  PROVE  NoRedundantEdge'
<1> SUFFICES ASSUME NEW u \in vertices' \ (left' \cup root'), NEW v \in downEdges'[u],
                    Path(Edges' \ {<<u, v>>}, u, v)
             PROVE  FALSE
  BY DEF NoRedundantEdge
<1>1. Edges' \ {<<u, v>>} \subseteq Edges \ {<<u, v>>}
  BY EdgesFewer
<1>2. Path(Edges \ {<<u, v>>}, u, v)
  BY <1>1, PathFewer
<1>3. u \in vertices \ (left \cup root) /\ u \in Vertex /\ v \in downEdges[u]
  BY DEF IInv, Types
<1> QED
  BY <1>2, <1>3 DEF NoRedundantEdge

\* The call stack: a call takes one vertex of the top frame and pushes what
\* is below it, a return pops a frame with nothing left.
Pushed(v) == [todo |-> downEdges'[v], depth |-> Head(stack).depth + 1]
Rest(v) == [Head(stack) EXCEPT !.todo = @ \ {v}]

LEMMA WalkFrames ==
  ASSUME IInv, NEW v \in Vertex, Walk(v)
  PROVE  /\ Head(stack) \in Frames /\ Head(stack).depth \in Nat /\ v \in Head(stack).todo
         /\ Frames' \subseteq {Pushed(v), Rest(v)} \cup Frames
         /\ {Pushed(v), Rest(v)} \cup (Frames \ {Head(stack)}) \subseteq Frames'
         /\ Rest(v).todo = Head(stack).todo \ {v} /\ Rest(v).depth = Head(stack).depth
<1>1. stack \in Seq(Frame) /\ stack # <<>> /\ v \in Head(stack).todo
  BY DEF IInv, Types, Walk
<1>2. /\ Head(stack) = stack[1] /\ Head(stack) \in Frame /\ Tail(stack) \in Seq(Frame)
      /\ Len(stack) \in Nat \ {0} /\ DOMAIN stack = 1 .. Len(stack)
      /\ Len(Tail(stack)) = Len(stack) - 1
      /\ \A i \in 1 .. Len(stack) - 1 : Tail(stack)[i] = stack[i + 1]
  BY <1>1, HeadTailProperties
<1>3. Rest(v).todo = Head(stack).todo \ {v} /\ Rest(v).depth = Head(stack).depth
  BY <1>2 DEF Rest, Frame
<1>4. stack' = <<Pushed(v), Rest(v)>> \o Tail(stack)
  BY DEF Walk, Pushed, Rest
<1> HIDE DEF Pushed, Rest
<1>5. /\ DOMAIN stack' = 1 .. Len(stack) + 1
      /\ stack'[1] = Pushed(v) /\ stack'[2] = Rest(v)
      /\ \A i \in 3 .. Len(stack) + 1 : stack'[i] = stack[i - 1]
  BY <1>2, <1>4
<1>6. Head(stack) \in Frames /\ Head(stack).depth \in Nat
  BY <1>2 DEF Frames, Frame
<1>7. Frames' \subseteq {Pushed(v), Rest(v)} \cup Frames
  <2> SUFFICES ASSUME NEW i \in 1 .. Len(stack) + 1
               PROVE  stack'[i] \in {Pushed(v), Rest(v)} \cup Frames
    BY <1>5 DEF Frames
  <2>1. CASE i \in {1, 2}
    BY <1>5, <2>1
  <2>2. CASE i \notin {1, 2}
    <3>1. i \in 3 .. Len(stack) + 1 /\ i - 1 \in DOMAIN stack
      BY <1>2, <2>2
    <3> QED
      BY <1>5, <3>1 DEF Frames
  <2> QED
    BY <2>1, <2>2
<1>8. {Pushed(v), Rest(v)} \subseteq Frames'
  <2>1. 1 \in DOMAIN stack' /\ 2 \in DOMAIN stack'
    BY <1>2, <1>5
  <2> QED
    BY <1>5, <2>1 DEF Frames
<1>9. Frames \ {Head(stack)} \subseteq Frames'
  <2> SUFFICES ASSUME NEW i \in 1 .. Len(stack), stack[i] # stack[1] PROVE stack[i] \in Frames'
    BY <1>2 DEF Frames
  <2>1. i + 1 \in 3 .. Len(stack) + 1 /\ i + 1 \in DOMAIN stack' /\ (i + 1) - 1 = i
    BY <1>2, <1>5
  <2>2. stack'[i + 1] = stack[i]
    BY <1>5, <2>1
  <2> QED
    BY <2>1, <2>2 DEF Frames
<1> QED
  BY <1>1, <1>3, <1>6, <1>7, <1>8, <1>9

LEMMA WalkPending ==
  ASSUME IInv, NEW v \in Vertex, Walk(v)
  PROVE  downEdges'[v] \cup (Pending \ {v}) \subseteq Pending'
<1>1. Pushed(v).todo = downEdges'[v]
  BY DEF Pushed
<1>2. ASSUME NEW f \in Frames PROVE f.todo \ {v} \subseteq Pending'
  BY WalkFrames DEF Pending
<1> QED
  BY <1>1, <1>2, WalkFrames DEF Pending

LEMMA ReturnFrames ==
  ASSUME IInv, Return
  PROVE  Frames' \subseteq Frames /\ Pending' = Pending
<1>1. stack \in Seq(Frame) /\ stack # <<>> /\ Head(stack).todo = {} /\ stack' = Tail(stack)
  BY DEF IInv, Types, Return
<1>2. /\ Head(stack) = stack[1] /\ Len(stack) \in Nat \ {0} /\ DOMAIN stack = 1 .. Len(stack)
      /\ DOMAIN stack' = 1 .. Len(stack) - 1
      /\ \A i \in 1 .. Len(stack) - 1 : stack'[i] = stack[i + 1]
  BY <1>1, HeadTailProperties
<1>3. Frames' \subseteq Frames
  BY <1>2 DEF Frames
<1>4. ASSUME NEW i \in 1 .. Len(stack), i # 1
      PROVE  i - 1 \in DOMAIN stack' /\ stack'[i - 1] = stack[i]
  <2>1. i - 1 \in 1 .. Len(stack) - 1 /\ (i - 1) + 1 = i
    BY <1>2, <1>4
  <2> QED
    BY <1>2, <2>1
<1>5. ASSUME NEW f \in Frames, f.todo # {} PROVE f \in Frames'
  <2>1. PICK i \in 1 .. Len(stack) : f = stack[i]
    BY <1>2 DEF Frames
  <2>2. i # 1
    BY <1>1, <1>2, <1>5, <2>1
  <2> QED
    BY <1>4, <2>1, <2>2 DEF Frames
<1> QED
  BY <1>3, <1>5 DEF Pending

\* The steps that start or leave the loop, one at a time.
LEMMA BuildRInv ==
  ASSUME IInv, RInv, \/ \E v \in Vertex : AddVertex(v)
                     \/ \E e \in Edge : Connect(e[1], e[2])
                     \/ TransitiveReduction
  PROVE  RInv'
<1>1. root = {} /\ root' = {}
  BY DEF IInv, Building, AddVertex, Connect, TransitiveReduction
<1>2. mode' = "build" \/ (mode' \in {"pick", "done"} /\ vertices' \subseteq left')
  BY DEF AddVertex, Connect, TransitiveReduction, graph
<1>3. mode' = "done" => left' = {}
  BY DEF AddVertex, Connect, TransitiveReduction
<1> QED
  BY <1>1, <1>2, <1>3 DEF RInv, RootShape, NoRedundantEdge

LEMMA PickRInv ==
  ASSUME IInv, IInv', RInv, NEW v \in Vertex, Pick(v)
  PROVE  RInv'
<1> DEFINE frame == [todo |-> {v}, depth |-> 1]
<1>1. /\ root = {} /\ root' = {v} /\ mode' = "depth" /\ left' = left \ {v}
      /\ UNCHANGED <<vertices, downEdges>>
  BY DEF Pick, graph, RInv, RootShape
<1>2. NoRedundantEdge'
  BY <1>1, NoRedundantKept DEF RInv, Pick
<1>3. Frames' = {frame} /\ Pending' = {v}
  BY DEF Pick, Frames, Pending
<1>4. DepthWalk(v)'
  <2>1. \A x \in Vertex : depth'[x] = 0
    BY DEF Pick
  <2>2. \A f \in Frames' : \A y \in f.todo : f.depth = 1 /\ y = v
    BY <1>3
  <2>3. Looping(Edges, v)' => \E y \in Pending' : Looping(Edges, y)'
    BY <1>3
  <2> QED
    BY <1>3, <2>1, <2>2, <2>3 DEF DepthWalk
<1> QED
  BY <1>1, <1>2, <1>4 DEF RInv, RootShape

LEMMA WalkAgainRInv ==
  ASSUME IInv, IInv', RInv, WalkAgain
  PROVE  RInv'
<1>1. /\ mode = "depth" /\ mode' = "reduce" /\ stack = <<>>
      /\ UNCHANGED <<vertices, downEdges, upEdges, depth, left, root>>
  BY DEF WalkAgain, graph
<1>2. NoRedundantEdge'
  BY <1>1, NoRedundantKept DEF RInv
<1>3. Pending = {}
  BY <1>1 DEF Pending, Frames
<1>4. Pending' = root
  BY DEF WalkAgain, Pending, Frames
<1>5. ASSUME NEW u \in root PROVE ReduceWalk(u)'
  <2>1. DepthWalk(u) /\ u \in Vertex
    BY <1>1 DEF RInv, IInv, Types
  <2>2. ~Looping(Edges, u)
    BY <1>3, <2>1 DEF DepthWalk
  <2>3. ~Path(Edges, u, u)
    BY <2>2 DEF Looping
  <2>4. depth[u] = 1
    BY <1>3, <2>1, <2>3 DEF DepthWalk
  <2>5. \A x \in Vertex : depth[x] # 0 =>
          (x = u \/ depth[x] >= 2) /\ \A y \in downEdges[x] : depth[y] # 0
    BY <1>3, <2>1 DEF DepthWalk
  <2> QED
    BY <1>1, <1>4, <2>4, <2>5 DEF ReduceWalk
<1> QED
  BY <1>1, <1>2, <1>5 DEF RInv, RootShape

\* The second walk from u is over: nothing below u is reached by another path.
LEMMA RootReduced ==
  ASSUME IInv, NEW u \in vertices, ReduceWalk(u), Pending = {}, NEW v \in downEdges[u]
  PROVE  ~Path(Edges \ {<<u, v>>}, u, v)
<1> DEFINE F == Edges \ {<<u, v>>}
           S == {x \in Ends(F) : depth[x] # 0 /\ x # v}
<1>1. Settled(u, v) /\ depth[u] = 1 /\ u \in Vertex
  BY DEF ReduceWalk, IInv, Types
<1>2. ASSUME NEW e \in F, depth[e[1]] # 0 PROVE e[2] \in S
  <2>1. e = <<e[1], e[2]>> /\ e[1] \in Vertex /\ e[2] \in downEdges[e[1]] /\ e[2] \in Vertex
    BY EdgesAre DEF IInv, Types
  <2>2. depth[e[2]] # 0
    BY <1>2, <2>1 DEF ReduceWalk
  <2>3. CASE e[2] = v
    <3>1. e[1] \in upEdges[v]
      BY <2>1, <2>3 DEF IInv, EdgesAgree
    <3>2. e[1] = u
      BY <1>1, <1>2, <3>1 DEF Settled
    <3> QED
      BY <2>1, <2>3, <3>2
  <2> QED
    BY <2>2, <2>3 DEF Ends
<1>3. \A x \in S : depth[x] # 0
  OBVIOUS
<1>4. S \in SUBSET Ends(F) /\ v \notin S
  OBVIOUS
<1> HIDE DEF F, S
<1>5. Closed(F, S) /\ \A e \in F : e[1] = u => e[2] \in S
  BY <1>1, <1>2, <1>3 DEF Closed
<1>6. ~Path(F, u, v)
  BY <1>4, <1>5 DEF Path
<1> QED
  BY <1>6 DEF F

LEMMA WalkOverRInv ==
  ASSUME IInv, IInv', RInv, WalkOver
  PROVE  RInv'
<1>1. /\ mode = "reduce" /\ mode' \in {"pick", "done"} /\ (mode' = "done" => left = {})
      /\ root' = {} /\ stack = <<>> /\ UNCHANGED <<vertices, downEdges, left>>
  BY DEF WalkOver, graph
<1>2. Pending = {}
  BY <1>1 DEF Pending, Frames
<1>3. Edges' = Edges
  BY <1>1 DEF Edges
<1>4. ASSUME NEW u \in vertices \ left, NEW v \in downEdges[u]
      PROVE  ~Path(Edges \ {<<u, v>>}, u, v)
  <2>1. CASE u \in root
    BY <1>1, <1>2, <2>1, RootReduced DEF RInv
  <2>2. CASE u \notin root
    BY <1>1, <2>2 DEF RInv, NoRedundantEdge
  <2> QED
    BY <2>1, <2>2
<1>5. NoRedundantEdge'
  BY <1>1, <1>3, <1>4 DEF NoRedundantEdge
<1> QED
  BY <1>1, <1>5 DEF RInv, RootShape

\* A return, and no step at all.
LEMMA ReturnRInv ==
  ASSUME IInv, RInv, Return \/ UNCHANGED vars
  PROVE  RInv'
<1>1. UNCHANGED <<vertices, downEdges, upEdges, depth, mode, left, root>>
  BY DEF Return, vars, graph
<1>2. Frames' \subseteq Frames /\ Pending' = Pending
  BY ReturnFrames DEF vars, Frames, Pending
<1>3. Edges' = Edges
  BY <1>1 DEF Edges
<1>4. ASSUME NEW u, DepthWalk(u) PROVE DepthWalk(u)'
  BY <1>1, <1>2, <1>3, <1>4 DEF DepthWalk
<1>5. ASSUME NEW u, ReduceWalk(u) PROVE ReduceWalk(u)'
  BY <1>1, <1>2, <1>5 DEF ReduceWalk, Settled
<1> QED
  BY <1>1, <1>3, <1>4, <1>5 DEF RInv, RootShape, NoRedundantEdge

\* trwalk at v, in the first walk ...
LEMMA DepthWalkStep ==
  ASSUME IInv, IInv', RInv, mode = "depth", NEW v \in Vertex, Walk(v), NEW u \in root
  PROVE  DepthWalk(u)'
<1> DEFINE top == Head(stack)
<1>1. /\ depth' = [depth EXCEPT ![v] = top.depth] /\ UNCHANGED <<vertices, downEdges, upEdges, root>>
  BY DEF Walk, Entry, graph
<1>2. Edges' = Edges
  BY <1>1 DEF Edges
<1>3. DepthWalk(u) /\ u \in Vertex /\ depth \in [Vertex -> Nat]
  BY DEF RInv, IInv, Types
<1>4. /\ top \in Frames /\ top.depth \in Nat /\ v \in top.todo
      /\ Frames' \subseteq {Pushed(v), Rest(v)} \cup Frames
      /\ Rest(v).todo = top.todo \ {v} /\ Rest(v).depth = top.depth
  BY WalkFrames
<1>5. downEdges[v] \cup (Pending \ {v}) \subseteq Pending'
  BY <1>1, WalkPending
<1>6. (top.depth = 1 /\ v = u) \/ (top.depth >= 2 /\ Path(Edges, u, v))
  BY <1>3, <1>4 DEF DepthWalk
<1>7. \A y \in downEdges[v] : Path(Edges, u, y)
  <2> SUFFICES ASSUME NEW y \in downEdges[v] PROVE Path(Edges, u, y)
    OBVIOUS
  <2>1. <<v, y>> \in Edges
    BY EdgesAre
  <2>2. <<v, y>>[1] = v /\ <<v, y>>[2] = y
    OBVIOUS
  <2> QED
    BY <1>6, <2>1, <2>2, PathEdge, PathExtend
<1>8. \A f \in Frames' : \A y \in f.todo :
        (f.depth = 1 /\ y = u) \/ (f.depth >= 2 /\ Path(Edges, u, y))
  <2> SUFFICES ASSUME NEW f \in Frames', NEW y \in f.todo
               PROVE  (f.depth = 1 /\ y = u) \/ (f.depth >= 2 /\ Path(Edges, u, y))
    OBVIOUS
  <2>1. CASE f = Pushed(v)
    BY <1>1, <1>4, <1>6, <1>7, <2>1 DEF Pushed
  <2>2. CASE f = Rest(v)
    BY <1>3, <1>4, <2>2 DEF DepthWalk
  <2>3. CASE f \in Frames
    BY <1>3, <2>3 DEF DepthWalk
  <2> QED
    BY <1>4, <2>1, <2>2, <2>3
<1>9. ASSUME NEW x \in Vertex, depth'[x] # 0
      PROVE  /\ x = u \/ (depth'[x] >= 2 /\ Path(Edges, u, x))
             /\ x = u /\ ~Path(Edges, u, u) => depth'[x] = 1
             /\ \A y \in downEdges[x] : depth'[y] # 0 \/ y \in Pending'
  <2>1. CASE x = v
    BY <1>1, <1>3, <1>5, <1>6, <2>1
  <2>2. CASE x # v
    <3>1. depth'[x] = depth[x]
      BY <1>1, <1>3, <2>2
    <3>2. depth'[v] # 0
      BY <1>1, <1>3, <1>4, <1>6
    <3>3. \A y \in downEdges[x] : depth'[y] # 0 \/ y \in Pending'
      <4> SUFFICES ASSUME NEW y \in downEdges[x] PROVE depth'[y] # 0 \/ y \in Pending'
        OBVIOUS
      <4>1. y \in Vertex /\ (depth[y] # 0 \/ y \in Pending)
        BY <1>3, <1>9, <3>1 DEF DepthWalk, IInv, Types
      <4> QED
        BY <1>1, <1>3, <1>5, <3>2, <4>1
    <3> QED
      BY <1>3, <1>9, <3>1, <3>3 DEF DepthWalk
  <2> QED
    BY <2>1, <2>2
<1>10. depth'[u] # 0 \/ u \in Pending'
  BY <1>1, <1>3, <1>4, <1>5, <1>6 DEF DepthWalk
<1>11. ASSUME Looping(Edges, u) PROVE \E y \in Pending' : Looping(Edges, y)
  <2>1. PICK y \in Pending : Looping(Edges, y)
    BY <1>3, <1>11 DEF DepthWalk
  <2>2. CASE y = v
    <3>1. PICK e \in Edges : e[1] = v /\ Looping(Edges, e[2])
      BY <2>1, <2>2, LoopingNext
    <3>2. e[2] \in downEdges[v]
      BY <3>1, EdgesAre
    <3> QED
      BY <1>5, <3>1, <3>2
  <2> QED
    BY <1>5, <2>1, <2>2
<1> QED
  BY <1>1, <1>2, <1>8, <1>9, <1>10, <1>11 DEF DepthWalk

\* ... and in the second.
LEMMA ReduceWalkStep ==
  ASSUME IInv, IInv', RInv, mode = "reduce", NEW v \in Vertex, Walk(v), NEW u \in root
  PROVE  ReduceWalk(u)'
<1>1. /\ downEdges' = [x \in Vertex |-> IF x \in Dropped(v) THEN downEdges[x] \ {v} ELSE downEdges[x]]
      /\ upEdges' = [upEdges EXCEPT ![v] = @ \ Dropped(v)]
      /\ UNCHANGED <<vertices, depth, root>>
  BY DEF Walk, Entry, Disconnect
<1>2. ReduceWalk(u) /\ u \in Vertex
  BY DEF RInv, IInv, Types
<1>3. \A x \in Vertex : downEdges'[x] \subseteq downEdges[x] /\ upEdges'[x] \subseteq upEdges[x]
  BY <1>1 DEF IInv, Types
<1>4. downEdges'[v] \cup (Pending \ {v}) \subseteq Pending'
  BY WalkPending
<1>5. ASSUME v \in downEdges'[u] PROVE Settled(u, v)'
  <2>1. u \in upEdges'[v]
    BY <1>2, <1>5 DEF IInv, EdgesAgree
  <2>2. \A w \in upEdges'[v] : w \in Vertex /\ (depth[w] # 0 => depth[w] = BestDepth(v))
    BY <1>1 DEF Dropped, IInv, Types
  <2>3. \A w \in upEdges'[v] : depth[w] # 0 => depth[w] = 1
    BY <1>2, <2>1, <2>2 DEF ReduceWalk
  <2>4. \A w \in upEdges'[v] : depth[w] # 0 => w = u
    BY <1>2, <2>2, <2>3 DEF ReduceWalk
  <2> QED
    BY <1>1, <2>4 DEF Settled
<1>6. ASSUME NEW y \in downEdges'[u] PROVE Settled(u, y)' \/ y \in Pending' \/ u \in Pending'
  <2>1. y \in downEdges[u] /\ y \in Vertex
    BY <1>2, <1>3 DEF IInv, Types
  <2>2. CASE y = v
    BY <1>5, <1>6, <2>2
  <2>3. CASE u = v
    BY <1>4, <1>6, <2>3
  <2>4. CASE y # v /\ u # v
    <3>1. CASE Settled(u, y)
      BY <1>1, <1>3, <2>1, <3>1 DEF Settled
    <3>2. CASE y \in Pending \/ u \in Pending
      BY <1>4, <2>4, <3>2
    <3> QED
      BY <1>2, <2>1, <3>1, <3>2 DEF ReduceWalk
  <2> QED
    BY <2>2, <2>3, <2>4
<1>7. \A x \in Vertex : depth'[x] # 0 =>
        (x = u \/ depth'[x] >= 2) /\ \A y \in downEdges'[x] : depth'[y] # 0
  BY <1>1, <1>2, <1>3 DEF ReduceWalk
<1> QED
  BY <1>1, <1>2, <1>3, <1>6, <1>7 DEF ReduceWalk

LEMMA WalkRInv ==
  ASSUME IInv, IInv', RInv, NEW v \in Vertex, Walk(v)
  PROVE  RInv'
<1>1. mode \in {"depth", "reduce"} /\ UNCHANGED <<mode, left, root>>
  BY DEF Walk
<1>2. CASE mode = "depth"
  <2>1. UNCHANGED <<vertices, downEdges>>
    BY <1>2 DEF Walk, Entry, graph
  <2>2. NoRedundantEdge'
    BY <1>1, <2>1, NoRedundantKept DEF RInv
  <2> QED
    BY <1>1, <1>2, <2>2, DepthWalkStep DEF RInv, RootShape
<1>3. CASE mode = "reduce"
  <2>1. vertices' = vertices /\ \A x \in Vertex : downEdges'[x] \subseteq downEdges[x]
    <3>1. vertices' = vertices /\ Disconnect(v, Dropped(v))
      BY <1>3 DEF Walk, Entry
    <3> QED
      BY <3>1 DEF Disconnect
  <2>2. NoRedundantEdge'
    BY <1>1, <2>1, NoRedundantKept DEF RInv
  <2> QED
    BY <1>1, <1>3, <2>2, ReduceWalkStep DEF RInv, RootShape
<1> QED
  BY <1>1, <1>2, <1>3

LEMMA StepRInv == IInv /\ IInv' /\ RInv /\ [Next]_vars => RInv'
BY BuildRInv, PickRInv, WalkAgainRInv, WalkOverRInv, ReturnRInv, WalkRInv DEF Next, Step

(* TransitiveReduction keeps its promise on every graph, cyclic ones too   *)
(* (on which it does not end): it removes edges between vertices only,     *)
(* never the last dependency of one, and every edge beside which there is  *)
(* a longer path (transitive_reduction.go).                                *)
THEOREM PromiseKept == Spec => []ReducedAsPromised
<1>1. ASSUME IInv, RInv, mode = "done"
      PROVE  ReducesTo(vertices, EdgesOf(orig), EdgesOf(downEdges))
  <2>1. root = {} /\ left = {}
    BY <1>1 DEF RInv, RootShape
  <2>2. \A e \in Edges : e = <<e[1], e[2]>> /\ e[1] \in Vertex /\ e[2] \in downEdges[e[1]]
    BY <1>1, EdgesAre
  <2>3. \A e \in Edges : e[1] \in vertices => ~Path(Edges \ {e}, e[1], e[2])
    BY <1>1, <2>1, <2>2 DEF RInv, NoRedundantEdge
  <2>4. /\ \A x \in Vertex : \A y \in orig[x] : <<x, y>> \in EdgesOf(orig)
        /\ \A e \in EdgesOf(orig) : e = <<e[1], e[2]>> /\ e[1] \in Vertex /\ e[2] \in orig[e[1]]
    BY <1>1 DEF EdgesOf, IInv, Types
  <2>5. Edges \subseteq EdgesOf(orig)
    BY <1>1, <2>2, <2>4 DEF IInv, Reduced
  <2>6. ASSUME NEW e \in EdgesOf(orig), e[1] \in vertices PROVE \E u \in vertices : <<u, e[2]>> \in Edges
    <3>1. e[2] \in Vertex /\ e[2] \in orig[e[1]]
      BY <1>1, <2>4 DEF IInv, Types
    <3>2. PICK u \in vertices : e[2] \in downEdges[u]
      BY <1>1, <2>6, <3>1 DEF IInv, Reduced
    <3> QED
      BY <1>1, <3>2, EdgesAre DEF IInv, Types
  <2>7. ASSUME NEW e \in EdgesOf(orig) \ Edges PROVE e[1] \in vertices
    <3>1. e[2] \notin downEdges[e[1]] /\ e[1] \in Vertex /\ e[2] \in orig[e[1]]
      BY <1>1, <2>4, EdgesAre
    <3> QED
      BY <1>1, <3>1 DEF IInv, Reduced
  <2> QED
    BY <2>3, <2>5, <2>6, <2>7 DEF ReducesTo, Edges
<1>2. IInv /\ RInv => ReducedAsPromised
  BY <1>1 DEF ReducedAsPromised
<1> QED
  BY InitIInv, StepIInv, InitRInv, StepRInv, <1>2, PTL DEF Spec
=============================================================================
