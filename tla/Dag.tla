-------------------------------- MODULE Dag --------------------------------
(***************************************************************************)
(* The graph of pkg/ccutils/dag/dag.go and its TransitiveReduction: for    *)
(* every vertex in turn, one depth first walk that notes depths and one    *)
(* that deletes edges by them (trwalk is recursive: stack is its call      *)
(* stack).  Vertices and edges are kept in Go maps: the order of every     *)
(* loop is arbitrary.                                                      *)
(*                                                                         *)
(* The parser builds the graph first; a vertex of the graph is a function  *)
(* and an edge u -> v says that v depends on u.                            *)
(***************************************************************************)
EXTENDS Integers, Sequences, FiniteSetsExt, Graph

CONSTANTS
    Vertex,  \* names of vertices
    Edge     \* the edges the parser may connect: acyclic, pairs of vertices

ASSUME EdgeAssumption == Edge \subseteq Vertex \X Vertex

VARIABLES
    vertices,   \* the vertices added
    downEdges,
    upEdges,
    depth,      \* vertexDepth, 0 for a vertex it does not hold
    mode,       \* build, pick, depth, reduce or done
    left,       \* vertices TransitiveReduction has still to start from
    root,       \* the vertex it has started from, as a set
    stack,      \* per call of trwalk: the down vertices still to walk, and
                \* the depth they are walked at
    orig        \* downEdges when TransitiveReduction was called

graph == <<vertices, downEdges, upEdges>>
vars  == <<graph, depth, mode, left, root, stack, orig>>

Init ==
    /\ vertices = {}
    /\ downEdges = [v \in Vertex |-> {}]
    /\ upEdges = [v \in Vertex |-> {}]
    /\ depth = [v \in Vertex |-> 0]
    /\ mode = "build"
    /\ left = {} /\ root = {} /\ stack = <<>>
    /\ orig = [v \in Vertex |-> {}]

-----------------------------------------------------------------------------
(* AddVertex refuses a name it has.                                        *)
AddVertex(v) ==
    /\ mode = "build"
    /\ v \notin vertices
    /\ vertices' = vertices \cup {v}
    /\ UNCHANGED <<downEdges, upEdges, depth, mode, left, root, stack, orig>>

(* Connect: AddDownEdge and AddUpEdge.  Nobody checks that u is a vertex;  *)
(* the parser calls it for a vertex v only.                                *)
Connect(u, v) ==
    /\ mode = "build"
    /\ v \in vertices
    /\ downEdges' = [downEdges EXCEPT ![u] = @ \cup {v}]
    /\ upEdges' = [upEdges EXCEPT ![v] = @ \cup {u}]
    /\ UNCHANGED <<vertices, depth, mode, left, root, stack, orig>>

TransitiveReduction ==
    /\ mode = "build"
    /\ left' = vertices
    /\ orig' = downEdges
    /\ mode' = IF vertices = {} THEN "done" ELSE "pick"
    /\ UNCHANGED <<graph, depth, root, stack>>

-----------------------------------------------------------------------------
(* getbestVertexDepth: the largest depth above v, 0 when there is none.    *)
BestDepth(v) == Max({0} \cup {depth[u] : u \in upEdges[v]})

\* Mutant: the depth of the vertex itself counts as best.
DroppedOwnDepth(v) == {u \in upEdges[v] : depth[u] # 0 /\ depth[u] # depth[v]}

(* processTransitiveReducation: the up vertices that v is cut off from.    *)
Dropped(v) == {u \in upEdges[v] : depth[u] # 0 /\ depth[u] # BestDepth(v)}

\* Mutant: only the down edge is deleted.
DisconnectDown(v, us) ==
    /\ downEdges' = [u \in Vertex |-> IF u \in us THEN downEdges[u] \ {v} ELSE downEdges[u]]
    /\ UNCHANGED upEdges

(* Disconnect, for each of them.                                           *)
Disconnect(v, us) ==
    /\ downEdges' = [u \in Vertex |-> IF u \in us THEN downEdges[u] \ {v} ELSE downEdges[u]]
    /\ upEdges' = [upEdges EXCEPT ![v] = @ \ us]

(* WalkEntryFn at v: addVertexDepth in the first walk, the reduction in    *)
(* the second.                                                             *)
Entry(v, d) ==
    \/ /\ mode = "depth"
       /\ depth' = [depth EXCEPT ![v] = d]
       /\ UNCHANGED graph
    \/ /\ mode = "reduce"
       /\ Disconnect(v, Dropped(v))
       /\ UNCHANGED <<vertices, depth>>

(* The next vertex: initVertexDepthMap, and the first walk begins.         *)
Pick(v) ==
    /\ mode = "pick"
    /\ v \in left
    /\ left' = left \ {v}
    /\ root' = {v}
    /\ depth' = [u \in Vertex |-> 0]
    /\ stack' = <<[todo |-> {v}, depth |-> 1]>>
    /\ mode' = "depth"
    /\ UNCHANGED <<graph, orig>>

(* trwalk is called for v: it takes the down vertices of v after the entry.*)
Walk(v) ==
    /\ mode \in {"depth", "reduce"}
    /\ stack # <<>>
    /\ v \in Head(stack).todo
    /\ Entry(v, Head(stack).depth)
    /\ stack' = <<[todo |-> downEdges'[v], depth |-> Head(stack).depth + 1],
                  [Head(stack) EXCEPT !.todo = @ \ {v}]>> \o Tail(stack)
    /\ UNCHANGED <<mode, left, root, orig>>

(* A call of trwalk returns.                                               *)
Return ==
    /\ stack # <<>>
    /\ Head(stack).todo = {}
    /\ stack' = Tail(stack)
    /\ UNCHANGED <<graph, depth, mode, left, root, orig>>

(* The first walk is over, the second begins at the same vertex.           *)
WalkAgain ==
    /\ mode = "depth" /\ stack = <<>>
    /\ mode' = "reduce"
    /\ stack' = <<[todo |-> root, depth |-> 1]>>
    /\ UNCHANGED <<graph, depth, left, root, orig>>

\* Mutant: the loop begins again while something was left.
WalkOverRepeats ==
    /\ mode = "reduce" /\ stack = <<>>
    /\ mode' = IF left = {} THEN "done" ELSE "pick"
    /\ root' = {}
    /\ left' = IF left = {} THEN {} ELSE vertices
    /\ UNCHANGED <<graph, depth, stack, orig>>

(* The second walk is over; after the last vertex the reduction is.        *)
WalkOver ==
    /\ mode = "reduce" /\ stack = <<>>
    /\ mode' = IF left = {} THEN "done" ELSE "pick"
    /\ root' = {}
    /\ UNCHANGED <<graph, depth, left, stack, orig>>

Step ==
    \/ \E v \in Vertex : Pick(v) \/ Walk(v)
    \/ Return \/ WalkAgain \/ WalkOver

Next ==
    \/ \E v \in Vertex : AddVertex(v)
    \/ \E e \in Edge : Connect(e[1], e[2])
    \/ TransitiveReduction
    \/ Step

Spec == Init /\ [][Next]_vars

(* A Go function that is called runs.                                      *)
FairSpec == Spec /\ WF_vars(Step)

-----------------------------------------------------------------------------
(* Type correctness.                                                       *)
TypeOK ==
    /\ vertices \subseteq Vertex
    /\ downEdges \in [Vertex -> SUBSET vertices] /\ upEdges \in [Vertex -> SUBSET Vertex]
    /\ depth \in [Vertex -> Nat]
    /\ mode \in {"build", "pick", "depth", "reduce", "done"}
    /\ left \subseteq vertices /\ root \subseteq vertices
    /\ stack \in Seq([todo : SUBSET vertices, depth : Nat \ {0}])
    /\ orig \in [Vertex -> SUBSET vertices]

(* The two edge maps agree: the executor walks one of them and waits for   *)
(* the vertices of the other.                                              *)
EdgesAgree ==
    \A u, v \in Vertex : v \in downEdges[u] <=> u \in upEdges[v]

(* When the reduction is over it has kept its promise: no vertex has lost  *)
(* its last dependency, so the executor still reaches it, and no edge is   *)
(* redundant.                                                              *)
ReducedAsPromised ==
    mode = "done" => ReducesTo(vertices, EdgesOf(orig), EdgesOf(downEdges))

(* The reduction ends.                                                     *)
ReductionEnds == (mode = "pick") ~> (mode = "done")

-----------------------------------------------------------------------------
(* parser.go:62: a transitive reduction; what depends on what stays the    *)
(* same.                                                                   *)
DependenciesKept ==
    mode = "done" => \A u, v \in Vertex :
        Path(EdgesOf(orig), u, v) <=> Path(EdgesOf(downEdges), u, v)
=============================================================================
