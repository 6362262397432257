---------------------------- MODULE ParserProofs ----------------------------
(***************************************************************************)
(* For every configuration: what the parser accepts has one producer per   *)
(* output and producers before their users, the graphs it hands out are    *)
(* what the executor assumes but for what nothing resolves, every member   *)
(* of a block is reached after the reduction, and it crashes on what       *)
(* Malformed lists and on cycles only.                                     *)
(***************************************************************************)
EXTENDS Parser, TLAPS, FiniteSetTheorems, WellFoundedInduction

AfterReduce   == {"external", "ready"}
AfterConnect  == {"reduce"} \cup AfterReduce
AfterPopulate == {"resolve", "connect"} \cup AfterConnect
AfterInit     == {"populate"} \cup AfterPopulate
AfterValidate == {"init"} \cup AfterInit

\* The walk ph has visited v, and recorded no error so far.
Done(ph, v) == phase = ph /\ result = {} /\ v \notin left
Validated(v) == Done("validate", v) \/ phase \in AfterValidate
Inited(v)    == Done("init", v) \/ phase \in AfterInit
Populated(v) == Done("populate", v) \/ phase \in AfterPopulate

\* v is connected in the graph k, which is not yet reduced.
Wired(v, k) == (phase = "connect" /\ v \notin left) \/ (phase = "reduce" /\ k \in left)
Reduced(k)  == (phase = "reduce" /\ k \notin left) \/ phase \in AfterReduce

\* The graph of the object o, or the call c, for the operation op.
GraphOf(o, op) == <<o.fow, Obj(o).resource, op, "">>
OwnGraph(v) == BlockDag(v, VertexName(v))
IsGraph(d) == d = [root |-> d.root, kind |-> d.kind, refs |-> d.refs, edges |-> d.edges]

Shape ==
    /\ cfg \in Configs
    /\ phase \in DOMAIN NextPhase \cup {"ready", "refused", "crashed"}
    /\ left \subseteq Visits(phase)
    /\ \A k \in DOMAIN dags : IsGraph(dags[k]) /\ IsFiniteSet(DOMAIN dags[k].kind)
    /\ phase = "validate" => dags = <<>>
    /\ phase = "init" => \A k \in DOMAIN dags : DOMAIN dags[k].kind = {}
    /\ phase \in {"init", "populate", "resolve"} => \A k \in DOMAIN dags : dags[k].edges = {}

\* What is validated has no error.
Valid == \A v \in Visits("validate") : Validated(v) => ValidateErrors(v) = {}

\* A graph belongs to an object, or to a block of a pipeline with a graph.
Keys ==
    \A k \in DOMAIN dags :
        \/ \E o \in Objects, op \in Ops : k = GraphOf(o, op)
        \/ \E v \in Functions : IsBlock(v) /\ k = OwnGraph(v) /\ MainDag(v) \in DOMAIN dags

\* Every object has its graphs; they are its own, and its blocks have theirs,
\* where it does not share its gvk.
Graphs ==
    /\ \A o \in Objects, op \in Ops :
          /\ Alone(o) /\ GraphOf(o, op) \in DOMAIN dags =>
                dags[GraphOf(o, op)].root = o.root /\ (phase = "init" => o \notin left)
          /\ Inited(o) /\ HasGraph(o.fow, op) => GraphOf(o, op) \in DOMAIN dags
    /\ \A v \in Functions :
          Alone(ObjectOf(v)) /\ IsBlock(v) /\ Inited(v) => OwnGraph(v) \in DOMAIN dags

Context(v) == [vertex |-> VertexName(v), index |-> BlockIndex(v), block |-> BlockVertexName(v)]

\* A variable is known with the object, or the function, that it is made by.
Variables ==
    /\ \A o \in Objects : Inited(o) => VarsOf(o) \in DOMAIN gvar
    /\ \A o \in Objects : Populated(o) =>
          /\ o.root \in DOMAIN gvar[VarsOf(o)]
          /\ gvar[VarsOf(o)][o.root] = [vertex |-> o.root, index |-> 0, block |-> ""]
    /\ \A v \in Functions : Populated(v) =>
          \A x \in Outputs(v) : x \in DOMAIN gvar[VarsOf(v)] /\ gvar[VarsOf(v)][x] = Context(v)
    /\ \A f, g \in Functions :
          Populated(f) /\ Populated(g) /\ SameObject(f, g) /\ Outputs(f) \cap Outputs(g) # {} => f = g

\* And there are no others.
MadeBy(o, x, info) ==
    \/ info = [vertex |-> o.root, index |-> 0, block |-> ""]
    \/ \E g \in Functions : SameObject(o, g) /\ x \in Outputs(g) /\ info = Context(g)
Origins ==
    \A o \in Objects : VarsOf(o) \in DOMAIN gvar =>
        \A x \in DOMAIN gvar[VarsOf(o)] : MadeBy(o, x, gvar[VarsOf(o)][x])

\* The input of a function that lists no outputs is a resource, or empty.
InputChecked(e) == e.hasInput /\ e.resource = BadGVK => e.hasOutput
Inputs == \A v \in Functions : Populated(v) => InputChecked(Element(v))

KindIn(v, k) == IF k \in OwnDag(v) THEN "root" ELSE "function"

\* The vertices are the objects and the functions, of the kind they are.
Added ==
    /\ \A v \in Functions : Populated(v) =>
          \A k \in Targets(v) :
              /\ k \in DOMAIN dags /\ VertexName(v) \in Vertices(k)
              /\ dags[k].kind[VertexName(v)] = KindIn(v, k)
    /\ \A o \in Objects, op \in Ops : Populated(o) /\ GraphOf(o, op) \in DOMAIN dags =>
          /\ o.root \in Vertices(GraphOf(o, op))
          /\ dags[GraphOf(o, op)].kind[o.root] = "root"
Vertexes ==
    \A k \in DOMAIN dags : \A x \in Vertices(k) :
        \/ \E o \in Objects, op \in Ops : k = GraphOf(o, op) /\ x = o.root
        \/ \E v \in Functions : k \in Targets(v) /\ x = VertexName(v) /\ dags[k].kind[x] = KindIn(v, k)

\* An edge leads to the function that it was made for, or joins two names
\* that are empty.
Heads ==
    \A k \in DOMAIN dags : \A e \in dags[k].edges :
        \/ e = <<"", "">>
        \/ \E f \in Functions : /\ DagOf(f) = k /\ e = <<e[1], VertexName(f)>>
                                /\ <<k, e[1], VertexName(f)>> \in FunctionEdges(f)
Wires ==
    phase \in {"connect", "reduce"} => \A f \in Functions : \A e \in FunctionEdges(f) :
        e[1] \in DOMAIN dags /\ Wired(f, e[1]) => <<e[2], e[3]>> \in dags[e[1]].edges

EdgesIn(k) == {e \in dags[k].edges : e[2] \in Vertices(k)}
Reduction ==
    \A k \in DOMAIN dags : Reduced(k) =>
        /\ Acyclic(EdgesIn(k))
        /\ k[4] # "" => \A m \in Vertices(k) \ {k[4]} : DependsOn(k, k[4], m)

IInv == /\ Shape /\ Valid /\ Keys /\ Graphs /\ Variables /\ Origins /\ Inputs /\ Added /\ Vertexes
        /\ Heads /\ Wires /\ Reduction /\ CrashesExplained

-----------------------------------------------------------------------------
LEMMA CfgFixed ==
  ASSUME cfg' = cfg
  PROVE  /\ Objects' = Objects
         /\ Functions' = Functions
         /\ Missing' = Missing
         /\ ServiceVisits' = ServiceVisits
         /\ ServiceOutputs' = ServiceOutputs
         /\ \A v : Obj(v)' = Obj(v)
         /\ \A v : Element(v)' = Element(v)
         /\ \A v : IsBlock(v)' = IsBlock(v)
         /\ \A v : LocalVars(v)' = LocalVars(v)
         /\ \A v : ValidateErrors(v)' = ValidateErrors(v)
         /\ \A v : References(v)' = References(v)
         /\ \A v : Global(v)' = Global(v)
         /\ \A v : Outputs(v)' = Outputs(v)
         /\ \A v : DagOf(v)' = DagOf(v)
         /\ \A v : MainDag(v)' = MainDag(v)
         /\ \A v : OwnDag(v)' = OwnDag(v)
         /\ \A v : Targets(v)' = Targets(v)
         /\ \A v : OwnGraph(v)' = OwnGraph(v)
         /\ \A o, op : GraphOf(o, op)' = GraphOf(o, op)
         /\ \A v, k : KindIn(v, k)' = KindIn(v, k)
         /\ \A o : Alone(o)' = Alone(o)
         /\ Malformed' = Malformed
         /\ gvar' = gvar => \A v : FunctionEdges(v)' = FunctionEdges(v)
<1>1. Objects' = Objects
  BY DEF Objects
<1>2. \A v : Obj(v)' = Obj(v)
  BY DEF Obj
<1>3. \A v : PipelineRef(v)' = PipelineRef(v)
  BY DEF PipelineRef, Obj
<1>4. \A v : Element(v)' = Element(v)
  BY <1>3 DEF Element
<1>5. PipelineCalls' = PipelineCalls
  BY <1>1 DEF PipelineCalls
<1>6. Missing' = Missing
  BY <1>5, <1>3 DEF Missing
<1>7. Functions' = Functions
  BY <1>5, <1>6, <1>3 DEF Functions
<1>8. ServiceVisits' = ServiceVisits
  BY DEF ServiceVisits
<1>9. ServiceOutputs' = ServiceOutputs
  BY <1>8 DEF ServiceOutputs
<1>10. \A v : IsBlock(v)' = IsBlock(v)
  BY <1>4 DEF IsBlock
<1>11. \A v : LocalVars(v)' = LocalVars(v)
  BY DEF LocalVars, Element, PipelineRef, Obj
<1>12. \A v : References(v)' = References(v)
  BY <1>4 DEF References
<1>13. \A v : Followed(v)' = Followed(v)
  BY <1>12 DEF Followed
<1>14. \A v : Global(v)' = Global(v)
  BY <1>11, <1>13 DEF Global
<1>15. \A v : Outputs(v)' = Outputs(v)
  BY <1>4 DEF Outputs
<1>16. \A v, b : BlockDag(v, b)' = BlockDag(v, b)
  BY <1>2 DEF BlockDag
<1>17. \A v : OwnDag(v)' = OwnDag(v)
  BY <1>10, <1>16 DEF OwnDag
<1>18. \A v : DagOf(v)' = DagOf(v) /\ MainDag(v)' = MainDag(v)
  BY <1>16 DEF DagOf, MainDag
<1>19. \A v : FunctionBlockErrors(v)' = FunctionBlockErrors(v)
  BY <1>4 DEF FunctionBlockErrors
<1>20. \A v : ValidateErrors(v)' = ValidateErrors(v)
  <2>1. \A v : ElementErrors(v)' = ElementErrors(v)
    BY <1>4, <1>10, <1>19 DEF ElementErrors
  <2> QED
    BY <1>1, <1>2, <1>6, <1>8, <2>1 DEF ValidateErrors
<1>21. \A v : Targets(v)' = Targets(v)
  BY <1>17, <1>18 DEF Targets
<1>22. \A v : OwnGraph(v)' = OwnGraph(v)
  BY <1>16 DEF OwnGraph
<1>23. \A o, op : GraphOf(o, op)' = GraphOf(o, op)
  BY <1>2 DEF GraphOf
<1>24. \A v, k : KindIn(v, k)' = KindIn(v, k)
  BY <1>17 DEF KindIn
<1>25. \A o : Alone(o)' = Alone(o)
  BY <1>1, <1>2 DEF Alone
<1>26. Malformed' = Malformed
  <2>1. Incomplete' = Incomplete
    BY <1>1, <1>2, <1>4, <1>6, <1>7 DEF Incomplete
  <2>2. Unchecked' = Unchecked
    BY <1>4, <1>7, <1>10, <1>12, <1>25 DEF Unchecked
  <2> QED
    BY <2>1, <2>2 DEF Malformed
<1>27. gvar' = gvar => \A v : FunctionEdges(v)' = FunctionEdges(v)
  <2> SUFFICES ASSUME gvar' = gvar PROVE \A v : FunctionEdges(v)' = FunctionEdges(v)
    OBVIOUS
  <2>1. \A v, r : Known(v, r)' = Known(v, r)
    BY DEF Known
  <2>2. \A v, r : RefEdges(v, r)' = RefEdges(v, r)
    BY <1>18 DEF RefEdges, VarInfo
  <2> QED
    BY <1>4, <1>14, <1>18, <2>1, <2>2 DEF FunctionEdges
<1> QED
  BY <1>1, <1>2, <1>4, <1>6, <1>7, <1>8, <1>9, <1>10, <1>11, <1>12, <1>14, <1>15, <1>17, <1>18, <1>20,
     <1>21, <1>22, <1>23, <1>24, <1>25, <1>26, <1>27

LEMMA MadeBySame ==
  ASSUME cfg' = cfg
  PROVE  \A o, x, info : MadeBy(o, x, info)' <=> MadeBy(o, x, info)
<1>1. Functions' = Functions /\ \A v : Outputs(v)' = Outputs(v)
  BY CfgFixed
<1> QED
  BY <1>1, Zenon DEF MadeBy, Context

-----------------------------------------------------------------------------
(* The visits.                                                             *)
LEMMA ObjectShape ==
  ASSUME NEW o \in Objects
  PROVE  /\ o = ObjectOf(o) /\ o.op = "none" /\ o.path = <<>>
         /\ o.fow \in Fow /\ o.root \in DOMAIN cfg[o.fow]
         /\ VertexName(o) = o.root
<1>1. PICK f \in Fow : \E r \in DOMAIN cfg[f] : o = [fow |-> f, root |-> r, op |-> "none", path |-> <<>>]
  BY DEF Objects
<1> QED
  BY <1>1 DEF ObjectOf, VertexName

LEMMA FunctionShape ==
  ASSUME NEW v \in Functions
  PROVE  /\ v = [fow |-> v.fow, root |-> v.root, op |-> v.op, path |-> v.path]
         /\ v.fow \in Fow /\ v.op \in Ops /\ v.op # "none"
         /\ ObjectOf(v) \in Objects /\ Obj(v) = Obj(ObjectOf(v))
         /\ PipelineRef(v) \in DOMAIN cfg.pipelines
         /\ v.path \in DOMAIN cfg.pipelines[PipelineRef(v)]
         /\ Walked(cfg.pipelines[PipelineRef(v)], v.path)
<1>1. PICK c \in PipelineCalls \ Missing :
        v \in {[c EXCEPT !.path = q] : q \in {x \in DOMAIN cfg.pipelines[PipelineRef(c)] : Walked(cfg.pipelines[PipelineRef(c)], x)}}
  BY DEF Functions
<1>2. PICK q \in DOMAIN cfg.pipelines[PipelineRef(c)] :
        Walked(cfg.pipelines[PipelineRef(c)], q) /\ v = [c EXCEPT !.path = q]
  BY <1>1
<1>3. PICK o \in Objects, op \in Ops : c = [o EXCEPT !.op = op]
  BY DEF PipelineCalls
<1>4. PICK f \in Fow : \E r \in DOMAIN cfg[f] : o = [fow |-> f, root |-> r, op |-> "none", path |-> <<>>]
  BY DEF Objects
<1>5. c = [fow |-> f, root |-> o.root, op |-> op, path |-> <<>>]
  BY <1>3, <1>4
<1>6. v = [fow |-> f, root |-> o.root, op |-> op, path |-> q]
  BY <1>2, <1>5
<1>7. PipelineRef(v) = PipelineRef(c) /\ PipelineRef(c) \in DOMAIN cfg.pipelines
  BY <1>5, <1>6 DEF PipelineRef, Obj, Missing
<1>8. ObjectOf(v) = o
  BY <1>4, <1>6 DEF ObjectOf
<1>9. v.op \in Ops /\ v.op # "none" /\ v.fow \in Fow
  BY <1>6 DEF Ops
<1>10. v.path = q /\ Obj(v) = Obj(o)
  BY <1>4, <1>6 DEF Obj
<1>11. v = [fow |-> v.fow, root |-> v.root, op |-> v.op, path |-> v.path]
  BY <1>6
<1> QED
  BY <1>2, <1>7, <1>8, <1>9, <1>10, <1>11

LEMMA FunctionIntro ==
  ASSUME NEW v \in Functions, NEW path \in DOMAIN cfg.pipelines[PipelineRef(v)],
         Walked(cfg.pipelines[PipelineRef(v)], path)
  PROVE  /\ [v EXCEPT !.path = path] \in Functions
         /\ Element([v EXCEPT !.path = path]) = cfg.pipelines[PipelineRef(v)][path]
<1> DEFINE c == [fow |-> v.fow, root |-> v.root, op |-> v.op, path |-> <<>>]
<1>1. v = [fow |-> v.fow, root |-> v.root, op |-> v.op, path |-> v.path]
      /\ v.op \in Ops /\ ObjectOf(v) \in Objects /\ PipelineRef(v) \in DOMAIN cfg.pipelines
  BY FunctionShape
<1>2. c = [ObjectOf(v) EXCEPT !.op = v.op]
  BY DEF ObjectOf
<1>3. c \in PipelineCalls
  BY <1>1, <1>2 DEF PipelineCalls
<1>4. PipelineRef(c) = PipelineRef(v)
  BY DEF PipelineRef, Obj
<1>5. c \notin Missing
  BY <1>1, <1>4 DEF Missing
<1>6. [v EXCEPT !.path = path] = [c EXCEPT !.path = path]
  BY <1>1
<1>7. [v EXCEPT !.path = path] \in Functions
  BY <1>3, <1>4, <1>5, <1>6 DEF Functions
<1>8. PipelineRef([v EXCEPT !.path = path]) = PipelineRef(v)
  BY <1>1 DEF PipelineRef, Obj
<1>9. Element([v EXCEPT !.path = path]) = cfg.pipelines[PipelineRef(v)][path]
  BY <1>1, <1>8 DEF Element
<1> QED
  BY <1>7, <1>9

LEMMA FunctionEntry ==
  ASSUME cfg \in Configs, NEW v \in Functions
  PROVE  /\ v.path \in Seq(STRING) /\ Len(v.path) >= 2
         /\ \A i \in 2 .. Len(v.path) : v.path[i] # ""
         /\ \A i \in 2 .. Len(v.path) : SubSeq(v.path, 1, i) \in DOMAIN cfg.pipelines[PipelineRef(v)]
<1>1. v.path \in DOMAIN cfg.pipelines[PipelineRef(v)] /\ PipelineRef(v) \in DOMAIN cfg.pipelines
  BY FunctionShape
<1> QED
  BY <1>1, ConfigsAssumption

LEMMA FunctionPath ==
  ASSUME cfg \in Configs, NEW v \in Functions
  PROVE  /\ v.path \in Seq(STRING) /\ v.path # <<>> /\ Len(v.path) \in Nat /\ Len(v.path) >= 2
         /\ BlockIndex(v) = Len(v.path) - 2 /\ BlockIndex(v) \in Nat
<1>1. v.path \in Seq(STRING) /\ Len(v.path) >= 2
  BY FunctionEntry, Zenon
<1> QED
  BY <1>1 DEF BlockIndex

LEMMA FunctionName ==
  ASSUME cfg \in Configs, NEW v \in Functions
  PROVE  VertexName(v) # "" /\ (BlockIndex(v) > 0 <=> BlockVertexName(v) # "")
<1>1. /\ Len(v.path) \in 2 .. Len(v.path)
      /\ Len(v.path) - 2 > 0 => Len(v.path) - 1 \in 2 .. Len(v.path)
  BY FunctionPath
<1>2. \A i \in 2 .. Len(v.path) : v.path[i] # ""
  BY FunctionEntry, Zenon
<1>3. v.path[Len(v.path)] # "" /\ (Len(v.path) - 2 > 0 => v.path[Len(v.path) - 1] # "")
  BY <1>1, <1>2, Zenon
<1>4. v.path # <<>>
  BY FunctionPath
<1> QED
  BY <1>3, <1>4 DEF VertexName, Last, BlockIndex, BlockVertexName

LEMMA Kinds ==
  /\ \A o \in Objects : o.op = "none" /\ o.fow # "service"
  /\ \A v \in Functions : v.op # "none" /\ v.fow # "service"
  /\ \A s \in ServiceOutputs : s.op = "none" /\ s.fow = "service"
  /\ \A c \in Missing : c.op # "none" /\ c.path = <<>> /\ c.fow # "service"
  /\ \A s \in ServiceVisits : s.fow = "service" /\ s.op = "none" /\ s.path = <<>>
<1>1. \A o \in Objects : o.op = "none" /\ o.fow # "service"
  BY ObjectShape DEF Fow
<1>2. \A v \in Functions : v.op # "none" /\ v.fow # "service"
  BY FunctionShape DEF Fow
<1>3. \A s \in ServiceVisits : s = [fow |-> "service", root |-> s.root, op |-> "none", path |-> <<>>]
  BY DEF ServiceVisits
<1>4. \A s \in ServiceOutputs : s.op = "none" /\ s.fow = "service"
  <2> SUFFICES ASSUME NEW s \in ServiceOutputs PROVE s.op = "none" /\ s.fow = "service"
    OBVIOUS
  <2>1. PICK x \in ServiceVisits : s \in {[x EXCEPT !.path = <<o>>] : o \in DOMAIN cfg.services[x.root].output}
    BY DEF ServiceOutputs
  <2>2. PICK o : s = [x EXCEPT !.path = <<o>>]
    BY <2>1
  <2> QED
    BY <1>3, <2>2
<1>5. \A c \in Missing : c.op # "none" /\ c.path = <<>> /\ c.fow # "service"
  <2> SUFFICES ASSUME NEW c \in Missing PROVE c.op # "none" /\ c.path = <<>> /\ c.fow # "service"
    OBVIOUS
  <2>1. PICK o \in Objects, op \in Ops : c = [o EXCEPT !.op = op]
    BY DEF Missing, PipelineCalls
  <2>2. o = [fow |-> o.fow, root |-> o.root, op |-> "none", path |-> <<>>]
    BY ObjectShape DEF ObjectOf
  <2> QED
    BY <1>1, <2>1, <2>2 DEF Ops
<1> QED
  BY <1>1, <1>2, <1>3, <1>4, <1>5

\* What validation leaves of the functions.
AllValid == \A v \in Functions : ValidateErrors(v) = {}

LEMMA ValidFunction ==
  ASSUME cfg \in Configs, AllValid, NEW v \in Functions
  PROVE  /\ IsBlock(v) => BlockIndex(v) = 0 /\ HasBlock(Element(v))
         /\ \A o \in DOMAIN Element(v).output : Element(v).output[o].resource # BadGVK
         /\ Element(v).hasInput /\ Element(v).resource = BadGVK => Element(v).type \notin {"query", "gotemplate"}
<1>1. v.fow # "service" /\ v.op # "none" /\ v.path # <<>>
  BY FunctionShape, FunctionPath DEF Fow
<1>2. v \notin ServiceVisits /\ v \notin Objects /\ v \notin Missing
  BY <1>1, Kinds
<1>3. ElementErrors(v) = {}
  BY <1>2 DEF AllValid, ValidateErrors
<1>4. IsBlock(v) => FunctionBlockErrors(v) = {}
  BY <1>3 DEF ElementErrors
<1>5. ValidateFunction(Element(v)) = {}
  BY <1>3 DEF ElementErrors
<1>6. IsBlock(v) => BlockIndex(v) = 0 /\ HasBlock(Element(v))
  <2>1. IsBlock(v) => ~(BlockIndex(v) >= 1) /\ HasBlock(Element(v))
    BY <1>4 DEF FunctionBlockErrors, Err
  <2>2. BlockIndex(v) \in Nat
    BY FunctionPath
  <2> QED
    BY <2>1, <2>2
<1>7. Element(v).hasInput /\ Element(v).resource = BadGVK => Element(v).type \notin {"query", "gotemplate"}
  <2>1. TypeErrors(Element(v)) = {}
    BY <1>5 DEF ValidateFunction
  <2> QED
    BY <2>1 DEF TypeErrors, Err, GetGVKFails
<1>8. OutputErrors(Element(v)) = {}
  BY <1>5 DEF ValidateFunction
<1>9. \A o \in DOMAIN Element(v).output : Element(v).output[o].resource # BadGVK
  BY <1>8 DEF OutputErrors, Err, GetGVKFails
<1> QED
  BY <1>6, <1>7, <1>9

\* The block that a function is a member of.
Parent(v) == [v EXCEPT !.path = SubSeq(v.path, 1, 2)]

LEMMA Depth ==
  ASSUME cfg \in Configs, AllValid, NEW v \in Functions
  PROVE  BlockIndex(v) \in {0, 1}
<1> SUFFICES ASSUME Len(v.path) > 3 PROVE FALSE
  BY FunctionPath
<1> DEFINE p == cfg.pipelines[PipelineRef(v)]
           q == SubSeq(v.path, 1, 3)
           u == [v EXCEPT !.path = q]
<1>1. v.path \in Seq(STRING) /\ Len(v.path) \in Nat
  BY FunctionPath
<1>2. q \in DOMAIN p
  <2>1. 3 \in 2 .. Len(v.path)
    BY <1>1
  <2> QED
    BY <2>1, FunctionEntry, Zenon
<1>3. q \in Seq(STRING) /\ Len(q) = 3 /\ \A k \in 1 .. 3 : SubSeq(q, 1, k) = SubSeq(v.path, 1, k)
  BY <1>1
<1>4. Walked(p, v.path)
  BY FunctionShape
<1>5. p[SubSeq(v.path, 1, 2)].type = "block" /\ p[SubSeq(v.path, 1, 3)].type = "block"
  BY <1>1, <1>4 DEF Walked
<1>6. Walked(p, q)
  <2>1. \A k \in 2 .. Len(q) - 1 : k = 2
    BY <1>3
  <2>2. SubSeq(q, 1, 2) = SubSeq(v.path, 1, 2)
    BY <1>3
  <2> QED
    BY <1>5, <2>1, <2>2, Zenon DEF Walked
<1>7. u \in Functions /\ Element(u) = p[q]
  BY <1>2, <1>6, FunctionIntro
<1>8. u.path = q
  BY FunctionShape
<1>9. IsBlock(u) /\ BlockIndex(u) = 1
  BY <1>3, <1>5, <1>7, <1>8 DEF IsBlock, BlockIndex
<1> QED
  BY <1>7, <1>9, ValidFunction

LEMMA Member ==
  ASSUME cfg \in Configs, AllValid, NEW v \in Functions, BlockIndex(v) # 0
  PROVE  /\ Parent(v) \in Functions /\ IsBlock(Parent(v)) /\ VertexName(Parent(v)) = BlockVertexName(v)
         /\ DagOf(v) = OwnGraph(Parent(v)) /\ ObjectOf(Parent(v)) = ObjectOf(v)
<1> DEFINE p == cfg.pipelines[PipelineRef(v)]
           q == SubSeq(v.path, 1, 2)
<1>1. v.path \in Seq(STRING) /\ Len(v.path) = 3
  <2>1. BlockIndex(v) \in {0, 1}
    BY Depth
  <2>2. v.path \in Seq(STRING) /\ Len(v.path) \in Nat /\ BlockIndex(v) = Len(v.path) - 2
    BY FunctionPath
  <2> QED
    BY <2>1, <2>2
<1>2. q \in DOMAIN p
  <2>1. 2 \in 2 .. Len(v.path)
    BY <1>1
  <2> QED
    BY <2>1, FunctionEntry, Zenon
<1>3. q \in Seq(STRING) /\ Len(q) = 2 /\ q[2] = v.path[2]
  BY <1>1
<1>4. Walked(p, v.path)
  BY FunctionShape
<1>5. p[q].type = "block"
  BY <1>1, <1>4 DEF Walked
<1>6. Walked(p, q)
  BY <1>3 DEF Walked
<1>7. Parent(v) \in Functions /\ Element(Parent(v)) = p[q]
  BY <1>2, <1>6, FunctionIntro DEF Parent
<1>8. /\ Parent(v).path = q /\ Parent(v).fow = v.fow /\ Parent(v).root = v.root
      /\ Parent(v).op = v.op
  BY FunctionShape DEF Parent
<1>9. VertexName(Parent(v)) = v.path[2]
  <2>1. VertexName(Parent(v)) = q[Len(q)]
    BY <1>7, <1>8, FunctionPath DEF VertexName, Last
  <2> QED
    BY <1>3, <2>1
<1>10. BlockVertexName(v) = v.path[2]
  BY <1>1 DEF BlockVertexName, BlockIndex
<1>11. Obj(Parent(v)) = Obj(v)
  BY <1>8 DEF Obj
<1> QED
  BY <1>5, <1>7, <1>8, <1>9, <1>10, <1>11 DEF IsBlock, DagOf, OwnGraph, BlockDag, ObjectOf

-----------------------------------------------------------------------------
LEMMA InitIInv == Init => IInv
<1> SUFFICES ASSUME Init PROVE IInv
  OBVIOUS
<1>1. /\ dags = <<>> /\ gvar = <<>> /\ left = Visits(phase) /\ cfg \in Configs
      /\ phase \in {"validate", "crashed"} /\ (phase = "crashed" => ~cfg.properties)
  BY DEF Init
<1>2. DOMAIN dags = {} /\ DOMAIN gvar = {}
  BY <1>1
<1> HIDE DEF Init
<1> USE DEF AfterValidate, AfterInit, AfterPopulate, AfterConnect, AfterReduce
<1>3. Shape
  BY <1>1, <1>2 DEF Shape, NextPhase
<1>4. Valid
  BY <1>1 DEF Valid, Validated, Done
<1>5. Keys /\ Vertexes /\ Heads /\ Reduction
  BY <1>2 DEF Keys, Vertexes, Heads, Reduction
<1>6. \A v : ~Inited(v) /\ ~Populated(v)
  BY <1>1 DEF Inited, Populated, Done
<1>7. Graphs /\ Variables /\ Origins /\ Inputs /\ Added
  BY <1>2, <1>6 DEF Graphs, Variables, Origins, Inputs, Added
<1>8. Wires /\ CrashesExplained
  BY <1>1 DEF Wires, CrashesExplained, Malformed, Incomplete
<1> QED
  BY <1>3, <1>4, <1>5, <1>7, <1>8 DEF IInv

\* What is left of the invariant when a step builds nothing: nothing is
\* done, connected or reduced that was not.
Built == Keys /\ Graphs /\ Variables /\ Origins /\ Inputs /\ Added /\ Vertexes /\ Heads /\ Wires /\ Reduction

LEMMA NothingBuilt ==
  ASSUME IInv, UNCHANGED <<cfg, dags, gvar>>,
         \A v \in Objects : Inited(v)' => Inited(v),
         \A v \in Functions : IsBlock(v) /\ Inited(v)' => Inited(v),
         \A v \in Objects \cup Functions : Populated(v)' => Populated(v),
         phase' = "init" => DOMAIN dags = {} \/ (phase = "init" /\ left' \subseteq left),
         \A f \in Functions : \A k \in DOMAIN dags : Wired(f, k)' => Wired(f, k),
         \A k \in DOMAIN dags : Reduced(k)' => Reduced(k)
  PROVE  Built'
<1>1. cfg' = cfg /\ dags' = dags /\ gvar' = gvar
  OBVIOUS
<1>2. \A k : Vertices(k)' = Vertices(k) /\ \A x, y : DependsOn(k, x, y)' = DependsOn(k, x, y)
  BY <1>1 DEF Vertices, DependsOn
<1>3. \A k : EdgesIn(k)' = EdgesIn(k)
  BY <1>1, <1>2 DEF EdgesIn
<1>4. Keys /\ Vertexes /\ Heads /\ Graphs /\ Variables /\ Origins
  BY DEF IInv
<1>5. /\ Objects' = Objects /\ Functions' = Functions /\ \A x : Alone(x)' = Alone(x)
      /\ \A v : DagOf(v)' = DagOf(v) /\ OwnGraph(v)' = OwnGraph(v) /\ MainDag(v)' = MainDag(v) /\ IsBlock(v)' = IsBlock(v)
      /\ \A v : Outputs(v)' = Outputs(v)
      /\ \A o, op : GraphOf(o, op)' = GraphOf(o, op)
  BY <1>1, CfgFixed
<1>6. Keys'
  BY <1>1, <1>4, <1>5 DEF Keys
<1>7. Vertexes'
  BY <1>1, <1>2, <1>4, CfgFixed DEF Vertexes
<1>8. Heads'
  <2>1. \A v : FunctionEdges(v)' = FunctionEdges(v)
    BY <1>1, CfgFixed
  <2> QED
    BY <1>1, <1>4, <1>5, <2>1 DEF Heads
<1>9. Graphs'
  BY <1>1, <1>4, <1>5 DEF Graphs
<1>10. Variables'
  <2>1. (\A o \in Objects : Inited(o) => VarsOf(o) \in DOMAIN gvar)'
    BY <1>1, <1>4, <1>5 DEF Variables
  <2>2. (\A o \in Objects : Populated(o) =>
            /\ o.root \in DOMAIN gvar[VarsOf(o)]
            /\ gvar[VarsOf(o)][o.root] = [vertex |-> o.root, index |-> 0, block |-> ""])'
    BY <1>1, <1>4, <1>5 DEF Variables
  <2>3. (\A v \in Functions : Populated(v) =>
            \A x \in Outputs(v) : x \in DOMAIN gvar[VarsOf(v)] /\ gvar[VarsOf(v)][x] = Context(v))'
    BY <1>1, <1>4, <1>5 DEF Variables
  <2>4. (\A f, g \in Functions :
            Populated(f) /\ Populated(g) /\ SameObject(f, g) /\ Outputs(f) \cap Outputs(g) # {} => f = g)'
    <3>1. ASSUME NEW f \in Functions, NEW g \in Functions, Populated(f)', Populated(g)', SameObject(f, g),
                 Outputs(f) \cap Outputs(g) # {}
          PROVE  f = g
      BY <1>4, <3>1 DEF Variables
    <3>2. \A f, g : (Outputs(f) \cap Outputs(g) # {})' <=> Outputs(f) \cap Outputs(g) # {}
      BY <1>5
    <3> QED
      BY <1>5, <3>1, <3>2, Zenon
  <2> QED
    BY <2>1, <2>2, <2>3, <2>4 DEF Variables
<1>11. Added'
  BY <1>1, <1>2, CfgFixed DEF IInv, Added
<1>12. Wires'
  <2> SUFFICES ASSUME NEW f \in Functions, NEW e \in FunctionEdges(f), e[1] \in DOMAIN dags, Wired(f, e[1])'
               PROVE  <<e[2], e[3]>> \in dags[e[1]].edges
    BY <1>1, CfgFixed DEF Wires
  <2>1. Wired(f, e[1]) /\ phase \in {"connect", "reduce"}
    BY DEF Wired
  <2> QED
    BY <2>1 DEF IInv, Wires
<1>13. Reduction'
  BY <1>1, <1>2, <1>3 DEF IInv, Reduction
<1>14. Origins' /\ Inputs'
  BY <1>1, <1>4, <1>5, CfgFixed DEF IInv, Origins, MadeBy, Inputs
<1> QED
  BY <1>6, <1>7, <1>8, <1>9, <1>10, <1>11, <1>12, <1>13, <1>14 DEF Built

-----------------------------------------------------------------------------
(* Steps that build nothing.                                               *)
LEMMA VisitsSame ==
  ASSUME cfg' = cfg, NEW ph, ph = "reduce" => DOMAIN dags' = DOMAIN dags
  PROVE  Visits(ph)' = Visits(ph)
<1>1. /\ Objects' = Objects /\ Functions' = Functions /\ Missing' = Missing
      /\ ServiceVisits' = ServiceVisits /\ ServiceOutputs' = ServiceOutputs
      /\ \A v : Element(v)' = Element(v)
  BY CfgFixed
<1>2. {v \in Functions : Element(v).type = "block"}' = {v \in Functions : Element(v).type = "block"}
  BY <1>1
<1> QED
  BY <1>1, <1>2 DEF Visits

LEMMA QuietVisit ==
  ASSUME IInv, NEW v \in left, UNCHANGED <<cfg, phase, dags, gvar>>, left' = left \ {v},
         result' = {} => result = {},
         phase \in {"validate", "populate", "connect", "external"},
         phase \in {"populate", "connect"} => v \notin Functions,
         phase = "populate" => v \notin Objects
  PROVE  Shape' /\ Built' /\ CrashesExplained'
<1> USE DEF AfterValidate, AfterInit, AfterPopulate, AfterConnect, AfterReduce
<1>1. Shape'
  BY VisitsSame DEF IInv, Shape, Visits
<1>2. Built'
  <2>1. \A x \in Objects : Inited(x)' => Inited(x)
    BY DEF Inited, Done
  <2>2. \A x \in Functions : IsBlock(x) /\ Inited(x)' => Inited(x)
    BY DEF Inited, Done
  <2>3. \A x \in Objects \cup Functions : Populated(x)' => Populated(x)
    BY DEF Populated, Done
  <2>4. \A f \in Functions : \A k \in DOMAIN dags : Wired(f, k)' => Wired(f, k)
    BY DEF Wired
  <2>5. \A k \in DOMAIN dags : Reduced(k)' => Reduced(k)
    BY DEF Reduced
  <2>6. phase' # "init"
    OBVIOUS
  <2> QED
    BY <2>1, <2>2, <2>3, <2>4, <2>5, <2>6, NothingBuilt
<1>3. CrashesExplained'
  BY DEF CrashesExplained
<1> QED
  BY <1>1, <1>2, <1>3

LEMMA ValidateIInv ==
  ASSUME IInv, NEW v \in left, Validate(v)
  PROVE  IInv'
<1> USE DEF AfterValidate, AfterInit, AfterPopulate, AfterConnect, AfterReduce
<1>1. /\ phase = "validate" /\ UNCHANGED <<cfg, phase, dags, gvar>> /\ left' = left \ {v}
      /\ result' = result \cup ValidateErrors(v)
  BY DEF Validate, Visited, built
<1>2. Shape' /\ Built' /\ CrashesExplained'
  BY <1>1, QuietVisit
<1>3. Valid'
  <2> SUFFICES ASSUME NEW x \in Visits("validate"), Validated(x)' PROVE ValidateErrors(x) = {}
    BY <1>1, CfgFixed, VisitsSame DEF Valid
  <2>1. result' = {} /\ x \notin left'
    BY <1>1 DEF Validated, Done
  <2>2. CASE x = v
    BY <1>1, <2>1, <2>2
  <2>3. CASE x # v
    BY <1>1, <2>1, <2>3 DEF IInv, Valid, Validated, Done
  <2> QED
    BY <2>2, <2>3
<1> QED
  BY <1>2, <1>3 DEF IInv, Built

LEMMA ValidKept ==
  ASSUME IInv, cfg' = cfg, \A v \in Visits("validate") : Validated(v)' => Validated(v)
  PROVE  Valid'
BY CfgFixed, VisitsSame DEF IInv, Valid

LEMMA QuietIInv ==
  ASSUME IInv, NEW v \in left, AddService(v) \/ ConnectGvk(v) \/ External(v)
  PROVE  IInv'
<1> USE DEF AfterValidate, AfterInit, AfterPopulate, AfterConnect, AfterReduce
<1>1. /\ UNCHANGED <<cfg, phase, dags, gvar>> /\ left' = left \ {v} /\ result' = result
      /\ phase \in {"populate", "connect", "external"}
  BY DEF AddService, ConnectGvk, External, Visited, built
<1>2. phase \in {"populate", "connect"} => v \notin Functions
  BY Kinds DEF AddService, ConnectGvk, External
<1>3. phase = "populate" => v \notin Objects
  BY Kinds DEF AddService, ConnectGvk, External
<1>4. Shape' /\ Built' /\ CrashesExplained'
  BY <1>1, <1>2, <1>3, QuietVisit
<1>5. Valid'
  BY <1>1, ValidKept DEF Validated
<1> QED
  BY <1>4, <1>5 DEF IInv, Built

-----------------------------------------------------------------------------
(* Phases that end.                                                        *)
LEMMA ProceedIInv ==
  ASSUME IInv, Proceed
  PROVE  IInv'
<1> USE DEF AfterValidate, AfterInit, AfterPopulate, AfterConnect, AfterReduce
<1>1. /\ left = {} /\ result = {} /\ UNCHANGED <<cfg, result, dags, gvar>>
      /\ phase' = NextPhase[phase] /\ left' = Visits(NextPhase[phase])
  BY DEF Proceed, built
<1>2. \/ phase = "validate" /\ phase' = "init"
      \/ phase = "init" /\ phase' = "populate"
      \/ phase = "populate" /\ phase' = "resolve"
      \/ phase = "resolve" /\ phase' = "connect"
      \/ phase = "connect" /\ phase' = "reduce"
      \/ phase = "reduce" /\ phase' = "external"
      \/ phase = "external" /\ phase' = "ready"
  BY <1>1 DEF Proceed, InPhase, NextPhase
<1>3. \A ph \in AfterValidate : Visits(ph)' = Visits(ph)
  BY <1>1, VisitsSame
<1>4. left' = Visits(phase')
  BY <1>1
<1>5. phase = "validate" => DOMAIN dags = {}
  BY DEF IInv, Shape
<1>6. Shape'
  <2>1. PICK ph \in AfterValidate : phase' = ph /\ left' = Visits(ph)
    BY <1>2, <1>4
  <2>2. left' = Visits(ph)'
    BY <1>3, <2>1
  <2>3. (left \subseteq Visits(phase))'
    BY <2>1, <2>2
  <2> QED
    BY <1>1, <1>2, <1>5, <2>3 DEF IInv, Shape, NextPhase
<1>7. Valid'
  <2>1. \A v \in Visits("validate") : Validated(v)' => Validated(v)
    BY <1>1, <1>2 DEF Validated, Done
  <2> QED
    BY <1>1, <2>1, ValidKept
<1>8. Built'
  <2>1. \A v \in Objects : Inited(v)' => Inited(v)
    BY <1>1, <1>2, <1>4 DEF Inited, Done, Visits
  <2>2. \A v \in Functions : IsBlock(v) /\ Inited(v)' => Inited(v)
    BY <1>1, <1>2, <1>4 DEF Inited, Done, Visits, IsBlock
  <2>3. \A v \in Objects \cup Functions : Populated(v)' => Populated(v)
    BY <1>1, <1>2, <1>4 DEF Populated, Done, Visits
  <2>4. \A f \in Functions : \A k \in DOMAIN dags : Wired(f, k)' => Wired(f, k)
    BY <1>1, <1>2, <1>4 DEF Wired, Visits
  <2>5. \A k \in DOMAIN dags : Reduced(k)' => Reduced(k)
    BY <1>1, <1>2, <1>4 DEF Reduced, Visits
  <2>6. phase' = "init" => DOMAIN dags = {} \/ (phase = "init" /\ left' \subseteq left)
    BY <1>2, <1>5
  <2>7. UNCHANGED <<cfg, dags, gvar>>
    BY <1>1
  <2> QED
    BY <2>7, <2>1, <2>2, <2>3, <2>4, <2>5, <2>6, NothingBuilt
<1>9. CrashesExplained'
  BY <1>2 DEF CrashesExplained
<1> QED
  BY <1>6, <1>7, <1>8, <1>9 DEF IInv, Built

LEMMA EndIInv ==
  ASSUME IInv, phase' \in {"refused", "crashed"}, left' = {}, UNCHANGED <<cfg, dags, gvar>>,
         phase' = "crashed" => CrashesExplained'
  PROVE  IInv'
<1> USE DEF AfterValidate, AfterInit, AfterPopulate, AfterConnect, AfterReduce
<1>1. Shape'
  BY DEF IInv, Shape
<1>2. \A v : /\ ~Validated(v)' /\ ~Inited(v)' /\ ~Populated(v)' /\ ~Reduced(v)'
             /\ \A k : ~Wired(v, k)'
  BY DEF Validated, Inited, Populated, Done, Wired, Reduced
<1>3. Valid'
  BY <1>2, ValidKept
<1>4. Built'
  BY <1>2, NothingBuilt
<1>5. CrashesExplained'
  BY DEF CrashesExplained
<1> QED
  BY <1>1, <1>3, <1>4, <1>5 DEF IInv, Built

\* Whatever stops the parser is in the configuration, or is a cycle.
Explained == Malformed \/ \E k \in DOMAIN dags : ~Acyclic(EdgesIn(k))

LEMMA CrashReason ==
  ASSUME IInv, NEW v \in left, Crashes(v)
  PROVE  Explained
<1> USE DEF AfterValidate, AfterInit, AfterPopulate, AfterConnect, AfterReduce
<1>1. v \in Visits(phase) /\ cfg \in Configs
  BY DEF IInv, Shape
<1>2. phase \in AfterValidate => AllValid
  BY DEF IInv, Valid, Validated, AllValid, Visits
<1>3. CASE phase = "validate"
  <2>1. ValidateCrashes(v)
    BY <1>3 DEF Crashes
  <2>2. CASE v \in ServiceVisits
    <3>1. v \notin Objects /\ v \notin Missing /\ v.root \in DOMAIN cfg.services
      BY <2>2, Kinds DEF ServiceVisits
    <3>2. cfg.services[v.root].type = Nil \/ NilOutput(cfg.services[v.root])
      BY <2>1, <2>2, <3>1 DEF ValidateCrashes
    <3> QED
      BY <3>1, <3>2 DEF Explained, Malformed, Incomplete
  <2>3. CASE v \in Objects
    <3>1. v \notin ServiceVisits /\ v \notin Missing
      BY <2>3, Kinds
    <3>2. Obj(v).resource = Nil
      BY <2>1, <2>3, <3>1 DEF ValidateCrashes
    <3> QED
      BY <2>3, <3>2 DEF Explained, Malformed, Incomplete
  <2>4. CASE v \in Missing
    <3>1. v \notin ServiceVisits /\ v \notin Objects
      BY <2>4, Kinds
    <3>2. cfg.nilPipeline
      BY <2>1, <2>4, <3>1 DEF ValidateCrashes
    <3> QED
      BY <2>4, <3>2 DEF Explained, Malformed, Incomplete
  <2>5. CASE v \in Functions
    <3>1. v \notin ServiceVisits /\ v \notin Objects /\ v \notin Missing
      BY <1>1, <2>5, Kinds, FunctionPath
    <3>2. LeftOut(Element(v))
      BY <2>1, <3>1 DEF ValidateCrashes, LeftOut
    <3> QED
      BY <2>5, <3>2 DEF Explained, Malformed, Incomplete
  <2> QED
    BY <1>1, <1>3, <2>2, <2>3, <2>4, <2>5 DEF Visits
<1>4. CASE phase = "populate" /\ v.op # "none"
  <2>1. v \in Functions
    BY <1>1, <1>4, Kinds DEF Visits
  <2>2. PICK k \in Targets(v) : k \notin DOMAIN dags
    BY <1>4 DEF Crashes
  <2>3. SUFFICES ASSUME HasGraph(v.fow, v.op), \A u \in Functions : IsBlock(u) => Alone(ObjectOf(u)) PROVE FALSE
    BY <2>1 DEF Explained, Malformed, Unchecked
  <2>4. \A x : Inited(x)
    BY <1>4 DEF Inited
  <2>5. Graphs
    BY DEF IInv
  <2>6. MainDag(v) \in DOMAIN dags
    <3>1. GraphOf(ObjectOf(v), v.op) = MainDag(v) /\ ObjectOf(v) \in Objects /\ v.op \in Ops
      BY <2>1, FunctionShape DEF GraphOf, MainDag, BlockDag, ObjectOf
    <3>2. ObjectOf(v).fow = v.fow
      BY DEF ObjectOf
    <3> QED
      BY <2>3, <2>4, <2>5, <3>1, <3>2 DEF Graphs
  <2>7. \A u \in Functions : IsBlock(u) => OwnGraph(u) \in DOMAIN dags
    BY <2>3, <2>4, <2>5 DEF Graphs
  <2>8. DagOf(v) \in DOMAIN dags
    <3>1. CASE BlockIndex(v) = 0
      <4>1. BlockVertexName(v) = ""
        <5>1. ~(BlockIndex(v) > 0)
          BY <3>1
        <5> QED
          BY <1>1, <2>1, <5>1, FunctionName
      <4> QED
        BY <2>6, <4>1 DEF DagOf, MainDag
    <3>2. CASE BlockIndex(v) # 0
      BY <1>1, <1>2, <1>4, <2>1, <2>7, <3>2, Member
    <3> QED
      BY <3>1, <3>2
  <2>9. OwnDag(v) \subseteq DOMAIN dags
    BY <2>1, <2>7 DEF OwnDag, OwnGraph
  <2> QED
    BY <2>2, <2>8, <2>9 DEF Targets
<1>5. CASE phase = "connect" /\ v.op # "none"
  <2>1. v \in Functions
    BY <1>1, <1>5, Kinds DEF Visits
  <2>2. <<>> \in References(v)
    BY <1>5 DEF Crashes
  <2> QED
    BY <2>1, <2>2 DEF Explained, Malformed, Unchecked
<1>6. CASE phase = "reduce"
  BY <1>1, <1>6 DEF Explained, Crashes, Visits, EdgesIn
<1>7. CASE phase = "external" /\ v.op # "none"
  <2>1. v \in Functions
    BY <1>1, <1>7, Kinds DEF Visits
  <2>2. BadGVK \in FunctionGvks(Element(v))
    BY <1>7 DEF Crashes
  <2>3. Element(v).hasInput /\ Element(v).resource = BadGVK
    BY <1>1, <1>2, <1>7, <2>1, <2>2, ValidFunction DEF FunctionGvks
  <2>4. Element(v).hasOutput
    BY <1>7, <2>1, <2>3 DEF IInv, Inputs, Populated, InputChecked
  <2> QED
    BY <1>1, <1>2, <1>7, <2>1, <2>3, <2>4, ValidFunction DEF Explained, Malformed, Unchecked, UncheckedInput
<1> QED
  BY <1>3, <1>4, <1>5, <1>6, <1>7 DEF Crashes

LEMMA CrashIInv ==
  ASSUME IInv, NEW v \in left, Crashes(v), Crash(v)
  PROVE  IInv'
<1>1. phase' = "crashed" /\ left' = {} /\ UNCHANGED <<cfg, dags, gvar>>
  BY DEF Crash, built
<1>2. Explained
  BY CrashReason
<1>3. Malformed' = Malformed /\ dags' = dags
  BY <1>1, CfgFixed
<1>4. CrashesExplained'
  BY <1>2, <1>3 DEF Explained, CrashesExplained, EdgesIn, Vertices
<1> QED
  BY <1>1, <1>4, EndIInv

LEMMA StillIInv ==
  ASSUME IInv, Refuse \/ UNCHANGED vars
  PROVE  IInv'
<1>1. CASE Refuse
  <2>1. phase' = "refused" /\ left' = {} /\ UNCHANGED <<cfg, dags, gvar>>
    BY <1>1 DEF Refuse, built
  <2> QED
    BY <2>1, EndIInv
<1>2. CASE UNCHANGED vars
  <2>1. UNCHANGED <<cfg, phase, left, result, dags, gvar>>
    BY <1>2 DEF vars, built
  <2>2. \A v : /\ Validated(v)' = Validated(v) /\ Inited(v)' = Inited(v) /\ Populated(v)' = Populated(v)
               /\ Reduced(v)' = Reduced(v) /\ \A k : Wired(v, k)' = Wired(v, k)
    BY <2>1 DEF Validated, Inited, Populated, Reduced, Wired, Done
  <2>3. Shape'
    BY <2>1, VisitsSame DEF IInv, Shape
  <2>4. Valid'
    BY <2>1, <2>2, ValidKept
  <2>5. Built'
    BY <2>1, <2>2, NothingBuilt
  <2>6. CrashesExplained'
    BY <2>1, CfgFixed DEF IInv, CrashesExplained, Vertices
  <2> QED
    BY <2>3, <2>4, <2>5, <2>6 DEF IInv, Built
<1> QED
  BY <1>1, <1>2

-----------------------------------------------------------------------------
(* init.                                                                   *)
LEMMA Tuple4 ==
  ASSUME NEW a, NEW b, NEW c, NEW d, NEW e, NEW f, NEW g, NEW h, <<a, b, c, d>> = <<e, f, g, h>>
  PROVE  a = e /\ b = f /\ c = g /\ d = h
OBVIOUS

\* The graph of a block is nobody else's.
LEMMA OwnGraphs ==
  ASSUME cfg \in Configs, NEW v \in Functions
  PROVE  /\ \A o, op : OwnGraph(v) # GraphOf(o, op)
         /\ \A u \in Functions : OwnGraph(u) = OwnGraph(v) =>
              VertexName(u) = VertexName(v) /\ MainDag(u) = MainDag(v)
         /\ OwnGraph(v)[1] = v.fow /\ OwnGraph(v)[2] = Obj(v).resource /\ OwnGraph(v)[4] = VertexName(v)
         /\ MainDag(v)[1] = v.fow /\ MainDag(v)[2] = Obj(v).resource
         /\ MainDag(v) = GraphOf(ObjectOf(v), v.op)
<1>1. VertexName(v) # ""
  BY FunctionName
<1>2. \A o, op : OwnGraph(v) # GraphOf(o, op)
  BY <1>1, Tuple4 DEF OwnGraph, BlockDag, GraphOf
<1>3. \A u \in Functions : OwnGraph(u) = OwnGraph(v) =>
        VertexName(u) = VertexName(v) /\ MainDag(u) = MainDag(v)
  BY Tuple4 DEF OwnGraph, MainDag, BlockDag
<1>4. /\ OwnGraph(v)[1] = v.fow /\ OwnGraph(v)[2] = Obj(v).resource /\ OwnGraph(v)[4] = VertexName(v)
      /\ MainDag(v)[1] = v.fow /\ MainDag(v)[2] = Obj(v).resource
  BY DEF OwnGraph, MainDag, BlockDag
<1>5. MainDag(v) = GraphOf(ObjectOf(v), v.op)
  BY FunctionShape DEF MainDag, BlockDag, GraphOf, ObjectOf
<1> QED
  BY <1>2, <1>3, <1>4, <1>5

LEMMA NewGraph ==
  ASSUME NEW r
  PROVE  /\ IsGraph(NewDAG(r)) /\ NewDAG(r).root = r /\ NewDAG(r).edges = {}
         /\ DOMAIN NewDAG(r).kind = {} /\ IsFiniteSet(DOMAIN NewDAG(r).kind)
<1>1. DOMAIN NewDAG(r).kind = {}
  BY DEF NewDAG
<1> QED
  BY <1>1, FS_EmptySet DEF NewDAG, IsGraph

LEMMA InitStep ==
  ASSUME IInv, phase = "init", UNCHANGED <<cfg, phase>>, left' \subseteq left,
         \A k \in DOMAIN dags' : \/ k \in DOMAIN dags /\ dags'[k] = dags[k]
                                 \/ \E r : dags'[k] = NewDAG(r),
         \A o \in Objects : Inited(o)' => VarsOf(o) \in DOMAIN gvar',
         Keys', Graphs', Origins'
  PROVE  IInv'
<1> USE DEF AfterValidate, AfterInit, AfterPopulate, AfterConnect, AfterReduce
<1>1. \A k \in DOMAIN dags' : /\ IsGraph(dags'[k]) /\ IsFiniteSet(DOMAIN dags'[k].kind)
                              /\ DOMAIN dags'[k].kind = {} /\ dags'[k].edges = {}
  BY NewGraph DEF IInv, Shape
<1>2. Shape'
  BY <1>1, VisitsSame DEF IInv, Shape, IsGraph
<1>3. \A v : ~Populated(v)' /\ ~Reduced(v)'
  BY DEF Populated, Reduced, Done
<1>4. Variables'
  BY <1>3, CfgFixed DEF Variables
<1>5. Added' /\ Inputs' /\ Reduction'
  BY <1>3, CfgFixed DEF Added, Inputs, Reduction
<1>6. Vertexes' /\ Heads'
  BY <1>1 DEF Vertexes, Heads, Vertices
<1>7. Wires' /\ CrashesExplained'
  BY DEF Wires, CrashesExplained
<1>8. Valid'
  BY ValidKept DEF Validated
<1> QED
  BY <1>2, <1>4, <1>5, <1>6, <1>7, <1>8 DEF IInv

LEMMA InitGvkIInv ==
  ASSUME IInv, NEW o \in left, InitGvk(o)
  PROVE  IInv'
<1> USE DEF AfterValidate, AfterInit, AfterPopulate, AfterConnect, AfterReduce
<1>1. /\ phase = "init" /\ o.op = "none" /\ UNCHANGED <<cfg, phase>> /\ left' = left \ {o} /\ result' = result
      /\ dags' = AddDAGs(o) /\ gvar' = Keep(gvar, {VarsOf(o)}, <<>>)
  BY DEF InitGvk, Visited
<1>2. o \in Objects /\ cfg \in Configs
  BY <1>1, Kinds DEF IInv, Shape, Visits
<1> DEFINE ops == CASE o.fow = "for" -> Ops [] o.fow = "watch" -> {"apply"} [] OTHER -> {}
           new  == {<<o.fow, Obj(o).resource, op, "">> : op \in ops}
           kept == {k \in DOMAIN dags : ~(k[1] = o.fow /\ k[2] = Obj(o).resource)}
<1>3. /\ DOMAIN dags' = kept \cup new
      /\ \A k \in new : dags'[k] = NewDAG(o.root)
      /\ \A k \in kept : k \notin new => dags'[k] = dags[k]
  BY <1>1 DEF AddDAGs
<1>4. /\ \A k \in new : (\E op \in Ops : k = GraphOf(o, op)) /\ k[1] = o.fow /\ k[2] = Obj(o).resource
      /\ \A op \in Ops : HasGraph(o.fow, op) => GraphOf(o, op) \in new
  <2>1. ops \subseteq Ops /\ \A op \in Ops : HasGraph(o.fow, op) => op \in ops
    BY DEF Ops, HasGraph
  <2> HIDE DEF ops
  <2>2. new = {GraphOf(o, op) : op \in ops}
    BY DEF GraphOf
  <2>3. \A op : GraphOf(o, op)[1] = o.fow /\ GraphOf(o, op)[2] = Obj(o).resource
    BY DEF GraphOf
  <2> HIDE DEF new
  <2> QED
    BY <2>1, <2>2, <2>3
<1>5. \A k \in kept : k \notin new
  BY <1>4
<1> HIDE DEF new
<1>6. /\ Objects' = Objects /\ Functions' = Functions /\ \A x : Alone(x)' = Alone(x)
      /\ \A x : OwnGraph(x)' = OwnGraph(x) /\ MainDag(x)' = MainDag(x) /\ IsBlock(x)' = IsBlock(x)
      /\ \A x, op : GraphOf(x, op)' = GraphOf(x, op)
  BY <1>1, CfgFixed
<1>7. Keys'
  <2> SUFFICES ASSUME NEW k \in DOMAIN dags'
               PROVE  \/ \E p \in Objects, op \in Ops : k = GraphOf(p, op)
                      \/ \E v \in Functions : IsBlock(v) /\ k = OwnGraph(v) /\ MainDag(v) \in DOMAIN dags'
    BY <1>1, CfgFixed DEF Keys
  <2>1. CASE k \in new
    BY <1>2, <1>4, <2>1
  <2>2. CASE k \in kept /\ \E v \in Functions : IsBlock(v) /\ k = OwnGraph(v) /\ MainDag(v) \in DOMAIN dags
    <3>1. PICK v \in Functions : IsBlock(v) /\ k = OwnGraph(v) /\ MainDag(v) \in DOMAIN dags
      BY <2>2
    <3>2. MainDag(v) \in kept
      BY <1>2, <2>2, <3>1, OwnGraphs
    <3> QED
      BY <1>3, <3>1, <3>2
  <2> QED
    BY <1>3, <2>1, <2>2 DEF IInv, Keys
<1>8. Graphs'
  <2> SUFFICES /\ \A p \in Objects, op \in Ops :
                     /\ Alone(p) /\ GraphOf(p, op) \in DOMAIN dags' =>
                           dags'[GraphOf(p, op)].root = p.root /\ p \notin left'
                     /\ Inited(p)' /\ HasGraph(p.fow, op) => GraphOf(p, op) \in DOMAIN dags'
               /\ \A v \in Functions : Alone(ObjectOf(v)) /\ IsBlock(v) /\ Inited(v)' => OwnGraph(v) \in DOMAIN dags'
    BY <1>1, <1>6 DEF Graphs
  <2>1. \A p \in Objects : Alone(p) /\ p.fow = o.fow /\ Obj(p).resource = Obj(o).resource => p = o
    BY <1>2 DEF Alone
  <2>2. \A p \in Objects, op \in Ops : GraphOf(p, op)[1] = p.fow /\ GraphOf(p, op)[2] = Obj(p).resource
    BY DEF GraphOf
  <2>3. ASSUME NEW p \in Objects, NEW op \in Ops, Alone(p), GraphOf(p, op) \in DOMAIN dags'
        PROVE  dags'[GraphOf(p, op)].root = p.root /\ p \notin left'
    <3>1. CASE GraphOf(p, op) \in new
      BY <1>1, <1>3, <1>4, <2>1, <2>2, <2>3, <3>1, NewGraph
    <3>2. CASE GraphOf(p, op) \in kept
      BY <1>1, <1>3, <1>5, <2>3, <3>2 DEF IInv, Graphs
    <3> QED
      BY <1>3, <2>3, <3>1, <3>2
  <2>4. ASSUME NEW p \in Objects, NEW op \in Ops, Inited(p)', HasGraph(p.fow, op)
        PROVE  GraphOf(p, op) \in DOMAIN dags'
    <3>1. CASE p = o
      BY <1>3, <1>4, <2>4, <3>1
    <3>2. CASE p # o
      <4>1. Inited(p)
        BY <1>1, <2>4, <3>2 DEF Inited, Done
      <4>2. GraphOf(p, op) \in DOMAIN dags
        BY <2>4, <4>1 DEF IInv, Graphs
      <4>3. CASE p.fow = o.fow /\ Obj(p).resource = Obj(o).resource
        BY <1>3, <1>4, <2>4, <4>3 DEF GraphOf
      <4>4. CASE ~(p.fow = o.fow /\ Obj(p).resource = Obj(o).resource)
        BY <1>3, <2>2, <4>2, <4>4
      <4> QED
        BY <4>3, <4>4
    <3> QED
      BY <3>1, <3>2
  <2>5. ASSUME NEW v \in Functions, Alone(ObjectOf(v)), IsBlock(v), Inited(v)'
        PROVE  OwnGraph(v) \in DOMAIN dags'
    <3>1. v # o
      BY <1>2, Kinds
    <3>2. Inited(v)
      BY <1>1, <2>5, <3>1 DEF Inited, Done
    <3>3. OwnGraph(v) \in DOMAIN dags
      BY <2>5, <3>2 DEF IInv, Graphs
    <3>4. MainDag(v) \in DOMAIN dags
      BY <1>2, <3>3, OwnGraphs DEF IInv, Keys
    <3>5. ObjectOf(v) \in Objects /\ ObjectOf(v) \notin left
      BY <1>1, <1>2, <2>5, <3>4, OwnGraphs, FunctionShape DEF IInv, Graphs
    <3>6. ~(v.fow = o.fow /\ Obj(v).resource = Obj(o).resource)
      BY <2>1, <2>5, <3>5, FunctionShape DEF ObjectOf
    <3> QED
      BY <1>2, <1>3, <3>3, <3>6, OwnGraphs
  <2> QED
    BY <2>3, <2>4, <2>5
<1>9. \A p \in Objects : Inited(p)' => VarsOf(p) \in DOMAIN gvar'
  <2> SUFFICES ASSUME NEW p \in Objects, Inited(p)' PROVE VarsOf(p) \in DOMAIN gvar'
    OBVIOUS
  <2>1. DOMAIN gvar' = DOMAIN gvar \cup {VarsOf(o)}
    BY <1>1 DEF Keep
  <2>2. p # o => Inited(p)
    BY <1>1 DEF Inited, Done
  <2> QED
    BY <2>1, <2>2 DEF IInv, Variables
<1>10. Origins'
  <2>1. \A y \in DOMAIN gvar' : (y \in DOMAIN gvar /\ gvar'[y] = gvar[y]) \/ gvar'[y] = <<>>
    BY <1>1 DEF Keep
  <2>2. \A p, x, info : MadeBy(p, x, info)' <=> MadeBy(p, x, info)
    BY <1>1, MadeBySame
  <2> QED
    BY <1>6, <2>1, <2>2 DEF IInv, Origins
<1> QED
  BY <1>1, <1>3, <1>5, <1>7, <1>8, <1>9, <1>10, InitStep

LEMMA InitFunctionBlockIInv ==
  ASSUME IInv, NEW v \in left, InitFunctionBlock(v)
  PROVE  IInv'
<1> USE DEF AfterValidate, AfterInit, AfterPopulate, AfterConnect, AfterReduce
<1> DEFINE adds == HasBlock(Element(v)) /\ MainDag(v) \in DOMAIN dags
<1>1. /\ phase = "init" /\ v.op # "none" /\ UNCHANGED <<cfg, phase>> /\ left' = left \ {v}
      /\ dags' = IF adds THEN Put(dags, {OwnGraph(v)}, NewDAG("")) ELSE dags
      /\ gvar' = gvar
      /\ result' = result \cup (FunctionBlockErrors(v) \cup Err(HasBlock(Element(v)) /\ ~adds, "no dag context"))
  BY DEF InitFunctionBlock, Visited, OwnGraph
<1>2. v \in Functions /\ IsBlock(v) /\ cfg \in Configs
  BY <1>1, Kinds DEF IInv, Shape, Visits, IsBlock
<1>3. result' = {} => adds /\ result = {}
  BY <1>1 DEF Err, FunctionBlockErrors
<1>4. /\ DOMAIN dags \subseteq DOMAIN dags' /\ DOMAIN dags' \subseteq DOMAIN dags \cup {OwnGraph(v)}
      /\ adds => OwnGraph(v) \in DOMAIN dags'
      /\ \A k \in DOMAIN dags : k # OwnGraph(v) => dags'[k] = dags[k]
      /\ OwnGraph(v) \in DOMAIN dags' =>
            dags'[OwnGraph(v)] = NewDAG("") \/ (OwnGraph(v) \in DOMAIN dags /\ dags' = dags)
      /\ DOMAIN dags' # DOMAIN dags => adds
  BY <1>1 DEF Put
<1>5. \A k \in DOMAIN dags' : \/ k \in DOMAIN dags /\ dags'[k] = dags[k]
                              \/ \E r : dags'[k] = NewDAG(r)
  BY <1>4
<1>6. /\ Objects' = Objects /\ Functions' = Functions /\ \A x : Alone(x)' = Alone(x)
      /\ \A x : OwnGraph(x)' = OwnGraph(x) /\ MainDag(x)' = MainDag(x) /\ IsBlock(x)' = IsBlock(x)
      /\ \A x, op : GraphOf(x, op)' = GraphOf(x, op)
  BY <1>1, CfgFixed
<1>7. Keys'
  <2> SUFFICES ASSUME NEW k \in DOMAIN dags'
               PROVE  \/ \E p \in Objects, op \in Ops : k = GraphOf(p, op)
                      \/ \E u \in Functions : IsBlock(u) /\ k = OwnGraph(u) /\ MainDag(u) \in DOMAIN dags'
    BY <1>6 DEF Keys
  <2>1. CASE k \in DOMAIN dags
    BY <1>4, <2>1 DEF IInv, Keys
  <2>2. CASE k \notin DOMAIN dags
    BY <1>2, <1>4, <2>2
  <2> QED
    BY <2>1, <2>2
<1>8. Graphs'
  <2> SUFFICES /\ \A p \in Objects, op \in Ops :
                     /\ Alone(p) /\ GraphOf(p, op) \in DOMAIN dags' =>
                           dags'[GraphOf(p, op)].root = p.root /\ p \notin left'
                     /\ Inited(p)' /\ HasGraph(p.fow, op) => GraphOf(p, op) \in DOMAIN dags'
               /\ \A u \in Functions : Alone(ObjectOf(u)) /\ IsBlock(u) /\ Inited(u)' => OwnGraph(u) \in DOMAIN dags'
    BY <1>1, <1>6 DEF Graphs
  <2>1. \A p \in Objects, op \in Ops : GraphOf(p, op) # OwnGraph(v)
    BY <1>2, OwnGraphs
  <2>2. \A x : x # v /\ Inited(x)' => Inited(x)
    BY <1>1, <1>3 DEF Inited, Done
  <2>3. Inited(v)' => adds
    BY <1>1, <1>3 DEF Inited, Done
  <2>4. \A p \in Objects : p # v
    BY <1>2, Kinds
  <2>5. Graphs
    BY DEF IInv
  <2> QED
    BY <1>1, <1>4, <2>1, <2>2, <2>3, <2>4, <2>5 DEF Graphs
<1>9. \A p \in Objects : Inited(p)' => VarsOf(p) \in DOMAIN gvar'
  BY <1>1, <1>2, <1>3, Kinds DEF IInv, Variables, Inited, Done
<1>10. Origins'
  BY <1>1, CfgFixed DEF IInv, Origins, MadeBy
<1> QED
  BY <1>1, <1>5, <1>7, <1>8, <1>9, <1>10, InitStep

-----------------------------------------------------------------------------
(* populate.                                                               *)
LEMMA VerticesAdded ==
  ASSUME \A k \in DOMAIN dags : IsGraph(dags[k]) /\ IsFiniteSet(DOMAIN dags[k].kind),
         NEW keys, NEW name, NEW roots, AddVertices(keys, name, roots)
  PROVE  /\ DOMAIN dags' = DOMAIN dags
         /\ \A k \in DOMAIN dags :
               /\ IsGraph(dags'[k]) /\ IsFiniteSet(DOMAIN dags'[k].kind)
               /\ dags'[k].root = dags[k].root /\ dags'[k].edges = dags[k].edges
               /\ DOMAIN dags'[k].kind = DOMAIN dags[k].kind \cup (IF k \in keys THEN {name} ELSE {})
               /\ \A x \in DOMAIN dags[k].kind : dags'[k].kind[x] = dags[k].kind[x]
               /\ k \in keys /\ name \notin DOMAIN dags[k].kind =>
                     dags'[k].kind[name] = IF k \in roots THEN "root" ELSE "function"
<1>1. /\ DOMAIN dags' = DOMAIN dags
      /\ \A k \in DOMAIN dags : dags'[k] =
           IF k \in keys THEN AddVertex(dags[k], name, IF k \in roots THEN "root" ELSE "function") ELSE dags[k]
  BY DEF AddVertices
<1> SUFFICES ASSUME NEW k \in DOMAIN dags
             PROVE  /\ IsGraph(dags'[k]) /\ IsFiniteSet(DOMAIN dags'[k].kind)
                    /\ dags'[k].root = dags[k].root /\ dags'[k].edges = dags[k].edges
                    /\ DOMAIN dags'[k].kind = DOMAIN dags[k].kind \cup (IF k \in keys THEN {name} ELSE {})
                    /\ \A x \in DOMAIN dags[k].kind : dags'[k].kind[x] = dags[k].kind[x]
                    /\ k \in keys /\ name \notin DOMAIN dags[k].kind =>
                          dags'[k].kind[name] = IF k \in roots THEN "root" ELSE "function"
  BY <1>1
<1>2. CASE k \notin keys
  BY <1>1, <1>2
<1>3. CASE k \in keys
  <2> DEFINE kind == IF k \in roots THEN "root" ELSE "function"
             d == dags[k]
  <2>1. d = [root |-> d.root, kind |-> d.kind, refs |-> d.refs, edges |-> d.edges]
    BY DEF IsGraph
  <2>2. dags'[k] = [d EXCEPT !.kind = Keep(d.kind, {name}, kind), !.refs = Keep(d.refs, {name}, {})]
    BY <1>1, <1>3 DEF AddVertex
  <2>3. dags'[k] = [root |-> d.root, kind |-> Keep(d.kind, {name}, kind),
                    refs |-> Keep(d.refs, {name}, {}), edges |-> d.edges]
    BY <2>1, <2>2
  <2>4. /\ IsGraph(dags'[k]) /\ dags'[k].root = d.root /\ dags'[k].edges = d.edges
        /\ dags'[k].kind = Keep(d.kind, {name}, kind)
    BY <2>3 DEF IsGraph
  <2>5. /\ DOMAIN dags'[k].kind = DOMAIN d.kind \cup {name}
        /\ \A x \in DOMAIN d.kind : dags'[k].kind[x] = d.kind[x]
        /\ name \notin DOMAIN d.kind => dags'[k].kind[name] = kind
    BY <2>4 DEF Keep
  <2>6. IsFiniteSet(DOMAIN d.kind \cup {name})
    BY FS_AddElement
  <2> QED
    BY <1>3, <2>4, <2>5, <2>6
<1> QED
  BY <1>2, <1>3

LEMMA VariablesAdded ==
  ASSUME NEW w \in DOMAIN gvar, NEW names, NEW ctx, gvar' = [gvar EXCEPT ![w] = Keep(@, names, ctx)]
  PROVE  /\ DOMAIN gvar' = DOMAIN gvar
         /\ \A y \in DOMAIN gvar : \A x \in DOMAIN gvar[y] : x \in DOMAIN gvar'[y] /\ gvar'[y][x] = gvar[y][x]
         /\ \A x \in names : x \in DOMAIN gvar'[w]
         /\ \A x \in names : x \notin DOMAIN gvar[w] => gvar'[w][x] = ctx
<1>1. gvar'[w] = Keep(gvar[w], names, ctx) /\ \A y \in DOMAIN gvar : y # w => gvar'[y] = gvar[y]
  OBVIOUS
<1>2. DOMAIN gvar' = DOMAIN gvar
  OBVIOUS
<1> QED
  BY <1>1, <1>2 DEF Keep

LEMMA OriginsAdded ==
  ASSUME IInv, cfg' = cfg, NEW w \in DOMAIN gvar, NEW names, NEW ctx, gvar' = [gvar EXCEPT ![w] = Keep(@, names, ctx)],
         \A o \in Objects : VarsOf(o) = w => \A x \in names : MadeBy(o, x, ctx)
  PROVE  Origins'
<1>1. Objects' = Objects /\ \A o, x, info : MadeBy(o, x, info)' <=> MadeBy(o, x, info)
  BY CfgFixed, MadeBySame
<1>2. DOMAIN gvar' = DOMAIN gvar /\ \A y \in DOMAIN gvar : y # w => gvar'[y] = gvar[y]
  OBVIOUS
<1>3. \A x \in DOMAIN gvar'[w] : (x \in DOMAIN gvar[w] /\ gvar'[w][x] = gvar[w][x]) \/ (x \in names /\ gvar'[w][x] = ctx)
  <2>1. gvar'[w] = Keep(gvar[w], names, ctx)
    OBVIOUS
  <2> QED
    BY <2>1 DEF Keep
<1>4. ASSUME NEW o \in Objects, VarsOf(o) \in DOMAIN gvar, NEW x \in DOMAIN gvar'[VarsOf(o)]
      PROVE  MadeBy(o, x, gvar'[VarsOf(o)][x])
  <2>1. CASE VarsOf(o) # w
    BY <1>2, <1>4, <2>1 DEF IInv, Origins
  <2>2. CASE VarsOf(o) = w
    BY <1>3, <1>4, <2>2 DEF IInv, Origins
  <2> QED
    BY <2>1, <2>2
<1> QED
  BY <1>1, <1>2, <1>4 DEF Origins

LEMMA PopulateStep ==
  ASSUME IInv, phase = "populate", UNCHANGED <<cfg, phase>>, left' \subseteq left,
         NEW keys, NEW name, NEW roots, AddVertices(keys, name, roots),
         \A k \in keys : \/ \E o \in Objects, op \in Ops : k = GraphOf(o, op) /\ name = o.root
                         \/ \E u \in Functions : k \in Targets(u) /\ name = VertexName(u)
                               /\ (IF k \in roots THEN "root" ELSE "function") = KindIn(u, k)
  PROVE  Shape' /\ Valid' /\ Keys' /\ Graphs' /\ Vertexes' /\ Heads' /\ Wires' /\ Reduction' /\ CrashesExplained'
<1> USE DEF AfterValidate, AfterInit, AfterPopulate, AfterConnect, AfterReduce
<1>1. Shape /\ Keys /\ Graphs /\ Vertexes /\ cfg' = cfg
  BY DEF IInv, Shape
<1>2. \A k \in DOMAIN dags : IsGraph(dags[k]) /\ IsFiniteSet(DOMAIN dags[k].kind) /\ dags[k].edges = {}
  BY <1>1 DEF Shape
<1>3. /\ DOMAIN dags' = DOMAIN dags
      /\ \A k \in DOMAIN dags :
            /\ IsGraph(dags'[k]) /\ IsFiniteSet(DOMAIN dags'[k].kind)
            /\ dags'[k].root = dags[k].root /\ dags'[k].edges = dags[k].edges
            /\ DOMAIN dags'[k].kind = DOMAIN dags[k].kind \cup (IF k \in keys THEN {name} ELSE {})
            /\ \A x \in DOMAIN dags[k].kind : dags'[k].kind[x] = dags[k].kind[x]
            /\ k \in keys /\ name \notin DOMAIN dags[k].kind =>
                  dags'[k].kind[name] = IF k \in roots THEN "root" ELSE "function"
  BY <1>2, VerticesAdded
<1>4. /\ Objects' = Objects /\ Functions' = Functions /\ \A x : Alone(x)' = Alone(x)
      /\ \A x : OwnGraph(x)' = OwnGraph(x) /\ MainDag(x)' = MainDag(x) /\ IsBlock(x)' = IsBlock(x)
      /\ \A x : Targets(x)' = Targets(x)
      /\ \A x, k : KindIn(x, k)' = KindIn(x, k)
      /\ \A x, op : GraphOf(x, op)' = GraphOf(x, op)
  BY CfgFixed
<1>5. Shape'
  <2>1. Visits("populate")' = Visits("populate")
    BY VisitsSame
  <2> QED
    BY <1>1, <1>2, <1>3, <2>1 DEF Shape, IsGraph
<1>6. Valid'
  BY ValidKept DEF Validated
<1>7. Keys'
  BY <1>1, <1>3, <1>4 DEF Keys
<1>8. Graphs'
  BY <1>1, <1>3, <1>4 DEF Graphs, Inited
<1>9. Vertexes'
  <2> SUFFICES ASSUME NEW k \in DOMAIN dags, NEW x \in DOMAIN dags'[k].kind
               PROVE  \/ \E o \in Objects, op \in Ops : k = GraphOf(o, op) /\ x = o.root
                      \/ \E v \in Functions : k \in Targets(v) /\ x = VertexName(v) /\ dags'[k].kind[x] = KindIn(v, k)
    BY <1>3, <1>4 DEF Vertexes, Vertices
  <2>1. CASE x \in DOMAIN dags[k].kind
    BY <1>1, <1>3, <2>1 DEF Vertexes, Vertices
  <2>2. CASE x \notin DOMAIN dags[k].kind
    <3>1. k \in keys /\ x = name /\ dags'[k].kind[x] = IF k \in roots THEN "root" ELSE "function"
      BY <1>3, <2>2
    <3> QED
      BY <3>1
  <2> QED
    BY <2>1, <2>2
<1>10. Heads'
  BY <1>2, <1>3 DEF Heads
<1>11. Wires' /\ Reduction' /\ CrashesExplained'
  BY DEF Wires, Reduction, Reduced, CrashesExplained
<1> QED
  BY <1>5, <1>6, <1>7, <1>8, <1>9, <1>10, <1>11

\* What was in the graphs and among the variables before a visit stays.
LEMMA PopulateKeeps ==
  ASSUME IInv, phase = "populate", NEW v \in left, UNCHANGED <<cfg, phase>>, left' = left \ {v},
         result' = {} => result = {},
         NEW keys, NEW name, NEW roots, AddVertices(keys, name, roots),
         NEW w \in DOMAIN gvar, NEW names, NEW ctx, gvar' = [gvar EXCEPT ![w] = Keep(@, names, ctx)]
  PROVE  /\ \A u \in Functions : u # v /\ Populated(u)' =>
               /\ Populated(u)
               /\ \A k \in Targets(u) :
                     /\ k \in DOMAIN dags /\ VertexName(u) \in DOMAIN dags[k].kind
                     /\ k \in DOMAIN dags' /\ VertexName(u) \in DOMAIN dags'[k].kind
                     /\ dags'[k].kind[VertexName(u)] = KindIn(u, k)
               /\ \A x \in Outputs(u) :
                     /\ x \in DOMAIN gvar[VarsOf(u)]
                     /\ x \in DOMAIN gvar'[VarsOf(u)] /\ gvar'[VarsOf(u)][x] = Context(u)
         /\ \A o \in Objects : o # v /\ Populated(o)' =>
               /\ \A op \in Ops : GraphOf(o, op) \in DOMAIN dags' =>
                     /\ o.root \in DOMAIN dags'[GraphOf(o, op)].kind
                     /\ dags'[GraphOf(o, op)].kind[o.root] = "root"
               /\ o.root \in DOMAIN gvar'[VarsOf(o)]
               /\ gvar'[VarsOf(o)][o.root] = [vertex |-> o.root, index |-> 0, block |-> ""]
         /\ \A o \in Objects : VarsOf(o) \in DOMAIN gvar /\ VarsOf(o) \in DOMAIN gvar'
<1> USE DEF AfterValidate, AfterInit, AfterPopulate, AfterConnect, AfterReduce
<1>1. \A k \in DOMAIN dags : IsGraph(dags[k]) /\ IsFiniteSet(DOMAIN dags[k].kind)
  BY DEF IInv, Shape
<1>2. /\ DOMAIN dags' = DOMAIN dags
      /\ \A k \in DOMAIN dags :
            /\ DOMAIN dags[k].kind \subseteq DOMAIN dags'[k].kind
            /\ \A x \in DOMAIN dags[k].kind : dags'[k].kind[x] = dags[k].kind[x]
  BY <1>1, VerticesAdded
<1>3. /\ DOMAIN gvar' = DOMAIN gvar
      /\ \A y \in DOMAIN gvar : \A x \in DOMAIN gvar[y] : x \in DOMAIN gvar'[y] /\ gvar'[y][x] = gvar[y][x]
  BY VariablesAdded
<1>4. \A x : x # v /\ Populated(x)' => Populated(x)
  BY DEF Populated, Done
<1>5. \A o \in Objects : VarsOf(o) \in DOMAIN gvar
  BY DEF IInv, Variables, Inited
<1>6. \A u \in Functions : VarsOf(u) \in DOMAIN gvar
  <2> SUFFICES ASSUME NEW u \in Functions PROVE VarsOf(u) \in DOMAIN gvar
    OBVIOUS
  <2>1. ObjectOf(u) \in Objects /\ VarsOf(ObjectOf(u)) = VarsOf(u)
    BY FunctionShape DEF VarsOf, ObjectOf
  <2> QED
    BY <1>5, <2>1
<1>7. ASSUME NEW u \in Functions, u # v, Populated(u)'
      PROVE  /\ Populated(u)
             /\ \A k \in Targets(u) :
                   /\ k \in DOMAIN dags /\ VertexName(u) \in DOMAIN dags[k].kind
                   /\ k \in DOMAIN dags' /\ VertexName(u) \in DOMAIN dags'[k].kind
                   /\ dags'[k].kind[VertexName(u)] = KindIn(u, k)
             /\ \A x \in Outputs(u) :
                   /\ x \in DOMAIN gvar[VarsOf(u)]
                   /\ x \in DOMAIN gvar'[VarsOf(u)] /\ gvar'[VarsOf(u)][x] = Context(u)
  <2>1. Populated(u)
    BY <1>4, <1>7
  <2>2. \A k \in Targets(u) : /\ k \in DOMAIN dags /\ VertexName(u) \in DOMAIN dags[k].kind
                              /\ dags[k].kind[VertexName(u)] = KindIn(u, k)
    BY <2>1 DEF IInv, Added, Vertices
  <2>3. \A x \in Outputs(u) : x \in DOMAIN gvar[VarsOf(u)] /\ gvar[VarsOf(u)][x] = Context(u)
    BY <2>1 DEF IInv, Variables
  <2> QED
    BY <1>2, <1>3, <1>6, <2>1, <2>2, <2>3
<1>8. ASSUME NEW o \in Objects, o # v, Populated(o)'
      PROVE  /\ \A op \in Ops : GraphOf(o, op) \in DOMAIN dags' =>
                   /\ o.root \in DOMAIN dags'[GraphOf(o, op)].kind
                   /\ dags'[GraphOf(o, op)].kind[o.root] = "root"
             /\ o.root \in DOMAIN gvar'[VarsOf(o)]
             /\ gvar'[VarsOf(o)][o.root] = [vertex |-> o.root, index |-> 0, block |-> ""]
  <2>1. Populated(o)
    BY <1>4, <1>8
  <2>2. \A op \in Ops : GraphOf(o, op) \in DOMAIN dags =>
           /\ o.root \in DOMAIN dags[GraphOf(o, op)].kind
           /\ dags[GraphOf(o, op)].kind[o.root] = "root"
    BY <2>1 DEF IInv, Added, Vertices
  <2>3. o.root \in DOMAIN gvar[VarsOf(o)] /\ gvar[VarsOf(o)][o.root] = [vertex |-> o.root, index |-> 0, block |-> ""]
    BY <2>1 DEF IInv, Variables
  <2>4. o.root \in DOMAIN gvar'[VarsOf(o)] /\ gvar'[VarsOf(o)][o.root] = gvar[VarsOf(o)][o.root]
    BY <1>3, <1>5, <2>3
  <2>5. \A op \in Ops : GraphOf(o, op) \in DOMAIN dags' =>
           /\ o.root \in DOMAIN dags'[GraphOf(o, op)].kind
           /\ dags'[GraphOf(o, op)].kind[o.root] = "root"
    BY <1>2, <2>2
  <2> QED
    BY <2>3, <2>4, <2>5
<1> QED
  BY <1>3, <1>5, <1>7, <1>8

LEMMA AddFunctionIInv ==
  ASSUME IInv, NEW v \in left, ~Crashes(v), AddFunction(v)
  PROVE  IInv'
<1> USE DEF AfterValidate, AfterInit, AfterPopulate, AfterConnect, AfterReduce
<1>1. /\ phase = "populate" /\ v.op # "none" /\ UNCHANGED <<cfg, phase>> /\ left' = left \ {v}
      /\ result' = {} => result = {} /\ Duplicates(v, Outputs(v), Targets(v)) = {} /\ InputChecked(Element(v))
      /\ gvar' = [gvar EXCEPT ![VarsOf(v)] = Keep(@, Outputs(v), Context(v))]
      /\ AddVertices(Targets(v), VertexName(v), OwnDag(v))
  BY DEF AddFunction, Visited, AddVariables, Context, InputChecked, Err
<1>2. v \in Functions /\ cfg \in Configs
  BY <1>1, Kinds DEF IInv, Shape, Visits
<1>3. Targets(v) \subseteq DOMAIN dags
  BY <1>1 DEF Crashes
<1>4. VarsOf(v) \in DOMAIN gvar
  <2>1. ObjectOf(v) \in Objects /\ VarsOf(ObjectOf(v)) = VarsOf(v)
    BY <1>2, FunctionShape DEF VarsOf, ObjectOf
  <2> QED
    BY <1>1, <2>1 DEF IInv, Variables, Inited
<1>5. /\ \A u \in Functions : u # v /\ Populated(u)' =>
            /\ Populated(u)
            /\ \A k \in Targets(u) :
                  /\ k \in DOMAIN dags /\ VertexName(u) \in DOMAIN dags[k].kind
                  /\ k \in DOMAIN dags' /\ VertexName(u) \in DOMAIN dags'[k].kind
                  /\ dags'[k].kind[VertexName(u)] = KindIn(u, k)
            /\ \A x \in Outputs(u) :
                  /\ x \in DOMAIN gvar[VarsOf(u)]
                  /\ x \in DOMAIN gvar'[VarsOf(u)] /\ gvar'[VarsOf(u)][x] = Context(u)
      /\ \A o \in Objects : o # v /\ Populated(o)' =>
            /\ \A op \in Ops : GraphOf(o, op) \in DOMAIN dags' =>
                  /\ o.root \in DOMAIN dags'[GraphOf(o, op)].kind
                  /\ dags'[GraphOf(o, op)].kind[o.root] = "root"
            /\ o.root \in DOMAIN gvar'[VarsOf(o)]
            /\ gvar'[VarsOf(o)][o.root] = [vertex |-> o.root, index |-> 0, block |-> ""]
      /\ \A o \in Objects : VarsOf(o) \in DOMAIN gvar /\ VarsOf(o) \in DOMAIN gvar'
  BY <1>1, <1>4, PopulateKeeps
<1>6. Shape' /\ Valid' /\ Keys' /\ Graphs' /\ Vertexes' /\ Heads' /\ Wires' /\ Reduction' /\ CrashesExplained'
  <2>1. left' \subseteq left
    BY <1>1
  <2>2. \A k \in Targets(v) : (IF k \in OwnDag(v) THEN "root" ELSE "function") = KindIn(v, k)
    BY DEF KindIn
  <2> QED
    BY <1>1, <1>2, <2>1, <2>2, PopulateStep
<1>7. ASSUME Populated(v)'
      PROVE  /\ Outputs(v) \cap DOMAIN gvar[VarsOf(v)] = {}
             /\ \A k \in Targets(v) : VertexName(v) \notin DOMAIN dags[k].kind
  <2>1. Duplicates(v, Outputs(v), Targets(v)) = {}
    BY <1>1, <1>7 DEF Populated, Done
  <2> QED
    BY <2>1 DEF Duplicates, Err
<1>8. /\ Objects' = Objects /\ Functions' = Functions
      /\ \A x : Targets(x)' = Targets(x) /\ Outputs(x)' = Outputs(x)
      /\ \A x, k : KindIn(x, k)' = KindIn(x, k)
      /\ \A x, op : GraphOf(x, op)' = GraphOf(x, op)
  BY <1>1, CfgFixed
<1>9. \A o \in Objects : o # v
  BY <1>2, Kinds
<1>10. Added'
  <2>1. ASSUME Populated(v)'
        PROVE  \A k \in Targets(v) :
                  /\ k \in DOMAIN dags' /\ VertexName(v) \in DOMAIN dags'[k].kind
                  /\ dags'[k].kind[VertexName(v)] = KindIn(v, k)
    <3>1. \A k \in DOMAIN dags : IsGraph(dags[k]) /\ IsFiniteSet(DOMAIN dags[k].kind)
      BY DEF IInv, Shape
    <3> QED
      BY <1>1, <1>3, <1>7, <2>1, <3>1, VerticesAdded DEF KindIn
  <2> QED
    BY <1>5, <1>8, <1>9, <2>1 DEF Added, Vertices
<1>11. Variables'
  <2>1. ASSUME Populated(v)', NEW x \in Outputs(v)
        PROVE  x \in DOMAIN gvar'[VarsOf(v)] /\ gvar'[VarsOf(v)][x] = Context(v)
    <3>1. /\ x \in DOMAIN gvar'[VarsOf(v)]
          /\ x \notin DOMAIN gvar[VarsOf(v)] => gvar'[VarsOf(v)][x] = Context(v)
      <4>1. gvar'[VarsOf(v)] = Keep(gvar[VarsOf(v)], Outputs(v), Context(v))
        BY <1>1, <1>4
      <4> QED
        BY <2>1, <4>1 DEF Keep
    <3> QED
      BY <1>7, <2>1, <3>1
  <2>2. ASSUME NEW g \in Functions, g # v, Populated(g)', Populated(v)', SameObject(v, g) \/ SameObject(g, v)
        PROVE  Outputs(v) \cap Outputs(g) = {}
    <3>1. VarsOf(g) = VarsOf(v)
      BY <2>2 DEF SameObject, VarsOf
    <3> QED
      BY <1>5, <1>7, <2>2, <3>1
  <2>3. ASSUME NEW f \in Functions, NEW g \in Functions, Populated(f)', Populated(g)', SameObject(f, g),
               Outputs(f) \cap Outputs(g) # {}
        PROVE  f = g
    <3>1. CASE f # v /\ g # v
      BY <1>5, <2>3, <3>1 DEF IInv, Variables
    <3>2. CASE f = v \/ g = v
      BY <2>2, <2>3, <3>2
    <3> QED
      BY <3>1, <3>2
  <2> QED
    BY <1>5, <1>8, <1>9, <2>1, <2>3 DEF Variables
<1>12. Origins'
  <2> DEFINE w == VarsOf(v)
             names == Outputs(v)
             ctx == Context(v)
  <2>1. \A o \in Objects : VarsOf(o) = w => \A x \in names : MadeBy(o, x, ctx)
    <3> SUFFICES ASSUME NEW o \in Objects, VarsOf(o) = w, NEW x \in names PROVE MadeBy(o, x, ctx)
      OBVIOUS
    <3>1. SameObject(o, v)
      BY DEF VarsOf, SameObject
    <3> QED
      BY <1>2, <3>1 DEF MadeBy
  <2>2. w \in DOMAIN gvar /\ gvar' = [gvar EXCEPT ![w] = Keep(@, names, ctx)]
    BY <1>1, <1>4
  <2>3. cfg' = cfg
    BY <1>1
  <2> HIDE DEF w, names, ctx
  <2> QED
    BY <2>1, <2>2, <2>3, OriginsAdded
<1>13. Inputs'
  <2>1. Populated(v)' => InputChecked(Element(v))
    BY <1>1 DEF Populated, Done
  <2>2. \A u \in Functions : u # v /\ Populated(u)' => InputChecked(Element(u))
    BY <1>5 DEF IInv, Inputs
  <2> QED
    BY <1>1, <2>1, <2>2, CfgFixed DEF Inputs
<1> QED
  BY <1>6, <1>10, <1>11, <1>12, <1>13 DEF IInv

LEMMA AddGvkIInv ==
  ASSUME IInv, NEW o \in left, AddGvk(o)
  PROVE  IInv'
<1> USE DEF AfterValidate, AfterInit, AfterPopulate, AfterConnect, AfterReduce
<1> DEFINE keys == {<<o.fow, Obj(o).resource, op, "">> : op \in Ops} \cap DOMAIN dags
           ctx  == [vertex |-> o.root, index |-> 0, block |-> ""]
<1>1. /\ phase = "populate" /\ o.op = "none" /\ o.fow \in Fow /\ UNCHANGED <<cfg, phase>> /\ left' = left \ {o}
      /\ result' = result \cup Duplicates(o, {o.root}, keys)
      /\ gvar' = [gvar EXCEPT ![VarsOf(o)] = Keep(@, {o.root}, ctx)]
      /\ AddVertices(keys, o.root, keys)
  BY DEF AddGvk, Visited, AddVariables
<1>2. o \in Objects /\ cfg \in Configs
  BY <1>1, Kinds DEF IInv, Shape, Visits, Fow
<1>3. keys = {GraphOf(o, op) : op \in Ops} \cap DOMAIN dags
  BY DEF GraphOf
<1> HIDE DEF keys
<1>4. VarsOf(o) \in DOMAIN gvar
  BY <1>1, <1>2 DEF IInv, Variables, Inited
<1>5. /\ \A u \in Functions : u # o /\ Populated(u)' =>
            /\ Populated(u)
            /\ \A k \in Targets(u) :
                  /\ k \in DOMAIN dags' /\ VertexName(u) \in DOMAIN dags'[k].kind
                  /\ dags'[k].kind[VertexName(u)] = KindIn(u, k)
            /\ \A x \in Outputs(u) : x \in DOMAIN gvar'[VarsOf(u)] /\ gvar'[VarsOf(u)][x] = Context(u)
      /\ \A p \in Objects : p # o /\ Populated(p)' =>
            /\ \A op \in Ops : GraphOf(p, op) \in DOMAIN dags' =>
                  /\ p.root \in DOMAIN dags'[GraphOf(p, op)].kind
                  /\ dags'[GraphOf(p, op)].kind[p.root] = "root"
            /\ p.root \in DOMAIN gvar'[VarsOf(p)]
            /\ gvar'[VarsOf(p)][p.root] = [vertex |-> p.root, index |-> 0, block |-> ""]
      /\ \A p \in Objects : VarsOf(p) \in DOMAIN gvar'
  <2>1. result' = {} => result = {}
    BY <1>1
  <2> QED
    BY <1>1, <1>4, <2>1, PopulateKeeps
<1>6. Shape' /\ Valid' /\ Keys' /\ Graphs' /\ Vertexes' /\ Heads' /\ Wires' /\ Reduction' /\ CrashesExplained'
  <2>1. left' \subseteq left
    BY <1>1
  <2>2. \A k \in keys : \E p \in Objects, op \in Ops : k = GraphOf(p, op) /\ o.root = p.root
    BY <1>2, <1>3
  <2> QED
    BY <1>1, <2>1, <2>2, PopulateStep
<1>7. ASSUME Populated(o)'
      PROVE  /\ o.root \notin DOMAIN gvar[VarsOf(o)]
             /\ \A k \in keys : o.root \notin DOMAIN dags[k].kind
  <2>1. Duplicates(o, {o.root}, keys) = {}
    BY <1>1, <1>7 DEF Populated, Done
  <2> QED
    BY <1>2, <2>1, ObjectShape DEF Duplicates, Err
<1>8. /\ Objects' = Objects /\ Functions' = Functions
      /\ \A x : Targets(x)' = Targets(x) /\ Outputs(x)' = Outputs(x)
      /\ \A x, k : KindIn(x, k)' = KindIn(x, k)
      /\ \A x, op : GraphOf(x, op)' = GraphOf(x, op)
  BY <1>1, CfgFixed
<1>9. \A u \in Functions : u # o
  BY <1>2, Kinds
<1>10. Added'
  <2>1. ASSUME Populated(o)', NEW op \in Ops, GraphOf(o, op) \in DOMAIN dags'
        PROVE  /\ o.root \in DOMAIN dags'[GraphOf(o, op)].kind
               /\ dags'[GraphOf(o, op)].kind[o.root] = "root"
    <3>1. \A k \in DOMAIN dags : IsGraph(dags[k]) /\ IsFiniteSet(DOMAIN dags[k].kind)
      BY DEF IInv, Shape
    <3>2. GraphOf(o, op) \in DOMAIN dags
      BY <1>1, <2>1, <3>1, VerticesAdded
    <3>3. GraphOf(o, op) \in keys
      BY <1>3, <3>2
    <3>4. /\ o.root \in DOMAIN dags'[GraphOf(o, op)].kind
          /\ o.root \notin DOMAIN dags[GraphOf(o, op)].kind => dags'[GraphOf(o, op)].kind[o.root] = "root"
      <4> DEFINE name == o.root
      <4>1. AddVertices(keys, name, keys)
        BY <1>1
      <4> HIDE DEF name
      <4>2. \A k \in DOMAIN dags :
               /\ DOMAIN dags'[k].kind = DOMAIN dags[k].kind \cup (IF k \in keys THEN {name} ELSE {})
               /\ k \in keys /\ name \notin DOMAIN dags[k].kind =>
                     dags'[k].kind[name] = IF k \in keys THEN "root" ELSE "function"
        BY <3>1, <4>1, VerticesAdded
      <4> QED
        BY <3>2, <3>3, <4>2 DEF name
    <3> QED
      BY <1>7, <2>1, <3>3, <3>4
  <2> QED
    BY <1>5, <1>8, <1>9, <2>1 DEF Added, Vertices
<1>11. Variables'
  <2>1. ASSUME Populated(o)'
        PROVE  o.root \in DOMAIN gvar'[VarsOf(o)] /\ gvar'[VarsOf(o)][o.root] = ctx
    <3> HIDE DEF ctx
    <3>1. /\ o.root \in DOMAIN gvar'[VarsOf(o)]
          /\ o.root \notin DOMAIN gvar[VarsOf(o)] => gvar'[VarsOf(o)][o.root] = ctx
      <4>1. gvar'[VarsOf(o)] = Keep(gvar[VarsOf(o)], {o.root}, ctx)
        BY <1>1, <1>4
      <4> QED
        BY <4>1 DEF Keep
    <3> QED
      BY <1>7, <2>1, <3>1
  <2>2. ASSUME NEW f \in Functions, NEW g \in Functions, Populated(f)', Populated(g)', SameObject(f, g),
               Outputs(f) \cap Outputs(g) # {}
        PROVE  f = g
    BY <1>5, <1>9, <2>2 DEF IInv, Variables
  <2> QED
    BY <1>5, <1>8, <1>9, <2>1, <2>2 DEF Variables
<1>12. Origins'
  <2> DEFINE w == VarsOf(o)
             names == {o.root}
  <2>1. ASSUME NEW p \in Objects, VarsOf(p) = w, NEW x \in names PROVE MadeBy(p, x, ctx)
    BY <2>1 DEF MadeBy, VarsOf
  <2>2. w \in DOMAIN gvar /\ gvar' = [gvar EXCEPT ![w] = Keep(@, names, ctx)]
    BY <1>1, <1>4
  <2> HIDE DEF w, names, ctx
  <2> QED
    BY <1>1, <2>1, <2>2, OriginsAdded
<1>13. Inputs'
  <2>1. \A u \in Functions : Populated(u)' => InputChecked(Element(u))
    BY <1>5, <1>9 DEF IInv, Inputs
  <2> QED
    BY <1>1, <2>1, CfgFixed DEF Inputs
<1> QED
  BY <1>6, <1>10, <1>11, <1>12, <1>13 DEF IInv

-----------------------------------------------------------------------------
(* connect.                                                                *)
LEMMA EdgeShape ==
  ASSUME NEW v, NEW e \in FunctionEdges(v)
  PROVE  (\E from : e = <<DagOf(v), from, VertexName(v)>>) \/ e = <<MainDag(v), "", "">>
<1> DEFINE Edge(from) == <<DagOf(v), from, VertexName(v)>>
           IsEdge == (\E from : e = Edge(from)) \/ e = <<MainDag(v), "", "">>
<1>1. ASSUME NEW r, e \in RefEdges(v, r)
      PROVE  IsEdge
  <2> DEFINE info == VarInfo(v, r)
             there == <<MainDag(v), "", "">>
  <2>1. \/ e \in {Edge(BlockVertexName(v)), there}
        \/ e \in {Edge(info.block)}
        \/ e \in {Edge(info.vertex)}
    BY <1>1 DEF RefEdges
  <2> HIDE DEF Edge, there, info
  <2>2. (\E from : e = Edge(from)) \/ e = there
    BY <2>1, Zenon
  <2> QED
    BY <2>2 DEF there
<1> DEFINE fromRefs  == UNION {RefEdges(v, r) : r \in {x \in Global(v) : Known(v, x)}}
           fromNames == {Edge(d) : d \in Element(v).dependsOn}
           fromStart == IF Element(v).hasInput /\ Element(v).resource # NoGVK THEN {Edge(StartVertex(v))} ELSE {}
           fromBlock == IF BlockIndex(v) > 0 THEN {Edge(BlockVertexName(v))} ELSE {}
<1>2. FunctionEdges(v) = fromRefs \cup fromNames \cup fromStart \cup fromBlock
  BY DEF FunctionEdges
<1> HIDE DEF Edge
<1> SUFFICES IsEdge
  BY DEF Edge
<1>3. CASE e \in fromRefs
  BY <1>1, <1>3
<1>4. CASE e \in fromNames \cup fromStart \cup fromBlock
  BY <1>4
<1> QED
  <2> HIDE DEF fromRefs, fromNames, fromStart, fromBlock
  <2> QED
    BY <1>2, <1>3, <1>4

NewEdges(v, k) == {<<e[2], e[3]>> : e \in {x \in FunctionEdges(v) : x[1] = k}}

LEMMA EdgesAdded ==
  ASSUME \A k \in DOMAIN dags : IsGraph(dags[k]), NEW v, ConnectFunction(v)
  PROVE  /\ DOMAIN dags' = DOMAIN dags
         /\ \A k \in DOMAIN dags :
               /\ IsGraph(dags'[k]) /\ dags'[k].root = dags[k].root /\ dags'[k].kind = dags[k].kind
               /\ dags'[k].edges = dags[k].edges \cup NewEdges(v, k)
<1> DEFINE c == Connect(FunctionEdges(v))
           k0 == DagOf(v)
<1>1. dags' = [c EXCEPT ![k0].refs[VertexName(v)] = Followed(v)]
  BY DEF ConnectFunction
<1>2. DOMAIN c = DOMAIN dags /\ \A k \in DOMAIN dags : c[k] = [dags[k] EXCEPT !.edges = @ \cup NewEdges(v, k)]
  BY DEF Connect, NewEdges
<1> HIDE DEF c
<1>3. DOMAIN dags' = DOMAIN dags
  BY <1>1, <1>2
<1> SUFFICES ASSUME NEW k \in DOMAIN dags
             PROVE  /\ IsGraph(dags'[k]) /\ dags'[k].root = dags[k].root /\ dags'[k].kind = dags[k].kind
                    /\ dags'[k].edges = dags[k].edges \cup NewEdges(v, k)
  BY <1>3
<1> DEFINE d == dags[k]
<1>4. d = [root |-> d.root, kind |-> d.kind, refs |-> d.refs, edges |-> d.edges]
  BY DEF IsGraph
<1>5. c[k] = [root |-> d.root, kind |-> d.kind, refs |-> d.refs, edges |-> d.edges \cup NewEdges(v, k)]
  BY <1>2, <1>4
<1>6. CASE k # k0
  <2>1. dags'[k] = c[k]
    BY <1>1, <1>2, <1>6
  <2> QED
    BY <1>5, <2>1 DEF IsGraph
<1>7. CASE k = k0
  <2>1. dags'[k] = [c[k] EXCEPT !.refs[VertexName(v)] = Followed(v)]
    BY <1>1, <1>2, <1>7
  <2>2. dags'[k] = [root |-> d.root, kind |-> d.kind, refs |-> [d.refs EXCEPT ![VertexName(v)] = Followed(v)],
                    edges |-> d.edges \cup NewEdges(v, k)]
    BY <1>5, <2>1
  <2> QED
    BY <2>2 DEF IsGraph
<1> QED
  BY <1>6, <1>7

\* Neither connect nor reduce touches the vertices.
LEMMA VerticesKept ==
  ASSUME IInv, phase \in {"connect", "reduce"}, UNCHANGED <<cfg, phase, gvar>>, DOMAIN dags' = DOMAIN dags,
         left' \subseteq left,
         \A k \in DOMAIN dags : IsGraph(dags'[k]) /\ dags'[k].root = dags[k].root /\ dags'[k].kind = dags[k].kind
  PROVE  Shape' /\ Valid' /\ Keys' /\ Graphs' /\ Variables' /\ Origins' /\ Inputs' /\ Added' /\ Vertexes' /\ CrashesExplained'
<1> USE DEF AfterValidate, AfterInit, AfterPopulate, AfterConnect, AfterReduce
<1>1. Shape /\ Keys /\ Graphs /\ Variables /\ Added /\ Vertexes
  BY DEF IInv
<1>2. /\ Objects' = Objects /\ Functions' = Functions /\ \A x : Alone(x)' = Alone(x)
      /\ \A x : OwnGraph(x)' = OwnGraph(x) /\ MainDag(x)' = MainDag(x) /\ IsBlock(x)' = IsBlock(x)
      /\ \A x : Targets(x)' = Targets(x) /\ Outputs(x)' = Outputs(x)
      /\ \A x, k : KindIn(x, k)' = KindIn(x, k)
      /\ \A x, op : GraphOf(x, op)' = GraphOf(x, op)
  BY CfgFixed
<1>3. Shape'
  <2>1. Visits(phase)' = Visits(phase)
    <3>1. Visits("connect")' = Visits("connect") /\ Visits("reduce")' = Visits("reduce")
      BY VisitsSame
    <3> QED
      BY <3>1
  <2> QED
    BY <1>1, <2>1 DEF Shape, IsGraph
<1>4. Valid'
  BY ValidKept DEF Validated
<1>5. Keys'
  BY <1>1, <1>2 DEF Keys
<1>6. Graphs'
  BY <1>1, <1>2 DEF Graphs, Inited
<1>7. Variables'
  BY <1>1, <1>2 DEF Variables, Populated, Inited
<1>8. Added'
  BY <1>1, <1>2 DEF Added, Populated, Vertices
<1>9. Vertexes'
  BY <1>1, <1>2 DEF Vertexes, Vertices
<1>10. CrashesExplained'
  BY DEF CrashesExplained
<1>11. Origins' /\ Inputs'
  <2>1. \A o, x, info : MadeBy(o, x, info)' = MadeBy(o, x, info)
    BY <1>2 DEF MadeBy
  <2> QED
    BY <1>2, <2>1, CfgFixed DEF IInv, Origins, Inputs, Populated
<1> QED
  BY <1>3, <1>4, <1>5, <1>6, <1>7, <1>8, <1>9, <1>10, <1>11

LEMMA ConnectFunctionIInv ==
  ASSUME IInv, NEW v \in left, ConnectFunction(v)
  PROVE  IInv'
<1> USE DEF AfterValidate, AfterInit, AfterPopulate, AfterConnect, AfterReduce
<1>1. /\ phase = "connect" /\ v.op # "none" /\ UNCHANGED <<cfg, phase, gvar>> /\ left' = left \ {v}
  BY DEF ConnectFunction, Visited
<1>2. v \in Functions /\ \A k \in DOMAIN dags : IsGraph(dags[k])
  BY <1>1, Kinds DEF IInv, Shape, Visits
<1>3. /\ DOMAIN dags' = DOMAIN dags
      /\ \A k \in DOMAIN dags :
            /\ IsGraph(dags'[k]) /\ dags'[k].root = dags[k].root /\ dags'[k].kind = dags[k].kind
            /\ dags'[k].edges = dags[k].edges \cup NewEdges(v, k)
  BY <1>2, EdgesAdded
<1>4. Shape' /\ Valid' /\ Keys' /\ Graphs' /\ Variables' /\ Origins' /\ Inputs' /\ Added' /\ Vertexes' /\ CrashesExplained'
  <2>1. left' \subseteq left
    BY <1>1
  <2> QED
    BY <1>1, <1>3, <2>1, VerticesKept
<1>5. /\ Functions' = Functions
      /\ \A x : DagOf(x)' = DagOf(x) /\ FunctionEdges(x)' = FunctionEdges(x)
  BY <1>1, CfgFixed
<1>6. Heads'
  <2> SUFFICES ASSUME NEW k \in DOMAIN dags, NEW e \in dags'[k].edges
               PROVE  \/ e = <<"", "">>
                      \/ \E f \in Functions : /\ DagOf(f) = k /\ e = <<e[1], VertexName(f)>>
                                              /\ <<k, e[1], VertexName(f)>> \in FunctionEdges(f)
    BY <1>3, <1>5 DEF Heads
  <2>1. CASE e \in dags[k].edges
    BY <2>1 DEF IInv, Heads
  <2>2. CASE e \in NewEdges(v, k)
    <3>1. PICK x \in FunctionEdges(v) : x[1] = k /\ e = <<x[2], x[3]>>
      BY <2>2 DEF NewEdges
    <3>2. CASE \E from : x = <<DagOf(v), from, VertexName(v)>>
      <4>1. PICK from : x = <<DagOf(v), from, VertexName(v)>>
        BY <3>2
      <4>2. e = <<from, VertexName(v)>> /\ DagOf(v) = k /\ e[1] = from /\ x = <<k, from, VertexName(v)>>
        BY <3>1, <4>1
      <4> QED
        BY <1>2, <3>1, <4>2
    <3>3. CASE x = <<MainDag(v), "", "">>
      BY <3>1, <3>3
    <3> QED
      BY <3>2, <3>3, EdgeShape
  <2> QED
    BY <1>3, <2>1, <2>2
<1>7. Wires'
  <2> SUFFICES ASSUME NEW f \in Functions, NEW e \in FunctionEdges(f), e[1] \in DOMAIN dags, Wired(f, e[1])'
               PROVE  <<e[2], e[3]>> \in dags'[e[1]].edges
    BY <1>3, <1>5 DEF Wires
  <2>1. f \notin left'
    BY <1>1 DEF Wired
  <2>2. CASE f = v
    BY <1>3, <2>2 DEF NewEdges
  <2>3. CASE f # v
    <3>1. Wired(f, e[1])
      BY <1>1, <2>1, <2>3 DEF Wired
    <3> QED
      BY <1>1, <1>3, <3>1 DEF IInv, Wires
  <2> QED
    BY <2>2, <2>3
<1>8. Reduction'
  BY <1>1 DEF Reduction, Reduced
<1> QED
  BY <1>4, <1>6, <1>7, <1>8 DEF IInv

-----------------------------------------------------------------------------
(* Paths, and what a reduction keeps of them.                              *)
LEMMA PathStart ==
  ASSUME NEW E, NEW e \in E
  PROVE  Path(E, e[1], e[2])
BY DEF Path

LEMMA PathOn ==
  ASSUME NEW E, NEW u, NEW e \in E, Path(E, u, e[1])
  PROVE  Path(E, u, e[2])
BY DEF Path, Closed

\* What the smaller graph F reaches, the larger one reaches.
LEMMA PathIn ==
  ASSUME NEW E, NEW F \in SUBSET E, NEW u, NEW v, Path(F, u, v)
  PROVE  Path(E, u, v)
<1> SUFFICES ASSUME NEW S \in SUBSET Ends(E), Closed(E, S), \A e \in E : e[1] = u => e[2] \in S
             PROVE  v \in S
  BY DEF Path
<1>1. S \cap Ends(F) \in SUBSET Ends(F) /\ Closed(F, S \cap Ends(F))
  BY DEF Closed, Ends
<1>2. \A e \in F : e[1] = u => e[2] \in S \cap Ends(F)
  BY DEF Ends
<1> QED
  BY <1>1, <1>2 DEF Path

LEMMA AcyclicIn ==
  ASSUME NEW E, NEW F \in SUBSET E, Acyclic(E)
  PROVE  Acyclic(F)
<1>1. Ends(F) \subseteq Ends(E)
  BY DEF Ends
<1> QED
  BY <1>1, PathIn DEF Acyclic

\* Going up from vertex to vertex one comes to an end.
LEMMA NoDescent ==
  ASSUME NEW F, Acyclic(F), NEW B, IsFiniteSet(B),
         \A m \in B : \E u \in B : <<u, m>> \in F
  PROVE  B = {}
<1> SUFFICES ASSUME B # {} PROVE FALSE
  OBVIOUS
<1> DEFINE above(m) == {u \in B : Path(F, u, m)}
           sizes == {Cardinality(above(m)) : m \in B}
<1>1. \A m \in B : IsFiniteSet(above(m)) /\ Cardinality(above(m)) \in Nat
  BY FS_Subset, FS_CardinalityType
<1>2. sizes \subseteq Nat /\ sizes # {}
  BY <1>1
<1>3. PICK n \in sizes : \A y \in sizes : ~(<<y, n>> \in OpToRel(<, Nat))
  BY <1>2, NatLessThanWellFounded, WFMin
<1>4. \A y \in sizes : ~(y < n)
  BY <1>2, <1>3 DEF OpToRel
<1>5. PICK m \in B : n = Cardinality(above(m))
  BY <1>3
<1>6. PICK u \in B : <<u, m>> \in F
  BY <1>5
<1>7. above(u) \subseteq above(m)
  BY <1>6, PathOn
<1>8. u \in above(m)
  BY <1>6, PathStart
<1>9. u \notin above(u)
  <2>1. u \in Ends(F)
    BY <1>6 DEF Ends
  <2> QED
    BY <2>1 DEF Acyclic
<1>10. Cardinality(above(u)) < Cardinality(above(m))
  <2> HIDE DEF above
  <2>1. above(u) # above(m)
    BY <1>8, <1>9
  <2> QED
    BY <1>1, <1>5, <1>6, <1>7, <2>1, FS_Subset
<1> QED
  BY <1>4, <1>5, <1>6, <1>10

\* A vertex that all others depend on is still below all of them.
LEMMA BlockReach ==
  ASSUME NEW V, IsFiniteSet(V), NEW c \in V, NEW E, Acyclic(E), NEW F, ReducesTo(V, E, F),
         \A m \in V \ {c} : <<c, m>> \in E
  PROVE  \A m \in V \ {c} : Path(F, c, m)
<1> DEFINE B == {m \in V \ {c} : ~Path(F, c, m)}
<1>1. Acyclic(F)
  BY AcyclicIn DEF ReducesTo
<1>2. IsFiniteSet(B)
  BY FS_Subset
<1>3. ASSUME NEW m \in B PROVE \E u \in B : <<u, m>> \in F
  <2>1. PICK u \in V : <<u, m>> \in F
    BY DEF ReducesTo
  <2>2. u # c
    BY <2>1, PathStart
  <2>3. ~Path(F, c, u)
    BY <2>1, PathOn
  <2> QED
    BY <2>1, <2>2, <2>3
<1>4. B = {}
  BY <1>1, <1>2, <1>3, NoDescent
<1> QED
  BY <1>4

-----------------------------------------------------------------------------
(* reduce.                                                                 *)
\* The members of a block's graph depend on the block, which is one of them.
LEMMA BlockGraph ==
  ASSUME IInv, phase = "reduce", NEW k \in DOMAIN dags, k \in left, k[4] # ""
  PROVE  k[4] \in Vertices(k) /\ \A m \in Vertices(k) \ {k[4]} : <<k[4], m>> \in EdgesIn(k)
<1> USE DEF AfterValidate, AfterInit, AfterPopulate, AfterConnect, AfterReduce
<1>1. cfg \in Configs /\ Keys /\ Added /\ Vertexes /\ Wires
  BY DEF IInv, Shape
<1>2. AllValid
  BY DEF IInv, Valid, Validated, AllValid, Visits
<1>3. ASSUME NEW o \in Objects, NEW op \in Ops PROVE k # GraphOf(o, op)
  <2>1. GraphOf(o, op)[4] = ""
    BY DEF GraphOf
  <2> QED
    BY <2>1
<1>4. PICK b \in Functions : IsBlock(b) /\ k = OwnGraph(b)
  BY <1>1, <1>3 DEF Keys
<1>5. k[4] = VertexName(b)
  BY <1>4 DEF OwnGraph, BlockDag
<1>6. k \in Targets(b)
  BY <1>1, <1>2, <1>4, ValidFunction DEF Targets, OwnDag, OwnGraph
<1>7. k[4] \in Vertices(k)
  BY <1>1, <1>5, <1>6 DEF Added, Populated
<1>8. ASSUME NEW m \in Vertices(k), m # k[4] PROVE <<k[4], m>> \in EdgesIn(k)
  <2>1. PICK v \in Functions : k \in Targets(v) /\ m = VertexName(v)
    BY <1>1, <1>3 DEF Vertexes
  <2>2. k \notin OwnDag(v)
    <3>1. ASSUME k = BlockDag(v, VertexName(v)) PROVE FALSE
      BY <1>8, <2>1, <3>1 DEF BlockDag
    <3> QED
      BY <3>1 DEF OwnDag
  <2>3. k = DagOf(v)
    BY <2>1, <2>2 DEF Targets
  <2>4. BlockVertexName(v) = k[4]
    BY <2>3 DEF DagOf, BlockDag
  <2>5. BlockIndex(v) > 0
    BY <1>1, <2>4, FunctionName
  <2> DEFINE e == <<k, k[4], m>>
  <2>6. e \in FunctionEdges(v)
    <3>1. e \in {<<DagOf(v), BlockVertexName(v), VertexName(v)>>}
      BY <2>1, <2>3, <2>4
    <3> QED
      BY <2>5, <3>1 DEF FunctionEdges
  <2>7. e[1] = k /\ e[2] = k[4] /\ e[3] = m
    OBVIOUS
  <2> HIDE DEF e
  <2>8. <<k[4], m>> \in dags[k].edges
    BY <1>1, <2>6, <2>7 DEF Wires, Wired
  <2> QED
    BY <1>8, <2>8 DEF EdgesIn
<1> QED
  BY <1>7, <1>8

LEMMA ReduceIInv ==
  ASSUME IInv, NEW k \in left, ~Crashes(k), Reduce(k)
  PROVE  IInv'
<1> USE DEF AfterValidate, AfterInit, AfterPopulate, AfterConnect, AfterReduce
<1> DEFINE V == Vertices(k)
<1>1. phase = "reduce" /\ UNCHANGED <<cfg, phase, gvar>> /\ left' = left \ {k}
  BY DEF Reduce, Visited
<1>2. PICK F \in SUBSET dags[k].edges :
        /\ ReducesTo(V, EdgesIn(k), {e \in F : e[2] \in V})
        /\ dags' = [dags EXCEPT ![k].edges = F]
  BY DEF Reduce, EdgesIn
<1>3. k \in DOMAIN dags /\ \A x \in DOMAIN dags : IsGraph(dags[x]) /\ IsFiniteSet(DOMAIN dags[x].kind)
  BY <1>1 DEF IInv, Shape, Visits
<1>4. DOMAIN dags' = DOMAIN dags /\ \A x \in DOMAIN dags : x # k => dags'[x] = dags[x]
  BY <1>2
<1>5. /\ dags'[k].root = dags[k].root /\ dags'[k].kind = dags[k].kind /\ dags'[k].edges = F
      /\ IsGraph(dags'[k])
  <2> DEFINE d == dags[k]
  <2>1. d = [root |-> d.root, kind |-> d.kind, refs |-> d.refs, edges |-> d.edges]
    BY <1>3 DEF IsGraph
  <2>2. dags'[k] = [d EXCEPT !.edges = F]
    BY <1>2, <1>3
  <2>3. dags'[k] = [root |-> d.root, kind |-> d.kind, refs |-> d.refs, edges |-> F]
    BY <2>1, <2>2
  <2> QED
    BY <2>3 DEF IsGraph
<1>6. Shape' /\ Valid' /\ Keys' /\ Graphs' /\ Variables' /\ Origins' /\ Inputs' /\ Added' /\ Vertexes' /\ CrashesExplained'
  <2>1. left' \subseteq left
    BY <1>1
  <2>2. \A x \in DOMAIN dags : IsGraph(dags'[x]) /\ dags'[x].root = dags[x].root /\ dags'[x].kind = dags[x].kind
    BY <1>3, <1>4, <1>5
  <2> QED
    BY <1>1, <1>4, <2>1, <2>2, VerticesKept
<1>7. Functions' = Functions /\ \A x : DagOf(x)' = DagOf(x) /\ FunctionEdges(x)' = FunctionEdges(x)
  BY <1>1, CfgFixed
<1>8. Heads'
  <2>1. \A x \in DOMAIN dags : dags'[x].edges \subseteq dags[x].edges
    BY <1>4, <1>5
  <2> QED
    BY <1>4, <1>7, <2>1 DEF IInv, Heads
<1>9. Wires'
  <2> SUFFICES ASSUME NEW f \in Functions, NEW e \in FunctionEdges(f), e[1] \in DOMAIN dags, Wired(f, e[1])'
               PROVE  <<e[2], e[3]>> \in dags'[e[1]].edges
    BY <1>4, <1>7 DEF Wires
  <2>1. e[1] # k /\ Wired(f, e[1])
    BY <1>1 DEF Wired
  <2> QED
    BY <1>1, <1>4, <2>1 DEF IInv, Wires
<1>10. Acyclic(EdgesIn(k))
  BY <1>1 DEF Crashes, EdgesIn
<1>11. Reduction'
  <2> SUFFICES ASSUME NEW x \in DOMAIN dags, Reduced(x)'
               PROVE  (Acyclic(EdgesIn(x)) /\ (x[4] # "" => \A m \in Vertices(x) \ {x[4]} : DependsOn(x, x[4], m)))'
    BY <1>4 DEF Reduction
  <2>1. CASE x # k
    <3>1. Reduced(x)
      BY <1>1, <2>1 DEF Reduced
    <3>2. EdgesIn(x)' = EdgesIn(x) /\ Vertices(x)' = Vertices(x) /\ \A c, m : DependsOn(x, c, m)' = DependsOn(x, c, m)
      BY <1>4, <2>1 DEF EdgesIn, Vertices, DependsOn
    <3> QED
      BY <3>1, <3>2 DEF IInv, Reduction
  <2>2. CASE x = k
    <3> DEFINE FV == {e \in F : e[2] \in V}
    <3>1. Vertices(k)' = V /\ EdgesIn(k)' = FV
      BY <1>5 DEF EdgesIn, Vertices
    <3>2. FV \subseteq EdgesIn(k)
      BY DEF EdgesIn
    <3>3. Acyclic(FV)
      BY <1>10, <3>2, AcyclicIn
    <3>4. ASSUME k[4] # "", NEW m \in V \ {k[4]} PROVE Path(F, k[4], m)
      <4>1. k[4] \in V /\ \A y \in V \ {k[4]} : <<k[4], y>> \in EdgesIn(k)
        BY <1>1, <1>3, <3>4, BlockGraph
      <4>2. IsFiniteSet(V)
        BY <1>3 DEF Vertices
      <4>3. ReducesTo(V, EdgesIn(k), FV)
        BY <1>2
      <4> DEFINE c == k[4]
      <4> HIDE DEF V, FV, c
      <4>4. Path(FV, c, m)
        BY <1>10, <3>4, <4>1, <4>2, <4>3, BlockReach DEF c
      <4>5. FV \in SUBSET F
        BY DEF FV
      <4> QED
        BY <4>4, <4>5, PathIn DEF c
    <3>5. \A m : DependsOn(k, k[4], m)' = Path(F, k[4], m)
      BY <1>5 DEF DependsOn
    <3> QED
      BY <2>2, <3>1, <3>3, <3>4, <3>5
  <2> QED
    BY <2>1, <2>2
<1> QED
  BY <1>6, <1>8, <1>9, <1>11 DEF IInv

-----------------------------------------------------------------------------
LEMMA StepIInv == IInv /\ [Next]_vars => IInv'
<1> SUFFICES ASSUME IInv, [Next]_vars PROVE IInv'
  OBVIOUS
<1>1. ASSUME NEW v \in left, ~Crashes(v), Enter(v) PROVE IInv'
  BY <1>1, ValidateIInv, InitGvkIInv, InitFunctionBlockIInv, AddGvkIInv, AddFunctionIInv, QuietIInv,
     ConnectFunctionIInv, ReduceIInv DEF Enter
<1>2. ASSUME NEW v \in left, Crashes(v), Crash(v) PROVE IInv'
  BY <1>2, CrashIInv
<1>3. CASE Proceed
  BY <1>3, ProceedIInv
<1>4. CASE Refuse \/ UNCHANGED vars
  BY <1>4, StillIInv
<1> QED
  BY <1>1, <1>2, <1>3, <1>4 DEF Next

THEOREM Invariance == Spec => []IInv
BY InitIInv, StepIInv, PTL DEF Spec

-----------------------------------------------------------------------------
(* Two functions of an object never make the same output, unless the       *)
(* parser refuses or crashes (gvar.AddVariable, addFunction).              *)
THEOREM OutputsHaveOneProducer == Spec => []OneProducer
<1>1. IInv => OneProducer
  BY DEF IInv, Variables, Populated, AfterPopulate, AfterConnect, AfterReduce, OneProducer
<1> QED
  BY Invariance, <1>1, PTL

(* The parser crashes on what Malformed lists and on cycles only: a nil    *)
(* pointer that the syntax check survives, a graph that is missing or an   *)
(* input that is no resource is kept out of the later walks by the checks  *)
(* of validateFunction, initFunctionBlock and addFunction.                 *)
THEOREM EveryCrashExplained == Spec => []CrashesExplained
<1>1. IInv => CrashesExplained
  BY DEF IInv
<1> QED
  BY Invariance, <1>1, PTL

LEMMA TopLevel ==
  ASSUME NEW v, BlockIndex(v) = 0
  PROVE  BlockVertexName(v) = ""
<1>1. ~(BlockIndex(v) > 0)
  OBVIOUS
<1> QED
  BY <1>1, Zenon DEF BlockVertexName

\* The graph a function lives in is not the one it is the root of.
LEMMA LivesAsFunction ==
  ASSUME cfg \in Configs, NEW v \in Functions
  PROVE  DagOf(v) \notin OwnDag(v) /\ KindIn(v, DagOf(v)) = "function"
<1>1. CASE OwnDag(v) = {}
  BY <1>1 DEF KindIn
<1>2. CASE OwnDag(v) # {}
  <2>1. BlockIndex(v) = 0 /\ OwnDag(v) = {BlockDag(v, VertexName(v))}
    BY <1>2 DEF OwnDag
  <2>2. BlockVertexName(v) = ""
    BY <2>1 DEF BlockVertexName
  <2>3. DagOf(v)[4] = "" /\ BlockDag(v, VertexName(v))[4] = VertexName(v)
    BY <2>2 DEF DagOf, BlockDag
  <2>4. VertexName(v) # ""
    BY FunctionName
  <2> QED
    BY <2>1, <2>3, <2>4 DEF KindIn
<1> QED
  BY <1>1, <1>2

LEMMA BlockVertices ==
  ASSUME IInv, phase = "ready", NEW k \in DOMAIN dags, k[4] # ""
  PROVE  /\ k[4] \in Vertices(k) /\ dags[k].kind[k[4]] = "root"
         /\ dags[<<k[1], k[2], k[3], "">>].kind[k[4]] = "function"
<1> USE DEF AfterValidate, AfterInit, AfterPopulate, AfterConnect, AfterReduce
<1>1. cfg \in Configs /\ Keys /\ Added
  BY DEF IInv, Shape
<1>2. AllValid
  BY DEF IInv, Valid, Validated, AllValid, Visits
<1>3. ASSUME NEW o \in Objects, NEW op \in Ops PROVE k # GraphOf(o, op)
  <2>1. GraphOf(o, op)[4] = ""
    BY DEF GraphOf
  <2> QED
    BY <2>1
<1>4. PICK b \in Functions : IsBlock(b) /\ k = OwnGraph(b)
  BY <1>1, <1>3 DEF Keys
<1>5. BlockIndex(b) = 0 /\ BlockVertexName(b) = ""
  BY <1>1, <1>2, <1>4, ValidFunction, TopLevel
<1>6. OwnDag(b) = {k} /\ k[4] = VertexName(b) /\ DagOf(b) = <<k[1], k[2], k[3], "">>
  BY <1>4, <1>5 DEF OwnDag, OwnGraph, DagOf, BlockDag
<1>7. k \in Targets(b) /\ DagOf(b) \in Targets(b) /\ KindIn(b, k) = "root"
  BY <1>6 DEF Targets, KindIn
<1>8. KindIn(b, DagOf(b)) = "function"
  BY <1>1, LivesAsFunction
<1>9. \A x \in Targets(b) : VertexName(b) \in Vertices(x) /\ dags[x].kind[VertexName(b)] = KindIn(b, x)
  BY <1>1 DEF Added, Populated
<1> QED
  BY <1>6, <1>7, <1>8, <1>9

(* The graph of a block starts from the block, which is a function of the  *)
(* pipeline's graph, and the reduction leaves every member below it: what  *)
(* connectFunction adds for each member of the block (parser_connector.go) *)
(* is enough.                                                              *)
THEOREM MembersStayReached == Spec => []BlocksReached
<1>1. IInv => BlocksReached
  <2> SUFFICES ASSUME IInv, phase = "ready", NEW k \in DOMAIN dags, k[4] # ""
               PROVE  /\ dags[k].kind[k[4]] = "root"
                      /\ dags[<<k[1], k[2], k[3], "">>].kind[k[4]] = "function"
                      /\ \A m \in Vertices(k) \ {k[4]} : DependsOn(k, k[4], m)
    BY DEF BlocksReached
  <2>1. \A m \in Vertices(k) \ {k[4]} : DependsOn(k, k[4], m)
    BY DEF IInv, Reduction, Reduced, AfterReduce
  <2> QED
    BY <2>1, BlockVertices
<1> QED
  BY Invariance, <1>1, PTL

LEMMA Scopes ==
  ASSUME cfg \in Configs, AllValid, NEW g \in Functions
  PROVE  /\ Scope(g) = BlockVertexName(g)
         /\ \/ BlockIndex(g) = 0 /\ Scope(g) = ""
            \/ BlockIndex(g) = 1 /\ Scope(g) # ""
<1>1. BlockIndex(g) \in {0, 1} /\ (BlockIndex(g) > 0 <=> BlockVertexName(g) # "")
  BY Depth, FunctionName
<1>2. CASE BlockIndex(g) = 0
  <2>1. ~(BlockIndex(g) > 0)
    BY <1>2
  <2> QED
    BY <1>1, <1>2, <2>1, Zenon DEF Scope
<1>3. CASE BlockIndex(g) = 1
  <2>1. BlockIndex(g) > 0
    BY <1>3
  <2> QED
    BY <1>1, <1>3, <2>1, Zenon DEF Scope
<1> QED
  BY <1>1, <1>2, <1>3

LEMMA ScopesDiffer ==
  ASSUME cfg \in Configs, AllValid, NEW f \in Functions, NEW g \in Functions
  PROVE  /\ BlockIndex(f) \in {0, 1} /\ BlockIndex(g) \in {0, 1}
         /\ BlockIndex(f) = BlockIndex(g) /\ Scope(f) # Scope(g) => "" \notin {Scope(f), Scope(g)}
<1>1. /\ (BlockIndex(f) = 0 /\ Scope(f) = "") \/ (BlockIndex(f) = 1 /\ Scope(f) # "")
      /\ (BlockIndex(g) = 0 /\ Scope(g) = "") \/ (BlockIndex(g) = 1 /\ Scope(g) # "")
  BY Scopes
<1>2. BlockIndex(f) \in {0, 1} /\ BlockIndex(g) \in {0, 1}
  BY Depth
<1>3. ASSUME BlockIndex(f) = BlockIndex(g) PROVE Scope(f) = "" <=> Scope(g) = ""
  <2>1. 0 # 1
    OBVIOUS
  <2> QED
    BY <1>1, <1>3, <2>1, Zenon
<1>4. ASSUME BlockIndex(f) = BlockIndex(g), Scope(f) # Scope(g) PROVE "" \notin {Scope(f), Scope(g)}
  <2>1. Scope(f) # "" /\ Scope(g) # ""
    BY <1>3, <1>4, Zenon
  <2> QED
    BY <2>1, Zenon
<1> QED
  BY <1>2, <1>4, Zenon

\* The edge of a reference, by how deep the variable and its user are.
LEMMA EdgesOfReference ==
  ASSUME NEW v, NEW r, VarInfo(v, r).index \in Nat, BlockIndex(v) \in Nat
  PROVE  /\ VarInfo(v, r).index = BlockIndex(v) =>
               <<DagOf(v), VarInfo(v, r).vertex, VertexName(v)>> \in RefEdges(v, r)
         /\ VarInfo(v, r).index > BlockIndex(v) =>
               <<DagOf(v), VarInfo(v, r).block, VertexName(v)>> \in RefEdges(v, r)
         /\ VarInfo(v, r).index < BlockIndex(v) =>
               <<DagOf(v), BlockVertexName(v), VertexName(v)>> \in RefEdges(v, r)
<1> DEFINE info == VarInfo(v, r)
           below == info.index < BlockIndex(v)
           above == info.index > BlockIndex(v)
           equal == <<DagOf(v), info.vertex, VertexName(v)>>
           inner == <<DagOf(v), info.block, VertexName(v)>>
           outer == <<DagOf(v), BlockVertexName(v), VertexName(v)>>
           there == <<MainDag(v), "", "">>
<1>1. RefEdges(v, r) = CASE below -> {outer, there} [] above -> {inner} [] OTHER -> {equal}
  BY DEF RefEdges
<1>2. info.index = BlockIndex(v) => ~below /\ ~above
  OBVIOUS
<1>3. ~(above /\ below)
  OBVIOUS
<1> HIDE DEF info, below, above, equal, inner, outer, there
<1>4. below /\ ~above => outer \in RefEdges(v, r)
  BY <1>1
<1>5. above /\ ~below => inner \in RefEdges(v, r)
  BY <1>1
<1>6. ~below /\ ~above => equal \in RefEdges(v, r)
  BY <1>1
<1> QED
  BY <1>2, <1>3, <1>4, <1>5, <1>6 DEF info, below, above, equal, inner, outer, there

\* And no other leads to the user.
LEMMA SourceOfReference ==
  ASSUME NEW v, NEW r, VarInfo(v, r).index \in Nat, BlockIndex(v) \in Nat, NEW from
  PROVE  VertexName(v) # "" /\ <<DagOf(v), from, VertexName(v)>> \in RefEdges(v, r) =>
            \/ VarInfo(v, r).index = BlockIndex(v) /\ from = VarInfo(v, r).vertex
            \/ VarInfo(v, r).index > BlockIndex(v) /\ from = VarInfo(v, r).block
            \/ VarInfo(v, r).index < BlockIndex(v) /\ from = BlockVertexName(v)
<1> DEFINE info == VarInfo(v, r)
           below == info.index < BlockIndex(v)
           above == info.index > BlockIndex(v)
           edge(x) == <<DagOf(v), x, VertexName(v)>>
           there == <<MainDag(v), "", "">>
<1>1. RefEdges(v, r) = CASE below -> {edge(BlockVertexName(v)), there} [] above -> {edge(info.block)}
                         [] OTHER -> {edge(info.vertex)}
  BY DEF RefEdges
<1>2. ~below /\ ~above => info.index = BlockIndex(v)
  OBVIOUS
<1>3. ~(above /\ below)
  OBVIOUS
<1>4. /\ VertexName(v) # "" => edge(from) # there
      /\ \A x : edge(from) = edge(x) => from = x
  OBVIOUS
<1> HIDE DEF info, below, above, edge, there
<1>5. SUFFICES ASSUME VertexName(v) # "", edge(from) \in RefEdges(v, r)
               PROVE  \/ below /\ from = BlockVertexName(v)
                      \/ above /\ from = info.block
                      \/ ~below /\ ~above /\ from = info.vertex
  BY <1>2 DEF info, below, above, edge
<1>6. below /\ ~above => edge(from) \in {edge(BlockVertexName(v)), there}
  BY <1>1, <1>5
<1>7. above /\ ~below => edge(from) \in {edge(info.block)}
  BY <1>1, <1>5
<1>8. ~below /\ ~above => edge(from) \in {edge(info.vertex)}
  BY <1>1, <1>5
<1> QED
  BY <1>3, <1>4, <1>5, <1>6, <1>7, <1>8, Zenon

\* What is a vertex of the graph f lives in.
LEMMA VerticesAround ==
  ASSUME IInv, phase = "ready", NEW f \in Functions
  PROVE  /\ DagOf(f) \in DOMAIN dags /\ VertexName(f) \in Vertices(DagOf(f))
         /\ BlockIndex(f) = 0 => f.root \in Vertices(DagOf(f))
         /\ BlockIndex(f) # 0 => BlockVertexName(f) \in Vertices(DagOf(f))
         /\ BlockIndex(f) # 0 => BlockVertexName(f) \in Vertices(MainDag(f))
         /\ BlockIndex(f) = 0 => DagOf(f) = MainDag(f)
<1> USE DEF AfterValidate, AfterInit, AfterPopulate, AfterConnect, AfterReduce
<1>1. cfg \in Configs /\ Added
  BY DEF IInv, Shape
<1>2. AllValid
  BY DEF IInv, Valid, Validated, AllValid, Visits
<1>3. \A v \in Functions : \A k \in Targets(v) : k \in DOMAIN dags /\ VertexName(v) \in Vertices(k)
  BY <1>1 DEF Added, Populated
<1>4. \A v \in Functions : DagOf(v) \in Targets(v)
  BY DEF Targets
<1>5. BlockIndex(f) = 0 => DagOf(f) = MainDag(f)
  BY TopLevel DEF DagOf, MainDag
<1>6. ASSUME BlockIndex(f) = 0 PROVE f.root \in Vertices(DagOf(f))
  <2>1. /\ MainDag(f) = GraphOf(ObjectOf(f), f.op) /\ ObjectOf(f) \in Objects /\ f.op \in Ops
        /\ ObjectOf(f).root = f.root
    BY <1>1, OwnGraphs, FunctionShape DEF ObjectOf
  <2> QED
    BY <1>1, <1>3, <1>4, <1>5, <1>6, <2>1 DEF Added, Populated
<1>7. ASSUME BlockIndex(f) # 0
      PROVE  BlockVertexName(f) \in Vertices(DagOf(f)) /\ BlockVertexName(f) \in Vertices(MainDag(f))
  <2> DEFINE b == Parent(f)
  <2>1. /\ b \in Functions /\ IsBlock(b) /\ VertexName(b) = BlockVertexName(f) /\ DagOf(f) = OwnGraph(b)
        /\ ObjectOf(b) = ObjectOf(f)
    BY <1>1, <1>2, <1>7, Member
  <2>2. BlockIndex(b) = 0
    BY <1>1, <1>2, <2>1, ValidFunction
  <2>3. DagOf(f) \in Targets(b)
    BY <2>1, <2>2 DEF Targets, OwnDag, OwnGraph
  <2>4. DagOf(b) = MainDag(f)
    <3>1. BlockVertexName(b) = ""
      BY <2>2, TopLevel
    <3>2. b.fow = f.fow /\ b.op = f.op /\ b.root = f.root
      BY FunctionShape DEF Parent
    <3> QED
      BY <3>1, <3>2 DEF DagOf, MainDag, BlockDag, Obj
  <2> QED
    BY <1>3, <1>4, <2>1, <2>3, <2>4
<1> QED
  BY <1>3, <1>4, <1>5, <1>6, <1>7

\* An edge comes from a vertex, from a dependsOn or from out of reach.
Resolved(f, from) ==
    \/ from \in Vertices(DagOf(f)) \/ from \in Element(f).dependsOn
    \/ \E g \in Functions : OutOfReach(f, g) /\ from \in {VertexName(g), Scope(g)}

LEMMA FunctionsResolved ==
  ASSUME IInv, phase = "ready", NEW f \in Functions, NEW g \in Functions, SameObject(f, g),
         NEW x \in Outputs(g), <<x>> \in Global(f), NEW from,
         \/ BlockIndex(g) = BlockIndex(f) /\ from = VertexName(g)
         \/ BlockIndex(g) > BlockIndex(f) /\ from = BlockVertexName(g)
         \/ BlockIndex(g) < BlockIndex(f) /\ from = BlockVertexName(f)
  PROVE  Resolved(f, from)
<1> USE DEF AfterValidate, AfterInit, AfterPopulate, AfterConnect, AfterReduce
<1>1. cfg \in Configs
  BY DEF IInv, Shape
<1>2. AllValid
  BY DEF IInv, Valid, Validated, AllValid, Visits
<1>3. \A h \in Functions : /\ Scope(h) = BlockVertexName(h)
                           /\ \/ BlockIndex(h) = 0 /\ Scope(h) = ""
                              \/ BlockIndex(h) = 1 /\ Scope(h) # ""
  BY <1>1, <1>2, Scopes
<1>4. /\ BlockIndex(f) \in {0, 1} /\ BlockIndex(g) \in {0, 1}
      /\ BlockIndex(f) = BlockIndex(g) /\ Scope(f) # Scope(g) => "" \notin {Scope(f), Scope(g)}
  BY <1>1, <1>2, ScopesDiffer
<1>5. /\ BlockIndex(g) = BlockIndex(f) => from = VertexName(g)
      /\ BlockIndex(g) > BlockIndex(f) =>
            BlockIndex(f) = 0 /\ BlockIndex(g) # 0 /\ from = BlockVertexName(g)
      /\ BlockIndex(g) < BlockIndex(f) => BlockIndex(f) # 0 /\ from = BlockVertexName(f)
  <2>1. BlockIndex(f) \in {0, 1} /\ BlockIndex(g) \in {0, 1}
    BY <1>4
  <2> QED
    BY <2>1
<1>6. ASSUME f.op # g.op \/ ("" \notin {Scope(f), Scope(g)} /\ Scope(f) # Scope(g)), from \in {VertexName(g), Scope(g)}
      PROVE  Resolved(f, from)
  <2>1. OutOfReach(f, g)
    BY <1>6, Zenon DEF OutOfReach
  <2> QED
    BY <1>6, <2>1, Zenon DEF Resolved
<1>7. f.op = g.op => MainDag(f) = MainDag(g) /\ (Scope(f) = Scope(g) => DagOf(f) = DagOf(g))
  BY <1>3 DEF MainDag, DagOf, BlockDag, SameObject, Obj
<1>8. CASE BlockIndex(g) = BlockIndex(f)
  <2>1. from = VertexName(g)
    BY <1>8, <1>5
  <2>2. VertexName(g) \in Vertices(DagOf(g))
    BY VerticesAround
  <2>3. Scope(f) # Scope(g) => "" \notin {Scope(f), Scope(g)}
    BY <1>8, <1>4, Zenon
  <2>4. from \in {VertexName(g), Scope(g)}
    BY <2>1
  <2>5. f.op = g.op /\ Scope(f) = Scope(g) => from \in Vertices(DagOf(f))
    BY <1>7, <2>1, <2>2, Zenon
  <2> QED
    BY <1>6, <2>3, <2>4, <2>5, Zenon DEF Resolved
<1>9. CASE BlockIndex(g) > BlockIndex(f)
  <2>1. BlockIndex(f) = 0 /\ BlockIndex(g) # 0 /\ from = BlockVertexName(g)
    BY <1>9, <1>5
  <2>2. from = Scope(g) /\ from \in Vertices(MainDag(g)) /\ DagOf(f) = MainDag(f)
    BY <1>3, <2>1, VerticesAround
  <2>3. from \in {VertexName(g), Scope(g)}
    BY <2>2
  <2>4. f.op = g.op => from \in Vertices(DagOf(f))
    BY <1>7, <2>2, Zenon
  <2> QED
    BY <1>6, <2>3, <2>4, Zenon DEF Resolved
<1>10. CASE BlockIndex(g) < BlockIndex(f)
  <2>1. BlockIndex(f) # 0 /\ from = BlockVertexName(f)
    BY <1>10, <1>5
  <2> QED
    BY <2>1, VerticesAround DEF Resolved
<1> QED
  BY <1>8, <1>9, <1>10, <1>4

LEMMA ReferencesResolved ==
  ASSUME IInv, phase = "ready", NEW f \in Functions, NEW x, <<x>> \in Global(f), x \in DOMAIN gvar[VarsOf(f)],
         NEW from, <<DagOf(f), from, VertexName(f)>> \in RefEdges(f, <<x>>)
  PROVE  Resolved(f, from)
<1> USE DEF AfterValidate, AfterInit, AfterPopulate, AfterConnect, AfterReduce
<1> DEFINE info == gvar[VarsOf(f)][x]
<1>1. cfg \in Configs /\ Origins /\ Variables
  BY DEF IInv, Shape
<1>2. AllValid
  BY DEF IInv, Valid, Validated, AllValid, Visits
<1>3. VarInfo(f, <<x>>) = info
  BY DEF VarInfo
<1>4. \A g \in Functions : BlockIndex(g) \in Nat /\ VertexName(g) # ""
  BY <1>1, FunctionPath, FunctionName
<1>5. \A g \in Functions : /\ Scope(g) = BlockVertexName(g)
                           /\ \/ BlockIndex(g) = 0 /\ Scope(g) = ""
                              \/ BlockIndex(g) = 1 /\ Scope(g) # ""
  BY <1>1, <1>2, Scopes
<1>6. /\ BlockIndex(f) = 0 => f.root \in Vertices(DagOf(f)) /\ DagOf(f) = MainDag(f)
      /\ BlockIndex(f) # 0 => BlockVertexName(f) \in Vertices(DagOf(f))
  BY VerticesAround
<1>7. info.index \in Nat =>
         \/ info.index = BlockIndex(f) /\ from = info.vertex
         \/ info.index > BlockIndex(f) /\ from = info.block
         \/ info.index < BlockIndex(f) /\ from = BlockVertexName(f)
  <2>1. BlockIndex(f) \in Nat /\ VertexName(f) # ""
    BY <1>4
  <2> QED
    BY <1>3, <2>1, SourceOfReference
<1>8. MadeBy(ObjectOf(f), x, info)
  <2>1. ObjectOf(f) \in Objects /\ VarsOf(ObjectOf(f)) = VarsOf(f)
    BY FunctionShape DEF ObjectOf, VarsOf
  <2>2. VarsOf(f) \in DOMAIN gvar
    BY <1>1, <2>1 DEF Variables, Inited
  <2> QED
    BY <1>1, <2>1, <2>2 DEF Origins
<1> HIDE DEF info
<1>9. CASE info = [vertex |-> f.root, index |-> 0, block |-> ""]
  <2>1. info.index = 0 /\ info.vertex = f.root
    BY <1>9
  <2>2. CASE BlockIndex(f) = 0
    BY <1>6, <1>7, <2>1, <2>2 DEF Resolved
  <2>3. CASE BlockIndex(f) = 1
    BY <1>6, <1>7, <2>1, <2>3 DEF Resolved
  <2> QED
    BY <1>5, <2>2, <2>3
<1>10. ASSUME NEW g \in Functions, SameObject(ObjectOf(f), g), x \in Outputs(g), info = Context(g)
       PROVE  Resolved(f, from)
  <2>1. info.index = BlockIndex(g) /\ info.vertex = VertexName(g) /\ info.block = BlockVertexName(g)
    BY <1>10 DEF Context
  <2>2. SameObject(f, g)
    BY <1>10 DEF SameObject, ObjectOf
  <2>3. info.index \in Nat
    BY <1>4, <2>1
  <2>4. \/ BlockIndex(g) = BlockIndex(f) /\ from = VertexName(g)
        \/ BlockIndex(g) > BlockIndex(f) /\ from = BlockVertexName(g)
        \/ BlockIndex(g) < BlockIndex(f) /\ from = BlockVertexName(f)
    BY <1>7, <2>1, <2>3, Zenon
  <2> QED
    BY <1>10, <2>2, <2>4, FunctionsResolved
<1>11. ObjectOf(f).root = f.root
  BY DEF ObjectOf
<1> QED
  BY <1>8, <1>9, <1>10, <1>11 DEF MadeBy

LEMMA SourcesResolved ==
  ASSUME IInv, phase = "ready", NEW f \in Functions, NEW from,
         <<DagOf(f), from, VertexName(f)>> \in FunctionEdges(f)
  PROVE  Resolved(f, from)
<1> DEFINE Edge(x) == <<DagOf(f), x, VertexName(f)>>
           named == UNION {RefEdges(f, r) : r \in {y \in Global(f) : Known(f, y)}}
           listed == {Edge(d) : d \in Element(f).dependsOn}
           start == IF Element(f).hasInput /\ Element(f).resource # NoGVK THEN {Edge(StartVertex(f))} ELSE {}
           block == IF BlockIndex(f) > 0 THEN {Edge(BlockVertexName(f))} ELSE {}
<1>1. Edge(from) \in named \cup listed \cup start \cup block
  BY DEF FunctionEdges
<1>2. \A x : Edge(from) = Edge(x) => from = x
  OBVIOUS
<1>3. BlockIndex(f) \in Nat
  BY FunctionPath DEF IInv, Shape
<1>4. ASSUME BlockIndex(f) > 0 PROVE Resolved(f, BlockVertexName(f))
  BY <1>3, <1>4, VerticesAround DEF Resolved
<1>5. Resolved(f, StartVertex(f))
  <2>1. CASE BlockIndex(f) > 0
    BY <1>4, <2>1 DEF StartVertex
  <2>2. CASE ~(BlockIndex(f) > 0)
    <3>1. BlockIndex(f) = 0 /\ StartVertex(f) = f.root
      BY <1>3, <2>2 DEF StartVertex
    <3> QED
      BY <3>1, VerticesAround DEF Resolved
  <2> QED
    BY <2>1, <2>2
<1>6. CASE Edge(from) \in named
  <2>1. PICK r \in Global(f) : Known(f, r) /\ Edge(from) \in RefEdges(f, r)
    BY <1>6
  <2>2. PICK x \in DOMAIN gvar[VarsOf(f)] : r = <<x>>
    BY <2>1 DEF Known
  <2> QED
    BY <2>1, <2>2, ReferencesResolved
<1>7. CASE Edge(from) \in listed
  <2>1. PICK d \in Element(f).dependsOn : Edge(from) = Edge(d)
    BY <1>7
  <2>2. from = d
    BY <1>2, <2>1
  <2> QED
    BY <2>2 DEF Resolved
<1> HIDE DEF Edge
<1>8. CASE Edge(from) \in start
  <2>1. from = StartVertex(f)
    BY <1>2, <1>8
  <2> QED
    BY <1>5, <2>1
<1>9. CASE Edge(from) \in block
  <2>1. from = BlockVertexName(f) /\ BlockIndex(f) > 0
    BY <1>2, <1>9
  <2> QED
    BY <1>4, <2>1
<1> HIDE DEF named, listed, start, block
<1> QED
  BY <1>1, <1>6, <1>7, <1>8, <1>9

(* Every graph that reaches the executor has the one root that its context *)
(* names and no edge into it, where no two objects share its gvk, and a    *)
(* vertex where a dependency comes from, but for what a dependsOn names    *)
(* and what is referred to from out of reach: the executor's assumptions   *)
(* on its graph are the parser's guarantees but for what nothing resolves. *)
THEOREM GraphsAreReady == Spec => []ExecutorReady
<1> USE DEF AfterValidate, AfterInit, AfterPopulate, AfterConnect, AfterReduce
<1>1. IInv => ExecutorReady
  <2> SUFFICES ASSUME IInv, phase = "ready", NEW k \in DOMAIN dags
               PROVE  LET roots == {x \in Vertices(k) : dags[k].kind[x] = "root"}
                      IN  /\ (\A o \in Objects : <<o.fow, Obj(o).resource>> = <<k[1], k[2]>> => Alone(o)) =>
                                /\ roots = {IF k[4] = "" THEN dags[k].root ELSE k[4]}
                                /\ \A e \in dags[k].edges : e[2] \notin roots
                          /\ \A e \in dags[k].edges :
                                e[2] \in Vertices(k) => e[1] \in Vertices(k) \/ Unresolved(k, e)
    BY DEF ExecutorReady
  <2> DEFINE roots == {x \in Vertices(k) : dags[k].kind[x] = "root"}
             start == IF k[4] = "" THEN dags[k].root ELSE k[4]
             own == \A o \in Objects : <<o.fow, Obj(o).resource>> = <<k[1], k[2]>> => Alone(o)
  <2>1. cfg \in Configs /\ Keys /\ Graphs /\ Added /\ Vertexes /\ Heads
    BY DEF IInv, Shape
  <2>2. ASSUME NEW e \in dags[k].edges, e[2] \in Vertices(k) PROVE e[1] \in Vertices(k) \/ Unresolved(k, e)
    <3>1. CASE e = <<"", "">>
      <4>1. e[1] = e[2]
        BY <3>1
      <4> QED
        BY <2>2, <4>1
    <3>2. CASE \E f \in Functions : /\ DagOf(f) = k /\ e = <<e[1], VertexName(f)>>
                                    /\ <<k, e[1], VertexName(f)>> \in FunctionEdges(f)
      <4>1. PICK f \in Functions : /\ DagOf(f) = k /\ e = <<e[1], VertexName(f)>>
                                   /\ <<k, e[1], VertexName(f)>> \in FunctionEdges(f)
        BY <3>2
      <4>2. e[2] = VertexName(f)
        BY <4>1
      <4>3. Resolved(f, e[1])
        BY <4>1, SourcesResolved
      <4> QED
        BY <4>1, <4>2, <4>3 DEF Resolved, Unresolved
    <3> QED
      BY <2>1, <3>1, <3>2 DEF Heads
  <2>3. own => \A o \in Objects, op \in Ops : k = GraphOf(o, op) =>
                   k[4] = "" /\ o.root = dags[k].root /\ o.root # ""
    <3> SUFFICES ASSUME own, NEW o \in Objects, NEW op \in Ops, k = GraphOf(o, op)
                 PROVE  k[4] = "" /\ o.root = dags[k].root /\ o.root # ""
      OBVIOUS
    <3>1. k[4] = ""
      BY DEF GraphOf
    <3>2. o.root = dags[k].root
      <4>1. k[1] = o.fow /\ k[2] = Obj(o).resource
        BY DEF GraphOf
      <4> QED
        BY <2>1, <4>1 DEF Graphs
    <3>3. o.root # ""
      BY <2>1, ObjectShape, ConfigsAssumption DEF Fow
    <3> QED
      BY <3>1, <3>2, <3>3
  <2>4. \A v \in Functions : k \in OwnDag(v) => k[4] = VertexName(v) /\ k[4] # ""
    <3> SUFFICES ASSUME NEW v \in Functions, k \in OwnDag(v) PROVE k[4] = VertexName(v) /\ k[4] # ""
      OBVIOUS
    <3>1. k = BlockDag(v, VertexName(v))
      BY DEF OwnDag
    <3>2. k[4] = VertexName(v)
      BY <3>1 DEF BlockDag
    <3> QED
      BY <2>1, <3>2, FunctionName
  <2>5. ASSUME own PROVE start \in roots /\ start # ""
    <3>1. CASE k[4] # ""
      BY <3>1, BlockVertices
    <3>2. CASE k[4] = ""
      <4>1. \A v \in Functions : k # OwnGraph(v)
        BY <2>1, <3>2, OwnGraphs, FunctionName
      <4>2. PICK o \in Objects, op \in Ops : k = GraphOf(o, op)
        BY <2>1, <4>1 DEF Keys
      <4>3. o.root \in Vertices(k) /\ dags[k].kind[o.root] = "root"
        BY <2>1, <4>2 DEF Added, Populated
      <4> QED
        BY <2>3, <2>5, <3>2, <4>2, <4>3
    <3> QED
      BY <3>1, <3>2
  <2>6. ASSUME own, NEW x \in roots PROVE x = start
    <3>1. CASE \E o \in Objects, op \in Ops : k = GraphOf(o, op) /\ x = o.root
      BY <2>3, <2>6, <3>1
    <3>2. CASE \E v \in Functions : k \in Targets(v) /\ x = VertexName(v) /\ dags[k].kind[x] = KindIn(v, k)
      <4>1. PICK v \in Functions : x = VertexName(v) /\ dags[k].kind[x] = KindIn(v, k)
        BY <3>2
      <4>2. k \in OwnDag(v)
        BY <2>6, <4>1 DEF KindIn
      <4> QED
        BY <2>4, <4>1, <4>2
    <3> QED
      BY <2>1, <3>1, <3>2 DEF Vertexes
  <2>7. ASSUME own, NEW e \in dags[k].edges PROVE e[2] \notin roots
    <3>1. CASE e = <<"", "">>
      <4>1. e[2] = ""
        BY <3>1
      <4> QED
        BY <2>5, <2>6, <2>7, <4>1
    <3>2. CASE \E f \in Functions : DagOf(f) = k /\ e = <<e[1], VertexName(f)>>
      <4>1. PICK f \in Functions : DagOf(f) = k /\ e = <<e[1], VertexName(f)>>
        BY <3>2
      <4>2. e[2] = VertexName(f)
        BY <4>1
      <4>3. dags[k].kind[VertexName(f)] = "function"
        BY <2>1, <4>1, LivesAsFunction DEF Added, Populated, Targets
      <4> QED
        BY <4>2, <4>3
    <3> QED
      BY <2>1, <3>1, <3>2 DEF Heads
  <2>8. own => roots = {start}
    BY <2>5, <2>6
  <2> QED
    BY <2>2, <2>7, <2>8
<1> QED
  BY Invariance, <1>1, PTL

\* A variable that is known makes the user depend on where it is from.
LEMMA VariableEdge ==
  ASSUME IInv, phase = "reduce", left = DOMAIN dags, NEW f \in Functions, NEW x, <<x>> \in Global(f),
         x \in DOMAIN gvar[VarsOf(f)], NEW from,
         <<DagOf(f), from, VertexName(f)>> \in RefEdges(f, <<x>>)
  PROVE  DependsOn(DagOf(f), from, VertexName(f))
<1> USE DEF AfterValidate, AfterInit, AfterPopulate, AfterConnect, AfterReduce
<1> DEFINE e == <<DagOf(f), from, VertexName(f)>>
<1>1. Known(f, <<x>>)
  BY DEF Known
<1>2. e \in UNION {RefEdges(f, r) : r \in {y \in Global(f) : Known(f, y)}}
  BY <1>1
<1>3. e \in FunctionEdges(f)
  BY <1>2 DEF FunctionEdges
<1>4. e[1] = DagOf(f) /\ e[2] = from /\ e[3] = VertexName(f)
  OBVIOUS
<1>5. DagOf(f) \in DOMAIN dags
  BY DEF IInv, Added, Populated, Targets
<1> HIDE DEF e
<1>6. <<from, VertexName(f)>> \in dags[DagOf(f)].edges
  BY <1>3, <1>4, <1>5 DEF IInv, Wires, Wired
<1> QED
  BY <1>6, PathStart DEF DependsOn

(* A function starts after the producers of what it uses, within its graph *)
(* or, for an output of a block's member, after the block, and after the   *)
(* root when it uses the object itself (connectRefs and connectFunction).  *)
THEOREM ProducersComeFirst == Spec => []ProducersFirst
<1> USE DEF AfterValidate, AfterInit, AfterPopulate, AfterConnect, AfterReduce
<1>1. IInv => ProducersFirst
  <2> SUFFICES ASSUME IInv, phase = "reduce", left = DOMAIN dags, NEW f \in Functions
               PROVE  /\ \A g \in Functions : Uses(f, g) =>
                            /\ Scope(f) = Scope(g) => DependsOn(DagOf(f), VertexName(g), VertexName(f))
                            /\ Scope(f) = "" /\ Scope(g) # "" => DependsOn(DagOf(f), Scope(g), VertexName(f))
                      /\ <<f.root>> \in Global(f) => DependsOn(DagOf(f), StartVertex(f), VertexName(f))
    BY DEF ProducersFirst
  <2>1. cfg \in Configs /\ Variables
    BY DEF IInv, Shape
  <2>2. AllValid
    BY DEF IInv, Valid, Validated, AllValid, Visits
  <2>3. \A g \in Functions : /\ Scope(g) = BlockVertexName(g)
                             /\ \/ BlockIndex(g) = 0 /\ Scope(g) = ""
                                \/ BlockIndex(g) = 1 /\ Scope(g) # ""
    BY <2>1, <2>2, Scopes
  <2>4. \A g \in Functions : BlockIndex(g) \in Nat
    BY <2>1, FunctionPath
  <2>5. ASSUME NEW g \in Functions, Uses(f, g)
        PROVE  /\ Scope(f) = Scope(g) => DependsOn(DagOf(f), VertexName(g), VertexName(f))
               /\ Scope(f) = "" /\ Scope(g) # "" => DependsOn(DagOf(f), Scope(g), VertexName(f))
    <3>1. PICK x \in Outputs(g) : <<x>> \in Global(f) /\ VarsOf(f) = VarsOf(g)
      BY <2>5 DEF Uses, SamePipeline, SameObject, VarsOf
    <3>2. x \in DOMAIN gvar[VarsOf(f)] /\ gvar[VarsOf(f)][x] = Context(g)
      BY <2>1, <3>1 DEF Variables, Populated
    <3>3. VarInfo(f, <<x>>) = Context(g)
      BY <3>2 DEF VarInfo
    <3>4. /\ VarInfo(f, <<x>>).index = BlockIndex(g) /\ VarInfo(f, <<x>>).vertex = VertexName(g)
          /\ VarInfo(f, <<x>>).block = BlockVertexName(g)
      BY <3>3 DEF Context
    <3>5. CASE Scope(f) = Scope(g)
      <4>1. BlockIndex(f) = BlockIndex(g)
        BY <2>3, <3>5, Zenon
      <4>2. <<DagOf(f), VertexName(g), VertexName(f)>> \in RefEdges(f, <<x>>)
        BY <2>4, <3>4, <4>1, EdgesOfReference
      <4>3. DependsOn(DagOf(f), VertexName(g), VertexName(f))
        BY <3>1, <3>2, <4>2, VariableEdge
      <4> QED
        BY <3>5, <4>3
    <3>6. CASE Scope(f) = "" /\ Scope(g) # ""
      <4>1. BlockIndex(f) = 0 /\ BlockIndex(g) = 1
        BY <2>3, <3>6
      <4>2. <<DagOf(f), Scope(g), VertexName(f)>> \in RefEdges(f, <<x>>)
        <5>1. VarInfo(f, <<x>>).index > BlockIndex(f)
          BY <3>4, <4>1
        <5>2. VarInfo(f, <<x>>).block = Scope(g)
          BY <2>3, <3>4, Zenon
        <5> QED
          BY <2>4, <3>4, <5>1, <5>2, EdgesOfReference
      <4>3. DependsOn(DagOf(f), Scope(g), VertexName(f))
        BY <3>1, <3>2, <4>2, VariableEdge
      <4> QED
        BY <3>6, <4>3
    <3> QED
      BY <3>5, <3>6
  <2>6. ASSUME <<f.root>> \in Global(f) PROVE DependsOn(DagOf(f), StartVertex(f), VertexName(f))
    <3>1. ObjectOf(f) \in Objects /\ VarsOf(ObjectOf(f)) = VarsOf(f) /\ ObjectOf(f).root = f.root
      BY FunctionShape DEF ObjectOf, VarsOf
    <3>2. /\ f.root \in DOMAIN gvar[VarsOf(f)]
          /\ gvar[VarsOf(f)][f.root] = [vertex |-> f.root, index |-> 0, block |-> ""]
      BY <2>1, <3>1 DEF Variables, Populated
    <3>3. VarInfo(f, <<f.root>>) = [vertex |-> f.root, index |-> 0, block |-> ""]
      BY <3>2 DEF VarInfo
    <3> DEFINE x == f.root
    <3> HIDE DEF x
    <3>4. VarInfo(f, <<x>>).index = 0 /\ VarInfo(f, <<x>>).vertex = f.root
      <4> DEFINE info == VarInfo(f, <<x>>)
      <4>1. info = [vertex |-> f.root, index |-> 0, block |-> ""]
        BY <3>3 DEF x
      <4> HIDE DEF info
      <4>2. info.index = 0 /\ info.vertex = f.root
        BY <4>1
      <4> QED
        BY <4>2 DEF info
    <3>5. <<DagOf(f), StartVertex(f), VertexName(f)>> \in RefEdges(f, <<x>>)
      <4>1. CASE BlockIndex(f) = 0
        <5>1. StartVertex(f) = f.root
          BY <4>1 DEF StartVertex
        <5> QED
          BY <2>4, <3>4, <4>1, <5>1, EdgesOfReference
      <4>2. CASE BlockIndex(f) = 1
        <5>1. StartVertex(f) = BlockVertexName(f)
          BY <4>2 DEF StartVertex
        <5>2. VarInfo(f, <<x>>).index < BlockIndex(f) /\ VarInfo(f, <<x>>).index \in Nat
          BY <3>4, <4>2
        <5> QED
          BY <2>4, <5>1, <5>2, EdgesOfReference
      <4> QED
        BY <2>3, <4>1, <4>2
    <3> QED
      BY <2>6, <3>2, <3>5, VariableEdge DEF x
  <2> QED
    BY <2>5, <2>6
<1> QED
  BY Invariance, <1>1, PTL
=============================================================================
