------------------------------- MODULE Parser -------------------------------
(***************************************************************************)
(* The configuration parser of pkg/ccsyntax, as main.go runs it: NewParser *)
(* validates the syntax, Parse initialises the execution context,          *)
(* populates the graphs with vertices, resolves, connects and reduces      *)
(* them, GetExternalResources collects the kinds to look up.  Each is one  *)
(* walk of the configuration (walkLcncConfig) with its own callbacks, and  *)
(* each walk is given up at its end if it recorded an error.               *)
(*                                                                         *)
(* A visit is one callback of a walk, with its OriginContext.  The         *)
(* configuration holds Go maps: a walk takes the entries of each level in  *)
(* any order.  The elements of a pipeline are kept by path: <<section,     *)
(* name>>, and <<section, name, member>> inside a block.  A string is a    *)
(* sequence of tokens: identifiers, "_" and the single characters that     *)
(* GetReferences tells apart.                                              *)
(***************************************************************************)
EXTENDS Naturals, SequencesExt, FiniteSetsExt, Graph

CONSTANT Configs  \* the configurations that may be given

\* The path of an element: its section, then the names of the block and of the
\* member in it.  The graph of the pipeline itself is kept under "": no
\* element has that name, and no object.  A function without a map of outputs
\* has none in it.
ASSUME ConfigsAssumption ==
    \A c \in Configs :
        /\ \A f \in {"for", "own", "watch"} : "" \notin DOMAIN c[f]
        /\ \A p \in DOMAIN c.pipelines : \A path \in DOMAIN c.pipelines[p] :
              /\ path \in Seq(STRING) /\ Len(path) >= 2
              /\ \A i \in 2 .. Len(path) : path[i] # ""
              /\ \A i \in 2 .. Len(path) : SubSeq(path, 1, i) \in DOMAIN c.pipelines[p]
              /\ ~c.pipelines[p][path].hasOutput => c.pipelines[p][path].output = <<>>

VARIABLES
    cfg,        \* the ControllerConfig
    phase,      \* the walk in progress, or how the parse ended
    left,       \* the visits it has still to make; the graphs to reduce
    result,     \* the errors recorded in this phase
    dags,       \* ConfigExecutionContext: graphs by <<fow, gvk, op, block>>,
                \* block "" for the graph of the pipeline itself
    gvar,       \* GlobalVariable: by <<fow, root>>, the variables by name
    services,   \* the port index of each gvk that has a service
    resources   \* the external resources

built == <<dags, gvar, services, resources>>
vars  == <<cfg, phase, left, result, built>>

Fow == {"for", "own", "watch"}
Ops == {"apply", "delete"}

\* A resource is a gvk, or one of these: empty, and not a resource.
NoGVK  == "none"
BadGVK == "bad"
GetGVKFails(r) == r \in {NoGVK, BadGVK}

\* What is left out of the configuration is a nil pointer: the type of an
\* element, of a service, the resource of an object, of an output.
Nil == "nil"

-----------------------------------------------------------------------------
(* Visits.  op is "none" and the path empty for the visit of a gvk object; *)
(* the path is empty for a pipeline that is missing.                       *)
Objects == UNION {{[fow |-> f, root |-> r, op |-> "none", path |-> <<>>] :
                     r \in DOMAIN cfg[f]} : f \in Fow}

Obj(v) == cfg[v.fow][v.root]
ObjectOf(v) == [fow |-> v.fow, root |-> v.root, op |-> "none", path |-> <<>>]
PipelineRef(v) == IF v.op = "apply" THEN Obj(v).apply ELSE Obj(v).delete
Element(v) == cfg.pipelines[PipelineRef(v)][v.path]

PipelineCalls == {[o EXCEPT !.op = op] : o \in Objects, op \in Ops}
Missing == {v \in PipelineCalls : PipelineRef(v) \notin DOMAIN cfg.pipelines}

\* walkFunctionElement goes below a block only.
Walked(p, path) == \A k \in 2 .. Len(path) - 1 : p[SubSeq(path, 1, k)].type = "block"
Functions ==
    UNION {LET p == cfg.pipelines[PipelineRef(c)]
           IN  {[c EXCEPT !.path = q] : q \in {x \in DOMAIN p : Walked(p, x)}} :
             c \in PipelineCalls \ Missing}

ServiceVisits == {[fow |-> "service", root |-> s, op |-> "none", path |-> <<>>] :
                    s \in DOMAIN cfg.services}
ServiceOutputs == UNION {{[s EXCEPT !.path = <<o>>] :
                            o \in DOMAIN cfg.services[s.root].output} : s \in ServiceVisits}

\* What each walk visits, by the callbacks it is given.  resolve gives no
\* gvkObjectFn, without which processGvkObject does nothing.
Visits(ph) ==
    CASE ph = "validate" -> Objects \cup Functions \cup Missing \cup ServiceVisits
      [] ph = "populate" -> Objects \cup Functions \cup ServiceOutputs
      [] ph = "init" -> Objects \cup {v \in Functions : Element(v).type = "block"}
      [] ph \in {"connect", "external"} -> Objects \cup Functions
      [] ph = "reduce" -> DOMAIN dags
      [] OTHER -> {}

\* The order of a walk: for, own, watch, services; an object before its
\* pipelines, apply before delete, vars before tasks, a block before its
\* members; an object, and a block, to its end before the next one.
FowOrder == <<"for", "own", "watch", "service">>
Before(seq, x, y) == \E i, j \in 1 .. Len(seq) : i < j /\ seq[i] = x /\ seq[j] = y
SameObject(u, v) == u.fow = v.fow /\ u.root = v.root
Section(v) == IF v.path = <<>> THEN "vars" ELSE v.path[1]
Precedes(u, v) ==
    \/ Before(FowOrder, u.fow, v.fow)
    \/ /\ SameObject(u, v)
       /\ \/ Before(<<"none", "apply", "delete">>, u.op, v.op)
          \/ u.op = v.op /\ Before(<<"vars", "tasks">>, Section(u), Section(v))
          \/ u.op = v.op /\ IsStrictPrefix(u.path, v.path)

\* u is left of something that v is no part of: its object or its block.
Begun(u) == \E w \in Visits(phase) \ left : w.fow = u.fow /\ w.root = u.root
InBlock(u) == Len(u.path) > 2
Unfinished(u, v) ==
    \/ Begun(u) /\ ~SameObject(u, v)
    \/ /\ InBlock(u) /\ [u EXCEPT !.path = Front(u.path)] \notin left
       /\ ~(SameObject(u, v) /\ u.op = v.op /\ IsPrefix(Front(u.path), v.path))
Ready(v) == v \in left /\ \A u \in left : ~Precedes(u, v) /\ ~Unfinished(u, v)

-----------------------------------------------------------------------------
(* OriginContext of a function's visit.                                    *)
VertexName(v) == IF v.path = <<>> THEN v.root ELSE Last(v.path)
BlockIndex(v) == Len(v.path) - 2
BlockVertexName(v) == IF BlockIndex(v) > 0 THEN v.path[Len(v.path) - 1] ELSE ""
LocalVars(v) == DOMAIN Element([v EXCEPT !.path = SubSeq(@, 1, 2)]).vars
IsBlock(v) == Element(v).type = "block"

\* HasBlock, HasRange: the block is the sequence of its nested layers, each
\* with a range, a condition, or both, which validation refuses.
HasBlock(e) == e.block # <<>>
HasRange(b) == \E i \in DOMAIN b : "range" \in DOMAIN b[i]
BlockStrings(e) == UNION {Range(e.block[i]) : i \in DOMAIN e.block}

\* cec.GetDAG and GetDAGCtx.DAG
BlockDag(v, block) == <<v.fow, Obj(v).resource, v.op, block>>
DagOf(v) == BlockDag(v, BlockVertexName(v))
MainDag(v) == BlockDag(v, "")
VarsOf(v) == <<v.fow, v.root>>

-----------------------------------------------------------------------------
(* GetReferences: what follows a $ up to one of these; a $ met before it   *)
(* starts the reference anew.                                              *)
Terminator == {".", " ", ")", "["}
GetReferences(s) ==
    LET Stop(i) == Min({j \in i + 1 .. Len(s) : s[j] \in Terminator} \cup {Len(s) + 1})
        Starts  == {i \in 1 .. Len(s) : s[i] = "$" /\ \A j \in i + 1 .. Stop(i) - 1 : s[j] # "$"}
    IN  {SubSeq(s, i + 1, Stop(i) - 1) : i \in Starts}

RangeReference == {<<"VALUE">>, <<"KEY">>, <<"INDEX">>}
RefsIn(strings) == UNION {GetReferences(s) : s \in strings}
Regular(r) == r \notin RangeReference

\* The strings connectFunction looks into.
InputStrings(e) ==
    IF e.hasInput THEN {e.key, e.value, e.expression} \cup e.generic \cup e.selector ELSE {}
Strings(e) == Range(e.vars) \cup BlockStrings(e) \cup InputStrings(e)
References(v) == {r \in RefsIn(Strings(Element(v))) : Regular(r)}

\* connectRefs skips names that begin with _, and asks for the first byte.
Followed(v) == {r \in References(v) : r # <<>> /\ r[1] # "_"}
Global(v) == {r \in Followed(v) : r \notin {<<x>> : x \in LocalVars(v)}}

-----------------------------------------------------------------------------
\* A map that is given y for the keys ks, in place of what it has, or only
\* where it has nothing.
Put(f, ks, y) == [x \in DOMAIN f \cup ks |-> IF x \in ks THEN y ELSE f[x]]
Keep(f, ks, y) == [x \in DOMAIN f \cup ks |-> IF x \in DOMAIN f THEN f[x] ELSE y]

(* A visit records the errors errs; a walk is never cut short.             *)
Err(cond, what) == IF cond THEN {what} ELSE {}

Visited(v, errs) ==
    /\ result' = result \cup errs
    /\ left' = left \ {v}
    /\ UNCHANGED <<cfg, phase>>

-----------------------------------------------------------------------------
(* ValidateSyntax.                                                         *)
KeyOutsideRange(strings, block) ==
    RefsIn(strings) \cap RangeReference # {} /\ ~HasRange(block)

\* validateBlock, layer by layer
BlockErrors(b) ==
    UNION {LET layer == b[i]
               inner == SubSeq(b, i, Len(b))
           IN  Err(DOMAIN layer = {"range", "condition"}, "range and condition")
               \cup Err(<<>> \in Range(layer), "empty block value")
               \cup Err(KeyOutsideRange(Range(layer), inner), "key outside range") :
             i \in DOMAIN b}

OutputErrors(e) == Err(\E o \in DOMAIN e.output : GetGVKFails(e.output[o].resource), "output gvk")

\* The switch of validateFunction over the function type.
TypeErrors(e) ==
    CASE e.type = "map"   -> Err(<<>> \in {e.key, e.value}, "key and value")
      [] e.type = "slice" -> Err(e.value = <<>>, "value")
      [] e.type = "query" -> Err(~e.hasInput \/ GetGVKFails(e.resource), "query gvk")
      [] e.type = "gotemplate" ->
            Err(e.resource = NoGVK /\ ~e.template, "template") \cup Err(e.resource = BadGVK, "template gvk")
      [] e.type \in {"container", "wasm"} -> Err(~e.exec, "image or exec")
      [] OTHER -> {}

ValidateFunction(e) ==
    BlockErrors(e.block) \cup TypeErrors(e) \cup OutputErrors(e)
    \cup Err(~e.hasInput /\ e.type \notin {"block", "container"}, "input")
    \cup Err(e.hasInput /\ KeyOutsideRange({e.key, e.value} \cup e.generic, e.block), "key outside range")

\* Mutant: a block need not have one.
FunctionBlockErrorsNested(v) == Err(BlockIndex(v) >= 1, "nested block")

\* validateFunctionBlock, and initFunctionBlock, but for the block's values
FunctionBlockErrors(v) ==
    Err(BlockIndex(v) >= 1, "nested block") \cup Err(~HasBlock(Element(v)), "block without a block")

ElementErrors(v) ==
    IF Element(v).type = Nil THEN {"empty function"}
    ELSE ValidateFunction(Element(v)) \cup IF IsBlock(v) THEN FunctionBlockErrors(v) ELSE {}

ServiceErrors(fn) ==
    Err(fn.type # "container", "service type") \cup Err(~fn.exec, "service image")
    \cup Err(~fn.hasOutput, "service output") \cup OutputErrors(fn)

ValidateErrors(v) ==
    CASE v \in ServiceVisits -> ServiceErrors(cfg.services[v.root])
      [] v \in Objects -> Err(GetGVKFails(Obj(v).resource), "gvk")
      [] v \in Missing -> Err(v.fow = "for" \/ (v.fow = "watch" /\ v.op = "apply"), "missing pipeline")
      [] OTHER -> ElementErrors(v)

Validate(v) ==
    /\ phase = "validate"
    /\ Visited(v, ValidateErrors(v))
    /\ UNCHANGED built

-----------------------------------------------------------------------------
(* init: initGvk and initFunctionBlock.                                    *)
NewDAG(root) == [root |-> root, kind |-> <<>>, refs |-> <<>>, edges |-> {}]

\* cec.Add: whatever an object with the same gvk had is replaced.
AddDAGs(o) ==
    LET new  == {<<o.fow, Obj(o).resource, op, "">> :
                   op \in CASE o.fow = "for" -> Ops [] o.fow = "watch" -> {"apply"} [] OTHER -> {}}
        kept == {k \in DOMAIN dags : ~(k[1] = o.fow /\ k[2] = Obj(o).resource)}
    IN  [k \in kept \cup new |-> IF k \in new THEN NewDAG(o.root) ELSE dags[k]]

InitGvk(o) ==
    /\ phase = "init" /\ o.op = "none"
    /\ Visited(o, {})
    /\ dags' = AddDAGs(o)
    /\ gvar' = Keep(gvar, {VarsOf(o)}, <<>>)
    /\ UNCHANGED <<services, resources>>

InitFunctionBlock(v) ==
    /\ phase = "init" /\ v.op # "none"
    /\ LET adds == HasBlock(Element(v)) /\ MainDag(v) \in DOMAIN dags
       IN  /\ dags' = IF adds THEN Put(dags, {BlockDag(v, VertexName(v))}, NewDAG("")) ELSE dags
           /\ Visited(v, FunctionBlockErrors(v) \cup Err(HasBlock(Element(v)) /\ ~adds, "no dag context"))
    /\ UNCHANGED <<gvar, services, resources>>

-----------------------------------------------------------------------------
(* populate: addGvk, addFunction and addService.                           *)
AddVertex(d, name, kind) ==
    [d EXCEPT !.kind = Keep(@, {name}, kind), !.refs = Keep(@, {name}, {})]

\* To each of the graphs keys, as the root of those in roots.
AddVertices(keys, name, roots) ==
    dags' = [k \in DOMAIN dags |->
                IF k \in keys THEN AddVertex(dags[k], name, IF k \in roots THEN "root" ELSE "function")
                ELSE dags[k]]

\* AddVariable keeps what it has under a name.
AddVariables(v, names, ctx) ==
    gvar' = [gvar EXCEPT ![VarsOf(v)] = Keep(@, names, ctx)]

\* Mutant: the error of AddVariable is dropped.
DuplicateVertices(v, names, keys) ==
    Err(\E k \in keys : VertexName(v) \in DOMAIN dags[k].kind, "duplicate vertex")

Duplicates(v, names, keys) ==
    Err(names \cap DOMAIN gvar[VarsOf(v)] # {}, "duplicate variable")
    \cup Err(\E k \in keys : VertexName(v) \in DOMAIN dags[k].kind, "duplicate vertex")

AddGvk(o) ==
    LET keys == {<<o.fow, Obj(o).resource, op, "">> : op \in Ops} \cap DOMAIN dags
    IN  /\ phase = "populate" /\ o.fow \in Fow /\ o.op = "none"
        /\ Visited(o, Duplicates(o, {o.root}, keys))
        /\ AddVariables(o, {o.root}, [vertex |-> o.root, index |-> 0, block |-> ""])
        /\ AddVertices(keys, o.root, keys)
        /\ UNCHANGED <<services, resources>>

\* A function without a map of outputs stands for its own output; an empty
\* map has none.
Outputs(v) == IF Element(v).hasOutput THEN DOMAIN Element(v).output ELSE {VertexName(v)}

\* A block is a vertex of the pipeline's graph and the root of its own.
OwnDag(v) == IF IsBlock(v) /\ BlockIndex(v) = 0 THEN {BlockDag(v, VertexName(v))} ELSE {}
Targets(v) == {DagOf(v)} \cup OwnDag(v)

AddFunction(v) ==
    LET e == Element(v)
    IN  /\ phase = "populate" /\ v.op # "none"
        /\ Visited(v, Duplicates(v, Outputs(v), Targets(v))
                      \cup Err(~e.hasOutput /\ e.hasInput /\ e.resource = BadGVK, "input gvk"))
        /\ AddVariables(v, Outputs(v), [vertex |-> VertexName(v), index |-> BlockIndex(v),
                                        block |-> BlockVertexName(v)])
        /\ AddVertices(Targets(v), VertexName(v), OwnDag(v))
        /\ UNCHANGED <<services, resources>>

\* addService drops the error of AddService for a gvk that has a service.
AddService(v) ==
    LET gvk == cfg.services[v.root].output[v.path[1]].resource
    IN  /\ phase = "populate" /\ v.fow = "service"
        /\ Visited(v, {})
        /\ services' = Keep(services, {gvk}, Cardinality(DOMAIN services))
        /\ UNCHANGED <<dags, gvar, resources>>

-----------------------------------------------------------------------------
(* connect: connectGvk finds nothing to do, connectFunction adds edges.    *)
(* The vertex a block's members, or the pipeline's functions, start from.  *)
StartVertex(v) == IF BlockIndex(v) > 0 THEN BlockVertexName(v) ELSE v.root

Known(v, r) == \E x \in DOMAIN gvar[VarsOf(v)] : r = <<x>>
VarInfo(v, r) == gvar[VarsOf(v)][r[1]]

\* Mutant: the arguments of Connect are swapped.
RefEdgesSwapped(v, r) ==
    LET info == VarInfo(v, r)
        to   == VertexName(v)
    IN  CASE info.index < BlockIndex(v) ->
                {<<DagOf(v), BlockVertexName(v), to>>, <<MainDag(v), "", "">>}
          [] info.index > BlockIndex(v) -> {<<DagOf(v), info.block, to>>}
          [] OTHER -> {<<DagOf(v), to, info.vertex>>}

\* Mutant: a reference into a block is connected to the member it names.
RefEdgesInto(v, r) ==
    LET info == VarInfo(v, r)
        to   == VertexName(v)
    IN  CASE info.index < BlockIndex(v) ->
                {<<DagOf(v), BlockVertexName(v), to>>, <<MainDag(v), "", "">>}
          [] OTHER -> {<<DagOf(v), info.vertex, to>>}

\* The edges of one reference, as <<graph, from, to>>.  A reference out of a
\* block goes to the block's root; the edge to the block itself is made from
\* two names that are empty.
RefEdges(v, r) ==
    LET info == VarInfo(v, r)
        to   == VertexName(v)
    IN  CASE info.index < BlockIndex(v) ->
                {<<DagOf(v), BlockVertexName(v), to>>, <<MainDag(v), "", "">>}
          [] info.index > BlockIndex(v) -> {<<DagOf(v), info.block, to>>}
          [] OTHER -> {<<DagOf(v), info.vertex, to>>}

\* Mutant: a member of a block gets no edge from the block of its own.
FunctionEdgesNoBlock(v) ==
    LET e == Element(v)
        Edge(from) == <<DagOf(v), from, VertexName(v)>>
    IN  (UNION {RefEdges(v, r) : r \in {x \in Global(v) : Known(v, x)}})
        \cup {Edge(d) : d \in e.dependsOn}
        \cup (IF e.hasInput /\ e.resource # NoGVK THEN {Edge(StartVertex(v))} ELSE {})

FunctionEdges(v) ==
    LET e == Element(v)
        Edge(from) == <<DagOf(v), from, VertexName(v)>>
    IN  (UNION {RefEdges(v, r) : r \in {x \in Global(v) : Known(v, x)}})
        \cup {Edge(d) : d \in e.dependsOn}
        \cup (IF e.hasInput /\ e.resource # NoGVK THEN {Edge(StartVertex(v))} ELSE {})
        \cup (IF BlockIndex(v) > 0 THEN {Edge(BlockVertexName(v))} ELSE {})

Connect(es) ==
    [k \in DOMAIN dags |->
        [dags[k] EXCEPT !.edges = @ \cup {<<e[2], e[3]>> : e \in {x \in es : x[1] = k}}]]

ConnectGvk(o) ==
    /\ phase = "connect" /\ o.op = "none"
    /\ Visited(o, {})
    /\ UNCHANGED built

ConnectFunction(v) ==
    /\ phase = "connect" /\ v.op # "none"
    /\ Visited(v, Err(\E r \in Global(v) : ~Known(v, r), "variable not found"))
    /\ dags' = [Connect(FunctionEdges(v)) EXCEPT ![DagOf(v)].refs[VertexName(v)] = Followed(v)]
    /\ UNCHANGED <<gvar, services, resources>>

-----------------------------------------------------------------------------
(* transitivereduction, graph by graph: what Dag shows of it.              *)
Vertices(k) == DOMAIN dags[k].kind
Reduce(k) ==
    /\ phase = "reduce"
    /\ \E F \in SUBSET dags[k].edges :
          /\ ReducesTo(Vertices(k), {e \in dags[k].edges : e[2] \in Vertices(k)},
                       {e \in F : e[2] \in Vertices(k)})
          /\ {e \in dags[k].edges : e[2] \notin Vertices(k)} \subseteq F
          /\ dags' = [dags EXCEPT ![k].edges = F]
    /\ Visited(k, {})
    /\ UNCHANGED <<gvar, services, resources>>

\* GetExternalResources: getGvk and getFunctionGvk
FunctionGvks(e) ==
    (IF e.hasInput THEN {e.resource} ELSE {})
    \cup {e.output[o].resource : o \in {x \in DOMAIN e.output : ~e.output[x].internal}}
External(v) ==
    /\ phase = "external"
    /\ resources' = resources \cup
          ((IF v.op = "none" THEN {Obj(v).resource} ELSE FunctionGvks(Element(v))) \ {NoGVK})
    /\ Visited(v, {})
    /\ UNCHANGED <<dags, gvar, services>>

-----------------------------------------------------------------------------
(* Nil dereferences and a recursion without end.                           *)
(* The syntax check follows the pointers to an object, an output and a     *)
(* service as they come, and the input of some types; GetPipeline those of *)
(* the list up to the one it looks for, so that pipelines after one that   *)
(* is left out are never found; walkPipeline reads v.Vars of an element    *)
(* before anything looks whether it is nil.                                *)
NilOutput(e) == \E o \in DOMAIN e.output : e.output[o].resource = Nil
ValidateCrashes(v) ==
    CASE v \in ServiceVisits -> cfg.services[v.root].type = Nil \/ NilOutput(cfg.services[v.root])
      [] v \in Objects -> Obj(v).resource = Nil
      [] v \in Missing -> cfg.nilPipeline
      [] OTHER ->
            \/ Element(v).type = Nil /\ BlockIndex(v) = 0
            \/ Element(v).type \in {"map", "slice", "gotemplate"} /\ ~Element(v).hasInput
            \/ NilOutput(Element(v))

(* addFunction adds to a graph that may not exist; connectRefs takes the   *)
(* first byte of a name that may be empty; trwalk goes round a cycle; the  *)
(* gvk of an input nobody checked is nil in addGVK.                        *)
Crashes(v) ==
    CASE phase = "validate" -> ValidateCrashes(v)
      [] phase = "populate" /\ v.op # "none" -> ~(Targets(v) \subseteq DOMAIN dags)
      [] phase = "connect" /\ v.op # "none" -> <<>> \in References(v)
      [] phase = "reduce" -> ~Acyclic({e \in dags[v].edges : e[2] \in Vertices(v)})
      [] phase = "external" /\ v.op # "none" -> BadGVK \in FunctionGvks(Element(v))
      [] OTHER -> FALSE

Crash(v) ==
    /\ phase' = "crashed"
    /\ left' = {}
    /\ UNCHANGED <<cfg, result, built>>

Enter(v) ==
    \/ Validate(v)
    \/ InitGvk(v) \/ InitFunctionBlock(v)
    \/ AddGvk(v) \/ AddFunction(v) \/ AddService(v)
    \/ ConnectGvk(v) \/ ConnectFunction(v)
    \/ Reduce(v)
    \/ External(v)

\* The next entry of the walk, or of the loops over the graphs.
NextEntry(v) == IF phase = "reduce" THEN v \in left ELSE Ready(v)

-----------------------------------------------------------------------------
(* NewParser, Parse and main.go: a walk follows the other, unless it       *)
(* recorded an error.                                                      *)
NextPhase ==
    [validate |-> "init", init |-> "populate", populate |-> "resolve", resolve |-> "connect",
     connect |-> "reduce", reduce |-> "external", external |-> "ready"]
InPhase == phase \in DOMAIN NextPhase

Proceed ==
    /\ InPhase /\ left = {} /\ result = {}
    /\ phase' = NextPhase[phase]
    /\ left' = Visits(NextPhase[phase])
    /\ UNCHANGED <<cfg, result, built>>

Refuse ==
    /\ InPhase /\ left = {} /\ result # {}
    /\ phase' = "refused"
    /\ UNCHANGED <<cfg, left, result, built>>

\* validatePreHook is called before the first visit, and follows the pointer
\* to the properties.
Init ==
    /\ cfg \in Configs
    /\ phase = IF cfg.properties THEN "validate" ELSE "crashed"
    /\ left = Visits(phase)
    /\ result = Err(cfg.properties /\ Cardinality(DOMAIN cfg["for"]) # 1, "one for")
    /\ dags = <<>> /\ gvar = <<>> /\ services = <<>>
    /\ resources = {}

Next ==
    \/ \E v \in left : NextEntry(v) /\ ~Crashes(v) /\ Enter(v)
    \/ \E v \in left : NextEntry(v) /\ Crashes(v) /\ Crash(v)
    \/ Proceed \/ Refuse

Spec == Init /\ [][Next]_vars

-----------------------------------------------------------------------------
(* Type correctness: graphs are kept by object, every vertex has a kind    *)
(* and a list of references, every object its variables.                   *)
TypeOK ==
    /\ cfg \in Configs
    /\ phase \in DOMAIN NextPhase \cup {"ready", "refused", "crashed"}
    /\ phase # "reduce" => left \subseteq Visits(phase)
    /\ \A k \in DOMAIN dags :
          /\ k[1] \in {"for", "watch"} /\ k[3] \in Ops
          /\ DOMAIN dags[k].refs = DOMAIN dags[k].kind
          /\ Range(dags[k].kind) \subseteq {"root", "function"}
    /\ DOMAIN gvar \subseteq {<<o.fow, o.root>> : o \in Objects}
    /\ services \in [DOMAIN services -> Nat]

\* The functions of the same pipeline run, and where a function lives.
SamePipeline(f, g) == SameObject(f, g) /\ f.op = g.op
Scope(v) == IF BlockIndex(v) > 0 THEN BlockVertexName(v) ELSE ""
DependsOn(k, from, to) == Path(dags[k].edges, from, to)
Uses(f, g) == SamePipeline(f, g) /\ \E x \in Outputs(g) : <<x>> \in Global(f)

(* A function that uses what another one produces depends on it: directly  *)
(* when both live in the same graph, on its block when the producer lives  *)
(* in a block and the user does not.  And one that uses the object itself  *)
(* depends on the vertex its graph starts from.                            *)
ProducersFirst ==
    phase = "reduce" /\ left = DOMAIN dags =>
        \A f \in Functions :
            /\ \A g \in Functions : Uses(f, g) =>
                  /\ Scope(f) = Scope(g) => DependsOn(DagOf(f), VertexName(g), VertexName(f))
                  /\ Scope(f) = "" /\ Scope(g) # "" => DependsOn(DagOf(f), Scope(g), VertexName(f))
            /\ <<f.root>> \in Global(f) => DependsOn(DagOf(f), StartVertex(f), VertexName(f))

(* What the executor is given for a block runs as a whole: every member is *)
(* reached from the block's vertex, which starts the block's graph and is  *)
(* a function of the pipeline's, also after the reduction.                 *)
BlocksReached ==
    phase = "ready" =>
        \A k \in {x \in DOMAIN dags : x[4] # ""} :
            /\ dags[k].kind[k[4]] = "root"
            /\ dags[<<k[1], k[2], k[3], "">>].kind[k[4]] = "function"
            /\ \A m \in Vertices(k) \ {k[4]} : DependsOn(k, k[4], m)

(* An output has one producer among the functions of an object, in its     *)
(* apply and its delete pipeline together.                                 *)
OneProducer ==
    phase = "ready" =>
        \A f, g \in Functions :
            SameObject(f, g) /\ Outputs(f) \cap Outputs(g) # {} => f = g

\* No other object has the graphs of o: cec.Add would replace them.
Alone(o) == \A p \in Objects : p.fow = o.fow /\ Obj(p).resource = Obj(o).resource => p = o

\* f refers to an output of g, which has no vertex in the graph of f: it
\* belongs to the other pipeline of the object, or to another block.
OutOfReach(f, g) ==
    /\ SameObject(f, g) /\ \E x \in Outputs(g) : <<x>> \in Global(f)
    /\ f.op # g.op \/ ("" \notin {Scope(f), Scope(g)} /\ Scope(f) # Scope(g))
Unresolved(k, e) ==
    \E f \in Functions :
        /\ DagOf(f) = k /\ VertexName(f) = e[2]
        /\ \/ e[1] \in Element(f).dependsOn
           \/ \E g \in Functions : OutOfReach(f, g) /\ e[1] \in {VertexName(g), Scope(g)}

(* What the executor assumes of every graph it is given: one vertex to     *)
(* start from, the one the execution context names, that depends on        *)
(* nothing, if the graph belongs to one object only; and dependencies that *)
(* are vertices, but for what the configuration names in a dependsOn or    *)
(* refers to from out of reach, which nothing resolves.                    *)
ExecutorReady ==
    phase = "ready" =>
        \A k \in DOMAIN dags :
            LET roots == {x \in Vertices(k) : dags[k].kind[x] = "root"}
            IN  /\ (\A o \in Objects : <<o.fow, Obj(o).resource>> = <<k[1], k[2]>> => Alone(o)) =>
                      /\ roots = {IF k[4] = "" THEN dags[k].root ELSE k[4]}
                      /\ \A e \in dags[k].edges : e[2] \notin roots
                /\ \A e \in dags[k].edges :
                      e[2] \in Vertices(k) => e[1] \in Vertices(k) \/ Unresolved(k, e)

\* A configuration with something left out: the properties, an object, a
\* pipeline of the list before one that is asked for, a service, an element,
\* an input, an output.
LeftOut(e) ==
    \/ e.type = Nil
    \/ ~e.hasInput /\ e.type \notin {"block", "container"}
    \/ NilOutput(e)
Incomplete ==
    \/ ~cfg.properties
    \/ cfg.nilPipeline /\ Missing # {}
    \/ \E o \in Objects : Obj(o).resource = Nil
    \/ \E s \in DOMAIN cfg.services : cfg.services[s].type = Nil \/ NilOutput(cfg.services[s])
    \/ \E v \in Functions : LeftOut(Element(v))

\* A mistake nobody looks for: a pipeline for an object or an operation
\* without a graph, a $ without a name, an input that is no resource in a
\* function that lists its outputs, a block of an object that shares its gvk.
HasGraph(fow, op) == fow = "for" \/ (fow = "watch" /\ op = "apply")
UncheckedInput(e) ==
    e.hasInput /\ e.resource = BadGVK /\ e.hasOutput /\ e.type \notin {"query", "gotemplate"}
Unchecked ==
    \E v \in Functions :
        \/ ~HasGraph(v.fow, v.op)
        \/ <<>> \in References(v)
        \/ UncheckedInput(Element(v))
        \/ IsBlock(v) /\ ~Alone(ObjectOf(v))
Malformed == Incomplete \/ Unchecked

(* A configuration that is complete and has none of these mistakes does    *)
(* not crash the parser, in whatever order it walks its maps, unless       *)
(* functions wait for each other: what a later walk relies on is found by  *)
(* the checks of an earlier one.                                           *)
CrashesExplained ==
    phase = "crashed" =>
        Malformed \/ \E k \in DOMAIN dags : ~Acyclic({e \in dags[k].edges : e[2] \in Vertices(k)})

-----------------------------------------------------------------------------
(* parser_connector.go:179: "connect the block vertex to the original      *)
(* vertex in the root DAG".  A block whose member uses an output of a      *)
(* function outside depends on that function.                              *)
OuterProducersFirst ==
    phase = "reduce" /\ left = DOMAIN dags =>
        \A f, g \in Functions :
            Uses(f, g) /\ Scope(f) # "" /\ Scope(g) = "" /\ VertexName(g) # Scope(f) =>
                DependsOn(MainDag(f), VertexName(g), Scope(f))

(* parser.go:43: "check if all dependencies resolve".  What a vertex       *)
(* depends on is a vertex of the same graph.                               *)
DependenciesResolve ==
    phase = "ready" =>
        \A k \in DOMAIN dags : \A e \in dags[k].edges : e[2] \in Vertices(k) => e[1] \in Vertices(k)
=============================================================================
