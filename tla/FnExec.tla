------------------------------- MODULE FnExec -------------------------------
(***************************************************************************)
(* The functions of a pipeline and what they exchange: exechandler (one    *)
(* FunctionRun per vertex), fnmap, the functions (fnExecConfig.exec and    *)
(* its root, jq, query, slice, map, gotemplate, image and block            *)
(* instances), the shared Output and Result, and the reconciler that       *)
(* collects the final output.                                              *)
(*                                                                         *)
(* When a function may start is what the executor promises (DagRun): its   *)
(* dependencies have returned.  A block runs an executor of its own over   *)
(* the vertices Inner[b].                                                  *)
(*                                                                         *)
(* Data is abstracted to provenance.  A range has items 1 .. n.  VALUE     *)
(* (with KEY and INDEX) is the item it was set for, a local variable is    *)
(* the item it was computed for, and what a run returns (an instance) is   *)
(* the VALUE and variables it saw.  jq, templates, the API server,         *)
(* containers and services are external: their answers are any.            *)
(***************************************************************************)
EXTENDS Integers, FiniteSets, SequencesExt, Graph

CONSTANTS
    Vertex,      \* the vertices of the pipeline and of its blocks
    Type,        \* Type[v]: the function's type
    Up,          \* Up[v]: the vertices v depends on, in its own DAG
    Refs,        \* Refs[v]: the vertices whose output v refers to
    Inner,       \* Inner[b]: the vertices of block b's DAG, {} otherwise
    Ranged,      \* the vertices with a range
    Conditional, \* the vertices with a condition
    Var,         \* Var[v]: the names of v's local variables
    VarRef,      \* VarRef[x]: what x is computed from: VALUE or a variable
    Internal,    \* the vertices whose output is internal
    MaxItems     \* bound: the items of a range

ASSUME PipelineAssumption ==
    /\ Type \in [Vertex -> {"root", "jq", "query", "slice", "map",
                            "gotemplate", "image", "block"}]
    /\ Up \in [Vertex -> SUBSET Vertex]
    /\ Refs \in [Vertex -> SUBSET Vertex]
    /\ Inner \in [Vertex -> SUBSET Vertex]
    /\ \A v \in Vertex : Inner[v] # {} <=> Type[v] = "block"
    /\ Ranged \subseteq Vertex /\ Conditional \subseteq Vertex
    /\ \A v \in Vertex : Type[v] = "root" => v \notin Ranged \cup Conditional
    /\ \A v \in Vertex : "VALUE" \notin Var[v]
    /\ \A v \in Vertex : \A x \in Var[v] : VarRef[x] \in {"VALUE"} \cup Var[v]
    /\ Internal \subseteq Vertex
    /\ "main" \notin Vertex
    /\ MaxItems \in Nat

-----------------------------------------------------------------------------
(* The instances of fnExecConfig.                                          *)
executeRange  == {"slice", "map", "gotemplate", "image"}
executeSingle == {"jq", "query", "gotemplate", "image", "block"}

Top     == Vertex \ UNION {Inner[b] : b \in Vertex}
Blocks  == {b \in Vertex : Type[b] = "block"}
Absent  == -1   \* VALUE is not in the input
Null    == 0    \* a variable that has not been computed
Item    == 1 .. MaxItems

\* input.Input beside the references: VALUE and the local variables.
Names(v) == {"VALUE"} \cup Var[v]

VARIABLES
    pc,       \* per vertex, the progress of its FunctionRun
    seen,     \* the references whose data was there when the input was built
    env,      \* input: VALUE and the local variables
    items,    \* the number of items of the range
    item,     \* the item in hand
    out,      \* the function's own output, key -> instance
    errs,     \* image.errs is not empty
    ret,      \* what FnMap.Run returned: "error", "empty" or "output"
    store,    \* the shared Output: vertex -> data, for those that have some
    results,  \* the shared Result: vertex -> sequence of Success
    total,    \* RecordFinalResult: what the executor of the pipeline or of
              \* a block was told, "none" before
    taken,    \* the reconciler has called GetFinalOutput
    final     \* what it got: vertex -> data
runVars == <<seen, env, items, item, out, errs, ret>>
vars == <<pc, seen, env, items, item, out, errs, ret,
          store, results, total, taken, final>>

Main    == "main"     \* stands for the pipeline's own executor in total
Runs    == Blocks \cup {Main}
Members(r) == IF r = Main THEN Top ELSE Inner[r]

Ended(v)  == pc[v] \in {"ok", "failed"}
Empty     == <<>>

-----------------------------------------------------------------------------
(* builder.New puts the resource into the output as the root's data.       *)
Init ==
    /\ pc = [v \in Vertex |-> "idle"]
    /\ seen = [v \in Vertex |-> {}]
    /\ env = [v \in Vertex |-> [n \in Names(v) |->
                 IF n = "VALUE" THEN Absent ELSE Null]]
    /\ items = [v \in Vertex |-> 0]
    /\ item = [v \in Vertex |-> 0]
    /\ out = [v \in Vertex |-> Empty]
    /\ errs = [v \in Vertex |-> FALSE]
    /\ ret = [v \in Vertex |-> "empty"]
    /\ store = [v \in {r \in Top : Type[r] = "root"} |-> Empty]
    /\ results = [v \in Vertex |-> <<>>]
    /\ total = [r \in Runs |-> "none"]
    /\ taken = FALSE
    /\ final = Empty

-----------------------------------------------------------------------------
\* The executor that runs v has been started.
Launched(v) ==
    \A b \in Blocks : v \in Inner[b] => pc[b] = "inner" \/ total[b] # "none"

(* The executor calls FunctionRun, which takes the data of v's references  *)
(* (for an image the root's too) and calls FnMap.Run.                      *)
FunctionRun(v) ==
    /\ pc[v] = "idle"
    /\ Launched(v)
    /\ \A d \in Up[v] : Ended(d)
    /\ pc' = [pc EXCEPT ![v] = "eval"]
    /\ seen' = [seen EXCEPT ![v] = Refs[v] \cap DOMAIN store]
    /\ UNCHANGED <<env, items, item, out, errs, ret,
                   store, results, total, taken, final>>

\* exec of v returns: an error, an empty output (or nil), or v's output.
Returns(v, r) ==
    /\ pc' = [pc EXCEPT ![v] = "publish"]
    /\ ret' = [ret EXCEPT ![v] = r]

\* Where exec goes when the range is dealt with.
AfterRange(v) == IF Type[v] \in executeSingle THEN "single" ELSE "final"

(* exec: the range or the condition is not valid jq, or gives an error.    *)
EvalFails(v) ==
    /\ pc[v] = "eval"
    /\ v \in Ranged \cup Conditional
    /\ Returns(v, "error")
    /\ UNCHANGED <<seen, env, items, item, out, errs,
                   store, results, total, taken, final>>

(* exec: the condition is false; FunctionRun takes that for a success.     *)
ConditionFalse(v) ==
    /\ pc[v] = "eval"
    /\ v \in Conditional
    /\ Returns(v, "empty")
    /\ UNCHANGED <<seen, env, items, item, out, errs,
                   store, results, total, taken, final>>

(* exec: the range (beside or inside the condition) gives n items; without *)
(* any the function is done.                                               *)
EvalRange(v, n) ==
    /\ pc[v] = "eval"
    /\ v \in Ranged
    /\ IF n = 0
       THEN /\ Returns(v, "empty")
            /\ UNCHANGED <<items, item>>
       ELSE /\ pc' = [pc EXCEPT ![v] = "item"]
            /\ items' = [items EXCEPT ![v] = n]
            /\ item' = [item EXCEPT ![v] = 1]
            /\ UNCHANGED ret
    /\ UNCHANGED <<seen, env, out, errs, store, results, total, taken, final>>

(* exec: there is no range.                                                *)
NoRange(v) ==
    /\ pc[v] = "eval"
    /\ v \notin Ranged
    /\ pc' = [pc EXCEPT ![v] = AfterRange(v)]
    /\ UNCHANGED <<runVars, store, results, total, taken, final>>

-----------------------------------------------------------------------------
\* resolveLocalVars on the input e: Go ranges over the variables in any
\* order, place[x] is the place of x in it.  A variable computed from one that
\* comes earlier takes its new data, else what the input held, which is no
\* data for one that was never computed.
resolveLocalVars(v, e) ==
    {f \in [Names(v) -> Absent .. MaxItems] :
        /\ f["VALUE"] = e["VALUE"]
        /\ \E place \in Injection(Var[v], 1 .. Cardinality(Var[v])) :
              \A x \in Var[v] :
                  LET ref == VarRef[x]
                  IN  f[x] = IF ref \in Var[v] /\ place[ref] < place[x]
                             THEN f[ref] ELSE e[ref]}

\* filterInput, buildResourceContext: an image sees its variables only, as the
\* resources it is given.
Visible(v) == IF Type[v] = "image" THEN Var[v] ELSE Names(v)

\* run on the input e.
Instance(v, e) == [n \in Visible(v) |-> e[n]]

\* recordOutput: where an instance goes in the output o.  Slices, templates
\* and blocks append; a map takes the key that jq computes; an image has one
\* entry, the variable of the instance's kind; a query's or jq's output is
\* its last instance.
AppendKey(o) == {Cardinality(DOMAIN o) + 1}
MapKey       == Item
ImageKey     == {1}
LastKey      == {1}

Keys(v, o) ==
    CASE Type[v] = "map"   -> MapKey
      [] Type[v] = "image" -> ImageKey
      [] Type[v] \in {"jq", "query"} -> LastKey
      [] OTHER -> AppendKey(o)

recordOutput(v, o, i) ==
    {[k \in DOMAIN o \cup {key} |-> IF k = key THEN i ELSE o[k]] :
        key \in Keys(v, o)}

\* image.recordOutput: a resource cannot be read or its service call fails;
\* the error is kept for getFinalResult and the next item is run.
KeepErrors(v) ==
    \E bad \in IF Type[v] = "image" THEN BOOLEAN ELSE {FALSE} :
        errs' = [errs EXCEPT ![v] = @ \/ bad]

\* Mutant: the variables are resolved after the run.
RunItemVarsLate(v) ==
    /\ pc[v] = "item"
    /\ LET e == [env[v] EXCEPT !["VALUE"] = item[v]]
       IN  /\ \E f \in resolveLocalVars(v, e) :
                 env' = [env EXCEPT ![v] = f]
           /\ IF Type[v] \in executeRange
              THEN \E o \in recordOutput(v, out[v], Instance(v, e)) :
                       out' = [out EXCEPT ![v] = o]
              ELSE UNCHANGED out
    /\ item' = [item EXCEPT ![v] = @ + 1]
    /\ pc' = [pc EXCEPT ![v] = IF item[v] = items[v] THEN AfterRange(v)
                               ELSE "item"]
    /\ KeepErrors(v)
    /\ UNCHANGED <<seen, items, ret, store, results, total, taken, final>>

(* exec: the item in hand is put into the input, the variables are         *)
(* resolved and, where the function runs per item, it runs and its output  *)
(* is recorded.                                                            *)
RunItem(v) ==
    /\ pc[v] = "item"
    /\ \E e \in resolveLocalVars(v, [env[v] EXCEPT !["VALUE"] = item[v]]) :
          /\ env' = [env EXCEPT ![v] = e]
          /\ IF Type[v] \in executeRange
             THEN \E o \in recordOutput(v, out[v], Instance(v, e)) :
                      out' = [out EXCEPT ![v] = o]
             ELSE UNCHANGED out
    /\ item' = [item EXCEPT ![v] = @ + 1]
    /\ pc' = [pc EXCEPT ![v] = IF item[v] = items[v] THEN AfterRange(v)
                               ELSE "item"]
    /\ KeepErrors(v)
    /\ UNCHANGED <<seen, items, ret, store, results, total, taken, final>>

(* exec: a variable or the run of an item gives an error.                  *)
RunItemFails(v) ==
    /\ pc[v] = "item"
    /\ Type[v] \in executeRange \/ Var[v] # {}
    /\ Returns(v, "error")
    /\ UNCHANGED <<seen, env, items, item, out, errs,
                   store, results, total, taken, final>>

(* exec: the single run, on a fresh output.  A block starts its executor.  *)
RunSingle(v) ==
    /\ pc[v] = "single"
    /\ \A x \in Var[v] : env[v][VarRef[x]] # Absent
    /\ \E e \in resolveLocalVars(v, env[v]) :
          /\ env' = [env EXCEPT ![v] = e]
          /\ \E o \in recordOutput(v, Empty, Instance(v, e)) :
                out' = [out EXCEPT ![v] = o]
    /\ pc' = [pc EXCEPT ![v] = IF Type[v] = "block" THEN "inner" ELSE "final"]
    /\ KeepErrors(v)
    /\ UNCHANGED <<seen, items, item, ret, store, results, total, taken, final>>

(* exec: a variable or the single run gives an error.  The only error of a *)
(* block's run is a missing DAG, and the parser has made one.              *)
RunSingleFails(v) ==
    /\ pc[v] = "single"
    /\ Type[v] # "block" \/ Var[v] # {}
    /\ Returns(v, "error")
    /\ UNCHANGED <<seen, env, items, item, out, errs,
                   store, results, total, taken, final>>

\* Mutant: the executor of the block is started, not waited for.
BlockReturnsAtOnce(v) ==
    /\ pc[v] = "inner"
    /\ pc' = [pc EXCEPT ![v] = "final"]
    /\ UNCHANGED <<runVars, store, results, total, taken, final>>

(* block.run: the executor of the block has returned, whatever its result. *)
BlockReturns(v) ==
    /\ pc[v] = "inner"
    /\ total[v] # "none"
    /\ pc' = [pc EXCEPT ![v] = "final"]
    /\ UNCHANGED <<runVars, store, results, total, taken, final>>

\* Mutant: the errors of an image are forgotten.
GetFinalResultForgets(v) ==
    /\ pc[v] = "final"
    /\ Returns(v, IF Type[v] \in {"root", "block"} THEN "empty" ELSE "output")
    /\ UNCHANGED <<seen, env, items, item, out, errs,
                   store, results, total, taken, final>>

(* getFinalResult.                                                         *)
GetFinalResult(v) ==
    /\ pc[v] = "final"
    /\ Returns(v, IF errs[v] THEN "error"
                  ELSE IF Type[v] \in {"root", "block"} THEN "empty"
                  ELSE "output")
    /\ UNCHANGED <<seen, env, items, item, out, errs,
                   store, results, total, taken, final>>

-----------------------------------------------------------------------------
(* FunctionRun: Output.Add; a nil output is ignored.                       *)
Publish(v) ==
    /\ pc[v] = "publish"
    /\ pc' = [pc EXCEPT ![v] = "record"]
    /\ store' = IF ret[v] = "output"
                THEN [u \in DOMAIN store \cup {v} |->
                         IF u = v THEN out[v] ELSE store[u]]
                ELSE store
    /\ UNCHANGED <<runVars, results, total, taken, final>>

(* FunctionRun: Result.Add; the result goes back to the executor.          *)
RecordResult(v) ==
    /\ pc[v] = "record"
    /\ results' = [results EXCEPT ![v] = Append(@, ret[v] # "error")]
    /\ pc' = [pc EXCEPT ![v] = IF ret[v] = "error" THEN "failed" ELSE "ok"]
    /\ UNCHANGED <<runVars, store, total, taken, final>>

\* Mutant: success at the first vertex that succeeded.
RecordFinalResultFirst(r) ==
    /\ total[r] = "none"
    /\ r \in Blocks => pc[r] = "inner"
    /\ \E v \in Members(r) : pc[v] = "ok"
    /\ total' = [total EXCEPT ![r] = "success"]
    /\ UNCHANGED <<pc, runVars, store, results, taken, final>>

(* The executor of the pipeline or of a block returns and calls            *)
(* RecordFinalResult: with success after the last of its vertices, with    *)
(* failure at the first that failed, while others may still be running.    *)
RecordFinalResult(r) ==
    /\ total[r] = "none"
    /\ r \in Blocks => pc[r] = "inner"
    /\ \/ /\ \A v \in Members(r) : pc[v] = "ok"
          /\ total' = [total EXCEPT ![r] = "success"]
       \/ /\ \E v \in Members(r) : pc[v] = "failed"
          /\ total' = [total EXCEPT ![r] = "failure"]
    /\ UNCHANGED <<pc, runVars, store, results, taken, final>>

\* GetFinalOutput: data that is not internal and is a list.
FinalOutput == {v \in DOMAIN store : v \notin Internal /\ Type[v] # "map"}

(* Reconcile: the run has returned, its final output is taken.             *)
GetFinalOutput ==
    /\ total[Main] # "none"
    /\ ~taken
    /\ taken' = TRUE
    /\ final' = [v \in FinalOutput |-> store[v]]
    /\ UNCHANGED <<pc, runVars, store, results, total>>

-----------------------------------------------------------------------------
Step(v) ==
    \/ FunctionRun(v)
    \/ EvalFails(v) \/ ConditionFalse(v) \/ NoRange(v)
    \/ \E n \in 0 .. MaxItems : EvalRange(v, n)
    \/ RunItem(v) \/ RunItemFails(v)
    \/ RunSingle(v) \/ RunSingleFails(v)
    \/ BlockReturns(v) \/ GetFinalResult(v)
    \/ Publish(v) \/ RecordResult(v)

Next ==
    \/ \E v \in Vertex : Step(v)
    \/ \E r \in Runs : RecordFinalResult(r)
    \/ GetFinalOutput

Spec == Init /\ [][Next]_vars

-----------------------------------------------------------------------------
IsOutput(v, o) ==
    /\ DOMAIN o \subseteq Item
    /\ \A k \in DOMAIN o : o[k] \in [Visible(v) -> Absent .. MaxItems]

(* Type correctness.                                                       *)
TypeOK ==
    /\ \A v \in Vertex :
          /\ pc[v] \in {"idle", "eval", "item", "single", "inner", "final",
                        "publish", "record", "ok", "failed"}
          /\ seen[v] \subseteq Refs[v]
          /\ env[v] \in [Names(v) -> Absent .. MaxItems]
          /\ items[v] \in 0 .. MaxItems
          /\ item[v] \in 0 .. items[v] + 1
          /\ IsOutput(v, out[v])
          /\ errs[v] \in BOOLEAN
          /\ ret[v] \in {"error", "empty", "output"}
          /\ results[v] \in {<<>>, <<TRUE>>, <<FALSE>>}
    /\ DOMAIN store \subseteq Vertex
    /\ \A v \in DOMAIN store : IsOutput(v, store[v])
    /\ total \in [Runs -> {"none", "success", "failure"}]
    /\ taken \in BOOLEAN
    /\ DOMAIN final \subseteq DOMAIN store

\* v is in a block whose executor gave up, perhaps with v still running.
LeftBehind(v) == \E b \in Blocks : v \in Inner[b] /\ total[b] = "failure"

\* The executor runs v after d has ended: d is above v, or above the block
\* that v is in.
Edges == UNION {{<<d, v>> : d \in Up[v]} : v \in Vertex}
Awaits(v, d) ==
    \E x \in {v} \cup {b \in Blocks : v \in Inner[b]} : Path(Edges, d, x)

\* What the parser is to make of references (Parser, ProducersFirst): v awaits
\* what it refers to, or the block it is in.  The resource is there before.
ReferencesConnected ==
    \A v \in Vertex : \A r \in Refs[v] :
        \/ Type[r] = "root" /\ r \in Top
        \/ Awaits(v, r)
        \/ \E b \in Blocks : r \in Inner[b] /\ Awaits(v, b)

(* Input is complete: whatever output a reference will ever have was there *)
(* when the function took it, so that no function runs on a null that is   *)
(* filled in behind its back.  (A block that failed inside is set apart:   *)
(* BlockReferencesReady.)                                                  *)
InputsComplete ==
    \A v \in Vertex : pc[v] # "idle" =>
        \A r \in Refs[v] : r \in DOMAIN store /\ ~LeftBehind(r) => r \in seen[v]

(* The parser replaces a reference into a block by a dependency on the     *)
(* block: the data is there when the block has returned.                   *)
BlockReferencesReady ==
    \A v \in Vertex : pc[v] # "idle" =>
        \A r \in Refs[v] : r \in DOMAIN store => r \in seen[v]

\* No local variable is computed from another one.
VariablesOfValue == \A v \in Vertex : \A x \in Var[v] : VarRef[x] = "VALUE"

(* What a slice function leaves in the output is one instance per item of  *)
(* its range, in the range's order, each computed from that item's VALUE   *)
(* and from variables resolved for that item; and no instance of a map     *)
(* mixes two items.                                                        *)
RangeRecorded ==
    \A v \in DOMAIN store :
        /\ Type[v] = "slice" /\ v \in Ranged =>
              store[v] = [k \in 1 .. items[v] |-> [n \in Names(v) |-> k]]
        /\ Type[v] = "map" =>
              \A k \in DOMAIN store[v] : \E i \in 1 .. items[v] :
                  store[v][k] = [n \in Names(v) |-> i]

(* image.recordOutput: "each instance is recorded seperately".  Stated of  *)
(* every function that runs per item.                                      *)
EveryInstanceRecorded ==
    \A v \in DOMAIN store :
        v \in Ranged /\ Type[v] \in {"image", "gotemplate"} =>
            Cardinality(DOMAIN store[v]) = items[v]

(* A local variable is resolved for the item in hand, whatever the order.  *)
VarsOfTheItem ==
    \A v \in Vertex : \A k \in DOMAIN out[v] :
        v \in Ranged => \A n, m \in Visible(v) : out[v][k][n] = out[v][k][m]

(* A function that fails, at whichever item, leaves nothing in the shared  *)
(* output, and so nothing of it is ever applied.                           *)
FailedLeavesNothing ==
    \A v \in Vertex : pc[v] = "failed" \/ errs[v] =>
        v \notin DOMAIN store /\ v \notin DOMAIN final

(* After a success the reconciler gets the whole of what the pipeline's    *)
(* own functions put out: nothing is added to it later.                    *)
FinalIsComplete ==
    total[Main] = "success" /\ taken =>
        DOMAIN final \cap Top = FinalOutput \cap Top

(* RecordFinalResult records the overall result: a success means that no   *)
(* function failed.                                                        *)
OverallIsTotal ==
    total[Main] = "success" => \A v \in Vertex : results[v] # <<FALSE>>
=============================================================================
