---------------------------- MODULE FnExecProofs ----------------------------
(***************************************************************************)
(* For every pipeline: what the functions record and publish agrees with   *)
(* how they ended, what the reconciler takes after a success is complete,  *)
(* functions run on complete inputs where the references are connected,    *)
(* and a range is recorded item by item.  For any number of calls of the   *)
(* runtime that the image functions are run by: containers wait for the    *)
(* one check of their runtime, and an answer is that of a command that     *)
(* ended well.                                                             *)
(***************************************************************************)
EXTENDS FnExec, FnRuntime, TLAPS, FiniteSetTheorems

PC == {"idle", "eval", "item", "single", "inner", "final", "publish", "record", "ok", "failed"}

Types ==
    /\ pc \in [Vertex -> PC]
    /\ seen \in [Vertex -> SUBSET Vertex]
    /\ errs \in [Vertex -> BOOLEAN]
    /\ ret \in [Vertex -> {"error", "empty", "output"}]
    /\ results \in [Vertex -> Seq(BOOLEAN)]
    /\ DOMAIN store \subseteq Vertex
    /\ total \in [Runs -> {"none", "success", "failure"}]
    /\ taken \in BOOLEAN

\* A function records its result once, when it ends.
Recorded ==
    \A v \in Vertex :
        /\ pc[v] = "ok" => results[v] = <<TRUE>> /\ ret[v] # "error"
        /\ pc[v] = "failed" => results[v] = <<FALSE>> /\ ret[v] = "error"
        /\ ~Ended(v) => results[v] = <<>>

\* A root neither fails nor gives an output.
Roots ==
    \A v \in Vertex : Type[v] = "root" =>
        /\ pc[v] \in {"idle", "eval", "final", "publish", "record", "ok"}
        /\ ret[v] = "empty" /\ ~errs[v]

\* What is in the shared output: the resource, and what functions returned
\* without an error.
Published ==
    /\ \A v \in DOMAIN store :
          \/ Type[v] = "root" /\ v \in Top
          \/ pc[v] \in {"record", "ok"} /\ ret[v] = "output"
    /\ \A v \in Vertex : pc[v] \in {"publish", "record", "ok"} /\ ret[v] = "output" => ~errs[v]
    /\ DOMAIN final \subseteq DOMAIN store

\* An executor that told success had all of its functions succeed, and only
\* the executor of a block that is running, or has run, tells anything.
Totals ==
    /\ \A r \in Runs : total[r] = "success" => \A v \in Members(r) : pc[v] = "ok"
    /\ \A b \in Blocks : total[b] # "none" =>
          pc[b] \in {"inner", "final", "publish", "record", "ok", "failed"}
    /\ taken => total[Main] # "none"

\* A function runs after those above it, and in a block that runs.
Launches ==
    \A v \in Vertex : pc[v] # "idle" =>
        /\ \A d \in Up[v] : Ended(d)
        /\ \A b \in Blocks : v \in Inner[b] => pc[b] = "inner" \/ total[b] # "none"

IInv == Types /\ Recorded /\ Roots /\ Published /\ Totals /\ Launches /\ FinalIsComplete

-----------------------------------------------------------------------------
LEMMA InitIInv == Init => IInv
<1> SUFFICES ASSUME Init PROVE IInv
  OBVIOUS
<1> USE DEF Init
<1>1. Types
  <2>1. results \in [Vertex -> Seq(BOOLEAN)]
    OBVIOUS
  <2>2. DOMAIN store \subseteq Vertex
    BY DEF Top
  <2>3. /\ pc \in [Vertex -> PC] /\ seen \in [Vertex -> SUBSET Vertex]
        /\ errs \in [Vertex -> BOOLEAN] /\ ret \in [Vertex -> {"error", "empty", "output"}]
        /\ total \in [Runs -> {"none", "success", "failure"}] /\ taken \in BOOLEAN
    BY DEF PC
  <2> QED
    BY <2>1, <2>2, <2>3 DEF Types
<1>2. Recorded /\ Totals /\ Launches /\ FinalIsComplete
  BY DEF Recorded, Ended, Totals, Runs, Launches, FinalIsComplete, Types
<1>3. Roots
  BY DEF Roots
<1>4. Published
  BY DEF Published, Empty
<1> QED
  BY <1>1, <1>2, <1>3, <1>4 DEF IInv

\* The steps of exec, between the start of a function and its output.
ExecStep(v) ==
    \/ EvalFails(v) \/ ConditionFalse(v) \/ NoRange(v)
    \/ \E n \in 0 .. MaxItems : EvalRange(v, n)
    \/ RunItem(v) \/ RunItemFails(v)
    \/ RunSingle(v) \/ RunSingleFails(v)
    \/ BlockReturns(v) \/ GetFinalResult(v)

\* What they have in common: the function in hand moves on, nobody else sees
\* it, and an output is returned without errors.
ExecEffect(v) ==
    /\ UNCHANGED <<seen, store, results, total, taken, final>>
    /\ pc[v] \in {"eval", "item", "single", "inner", "final"}
    /\ pc' \in [Vertex -> PC] /\ ret' \in [Vertex -> {"error", "empty", "output"}]
    /\ errs' \in [Vertex -> BOOLEAN]
    /\ \A u \in Vertex \ {v} : pc'[u] = pc[u] /\ ret'[u] = ret[u] /\ errs'[u] = errs[u]
    /\ pc'[v] \in {"item", "single", "inner", "final", "publish"}
    /\ pc[v] = "inner" => total[v] # "none"
    /\ pc[v] \in {"inner", "final"} => pc'[v] \in {"final", "publish"}
    /\ pc'[v] = "publish" /\ ret'[v] = "output" => ~errs'[v]
    /\ Type[v] = "root" => pc'[v] \in {"final", "publish"} /\ ret'[v] = "empty" /\ ~errs'[v]

LEMMA ExecSteps ==
  ASSUME IInv, NEW v \in Vertex, ExecStep(v)
  PROVE  ExecEffect(v)
<1> USE DEF IInv, Types, PC, Roots, ExecEffect
<1>1. CASE EvalFails(v)
  BY <1>1, PipelineAssumption DEF EvalFails, Returns
<1>2. CASE ConditionFalse(v)
  BY <1>2, PipelineAssumption DEF ConditionFalse, Returns
<1>3. CASE NoRange(v)
  BY <1>3 DEF NoRange, AfterRange, executeSingle, runVars
<1>4. ASSUME NEW n \in 0 .. MaxItems, EvalRange(v, n)
      PROVE  ExecEffect(v)
  BY <1>4, PipelineAssumption DEF EvalRange, Returns
<1>5. ASSUME KeepErrors(v), Type[v] # "root" 
      PROVE  errs' \in [Vertex -> BOOLEAN] /\ \A u \in Vertex \ {v} : errs'[u] = errs[u]
  BY <1>5 DEF KeepErrors
<1>6. CASE RunItem(v)
  BY <1>5, <1>6 DEF RunItem, AfterRange, executeSingle
<1>7. CASE RunItemFails(v)
  BY <1>7 DEF RunItemFails, Returns
<1>8. CASE RunSingleFails(v)
  BY <1>8 DEF RunSingleFails, Returns
<1>9. CASE RunSingle(v)
  BY <1>5, <1>9 DEF RunSingle
<1>10. CASE BlockReturns(v)
  BY <1>10 DEF BlockReturns, runVars
<1>11. CASE GetFinalResult(v)
  BY <1>11 DEF GetFinalResult, Returns
<1> QED
  BY <1>1, <1>3, <1>4, <1>6, <1>7, <1>9, <1>10, <1>11, <1>2, <1>8 DEF ExecStep

\* Only the function in hand, and those that have ended, matter to others:
\* a step of v leaves alone what the invariant says of the others.
LEMMA ExecIInv ==
  ASSUME IInv, NEW v \in Vertex, ExecStep(v)
  PROVE  IInv'
<1>1. ExecEffect(v)
  BY ExecSteps
<1>2. /\ pc' \in [Vertex -> PC] /\ pc'[v] \notin {"idle", "record", "ok", "failed"}
      /\ ret' \in [Vertex -> {"error", "empty", "output"}] /\ errs' \in [Vertex -> BOOLEAN]
      /\ \A u \in Vertex \ {v} : pc'[u] = pc[u] /\ ret'[u] = ret[u] /\ errs'[u] = errs[u]
  BY <1>1 DEF ExecEffect, IInv, Types, PC
<1>3. /\ UNCHANGED <<seen, store, results, total, taken, final>>
      /\ pc[v] \in {"eval", "item", "single", "inner", "final"}
  BY <1>1 DEF ExecEffect
<1>4. Types'
  BY <1>2, <1>3 DEF IInv, Types
<1>5. Recorded'
  BY <1>2, <1>3 DEF IInv, Recorded, Ended
<1>6. Roots'
  BY <1>1, <1>2 DEF IInv, Roots, ExecEffect
<1>7. Published'
  BY <1>1, <1>2, <1>3 DEF IInv, Types, Published, ExecEffect
<1>8. Totals'
  <2>1. \A r \in Runs : total'[r] = "success" => \A u \in Members(r) : pc'[u] = "ok"
    BY <1>2, <1>3, PipelineAssumption DEF IInv, Totals, Members, Runs, Blocks, Top
  <2>2. \A b \in Blocks : total'[b] # "none" =>
          pc'[b] \in {"inner", "final", "publish", "record", "ok", "failed"}
    BY <1>1, <1>2, <1>3 DEF IInv, Totals, ExecEffect, Blocks
  <2> QED
    BY <1>3, <2>1, <2>2 DEF IInv, Totals
<1>9. Launches'
  <2> SUFFICES ASSUME NEW u \in Vertex, pc'[u] # "idle"
               PROVE  /\ \A d \in Up[u] : Ended(d)'
                      /\ \A b \in Blocks : u \in Inner[b] => pc'[b] = "inner" \/ total'[b] # "none"
    BY DEF Launches
  <2>1. pc[u] # "idle"
    BY <1>2, <1>3
  <2>2. \A d \in Up[u] : Ended(d)'
    BY <1>2, <1>3, <2>1, PipelineAssumption DEF IInv, Launches, Ended
  <2>3. \A b \in Blocks : u \in Inner[b] => pc'[b] = "inner" \/ total'[b] # "none"
    BY <1>1, <1>2, <1>3, <2>1 DEF IInv, Launches, ExecEffect, Blocks
  <2> QED
    BY <2>2, <2>3
<1>10. FinalIsComplete'
  BY <1>3 DEF IInv, FinalIsComplete, FinalOutput
<1> QED
  BY <1>4, <1>5, <1>6, <1>7, <1>8, <1>9, <1>10 DEF IInv

LEMMA FunctionRunIInv ==
  ASSUME IInv, NEW v \in Vertex, FunctionRun(v)
  PROVE  IInv'
<1> USE DEF IInv, FunctionRun
<1>1. Types'
  BY PipelineAssumption DEF Types, PC
<1>2. Recorded' /\ Roots' /\ Published'
  BY DEF Types, Recorded, Ended, Roots, Published
<1>3. Totals'
  BY DEF Types, Totals, Members, Runs, Blocks, Top
<1>4. Launches'
  BY DEF Types, Launches, Launched, Ended, Blocks
<1>5. FinalIsComplete'
  BY DEF FinalIsComplete, FinalOutput
<1> QED
  BY <1>1, <1>2, <1>3, <1>4, <1>5

LEMMA PublishIInv ==
  ASSUME IInv, NEW v \in Vertex, Publish(v)
  PROVE  IInv'
<1> USE DEF IInv, Publish, runVars
<1>1. Types'
  BY DEF Types, PC
<1>2. Recorded' /\ Roots' /\ Published'
  BY DEF Types, Recorded, Ended, Roots, Published
<1>3. Totals'
  BY DEF Types, Totals, Members, Runs, Blocks, Top
<1>4. Launches'
  BY DEF Types, Launches, Ended, Blocks
<1>5. FinalIsComplete'
  <2>1. CASE total[Main] = "success"
    <3>1. v \notin Top
      BY <2>1 DEF Totals, Runs, Members
    <3> QED
      BY <3>1 DEF FinalIsComplete, FinalOutput
  <2> QED
    BY <2>1 DEF FinalIsComplete
<1> QED
  BY <1>1, <1>2, <1>3, <1>4, <1>5

LEMMA RecordResultIInv ==
  ASSUME IInv, NEW v \in Vertex, RecordResult(v)
  PROVE  IInv'
<1> USE DEF IInv, RecordResult, runVars
<1>1. results[v] = <<>> /\ results' = [results EXCEPT ![v] = <<ret[v] # "error">>]
  <2>1. results[v] = <<>>
    BY DEF Recorded, Ended
  <2> QED
    BY <2>1
<1>2. Types'
  BY <1>1 DEF Types, PC
<1>3. Recorded'
  BY <1>1 DEF Types, Recorded, Ended
<1>4. Roots' /\ Published'
  BY DEF Types, Roots, Published
<1>5. Totals'
  BY DEF Types, Totals, Members, Runs, Blocks, Top
<1>6. Launches'
  BY DEF Types, Launches, Ended, Blocks
<1>7. FinalIsComplete'
  BY DEF FinalIsComplete, FinalOutput
<1> QED
  BY <1>2, <1>3, <1>4, <1>5, <1>6, <1>7

LEMMA ExecutorIInv ==
  ASSUME IInv, (\E r \in Runs : RecordFinalResult(r)) \/ GetFinalOutput \/ UNCHANGED vars
  PROVE  IInv'
<1> USE DEF IInv, runVars
<1>1. ASSUME NEW r \in Runs, RecordFinalResult(r) PROVE IInv'
  <2> USE <1>1 DEF RecordFinalResult
  <2>1. Types'
    BY DEF Types
  <2>2. Recorded' /\ Roots' /\ Published'
    BY DEF Recorded, Ended, Roots, Published
  <2>3. Launches'
    BY DEF Types, Launches, Ended, Runs
  <2>4. Totals'
    BY DEF Types, Totals, Members, Runs, Blocks, Top
  <2>5. FinalIsComplete'
    BY DEF Types, Totals, FinalIsComplete, FinalOutput, Runs
  <2> QED
    BY <2>1, <2>4, <2>5, <2>2, <2>3
<1>2. CASE GetFinalOutput
  <2> USE <1>2 DEF GetFinalOutput
  <2>1. Types' /\ Recorded' /\ Roots' /\ Launches' /\ Totals'
    BY DEF Types, Recorded, Ended, Roots, Launches, Totals
  <2>2. Published' /\ FinalIsComplete'
    BY DEF Published, FinalIsComplete, FinalOutput
  <2> QED
    BY <2>1, <2>2
<1>3. CASE UNCHANGED vars
  BY <1>3 DEF vars, Types, Recorded, Ended, Roots, Published, Totals, Launches, FinalIsComplete, FinalOutput
<1> QED
  BY <1>1, <1>2, <1>3

LEMMA StepIInv == IInv /\ [Next]_vars => IInv'
BY ExecIInv, FunctionRunIInv, PublishIInv, RecordResultIInv, ExecutorIInv DEF Next, Step, ExecStep

LEMMA Invariance == Spec => []IInv
BY InitIInv, StepIInv, PTL DEF Spec

-----------------------------------------------------------------------------
(* A function that fails leaves nothing behind (fn.go: every error returns *)
(* no output; run_image.go, getFinalResult).                               *)
THEOREM FailureLeavesNothing == Spec => []FailedLeavesNothing
<1>1. IInv => FailedLeavesNothing
  BY DEF IInv, Types, Recorded, Roots, Published, FailedLeavesNothing
<1> QED
  BY Invariance, <1>1, PTL

(* After a success the final output is complete (reconciler.go, after the  *)
(* executor's Run).                                                        *)
THEOREM FinalOutputComplete == Spec => []FinalIsComplete
<1>1. IInv => FinalIsComplete
  BY DEF IInv
<1> QED
  BY Invariance, <1>1, PTL

-----------------------------------------------------------------------------
(* Inputs.                                                                 *)

\* What is above a function that runs has ended, through any number of edges.
LEMMA PathEnded ==
  ASSUME IInv, NEW d \in Vertex, NEW x \in Vertex, Path(Edges, d, x), pc[x] # "idle"
  PROVE  Ended(d)
<1> DEFINE S == {y \in Ends(Edges) : pc[y] # "idle" => Ended(d)}
<1>1. \A e \in Edges : e[1] \in Vertex /\ e[2] \in Vertex /\ e[1] \in Up[e[2]]
  BY PipelineAssumption DEF Edges
<1>2. \A e \in Edges : pc[e[2]] # "idle" => Ended(e[1])
  BY <1>1 DEF IInv, Launches
<1>3. \A e \in Edges : e[1] = d => e[2] \in S
  BY <1>2 DEF Ends
<1>4. Closed(Edges, S)
  BY <1>2 DEF Closed, Ends, Ended
<1>5. x \in S
  BY <1>3, <1>4 DEF Path
<1> QED
  BY <1>5

LEMMA AwaitedEnded ==
  ASSUME IInv, NEW v \in Vertex, NEW d \in Vertex, Awaits(v, d), pc[v] # "idle"
  PROVE  Ended(d)
<1>1. PICK x \in {v} \cup {b \in Blocks : v \in Inner[b]} : Path(Edges, d, x)
  BY DEF Awaits
<1>2. x \in Vertex /\ pc[x] # "idle"
  BY DEF IInv, Launches, Totals, Blocks
<1> QED
  BY <1>1, <1>2, PathEnded

\* So nobody who is connected to the output of v has begun when v publishes it.
LEMMA PublishedBefore ==
  ASSUME IInv, ReferencesConnected, NEW r \in Vertex, pc[r] = "publish", ret[r] = "output",
         NEW v \in Vertex, r \in Refs[v], pc[v] # "idle"
  PROVE  LeftBehind(r)
<1>1. Type[r] # "root" /\ ~Ended(r)
  BY DEF IInv, Roots, Ended
<1>2. ~Awaits(v, r)
  BY <1>1, AwaitedEnded
<1>3. PICK b \in Blocks : r \in Inner[b] /\ Awaits(v, b)
  BY <1>1, <1>2 DEF ReferencesConnected
<1>4. Ended(b)
  BY <1>3, AwaitedEnded DEF Blocks
<1>5. total[b] # "none"
  BY <1>3, <1>4 DEF IInv, Launches, Ended
<1>6. total[b] # "success"
  <2>1. b \in Runs /\ b # Main
    BY PipelineAssumption DEF Runs, Blocks, Main
  <2> QED
    BY <1>3, <2>1 DEF IInv, Totals, Members
<1>7. total[b] = "failure"
  BY <1>5, <1>6 DEF IInv, Types, Runs
<1> QED
  BY <1>3, <1>7 DEF LeftBehind

LEMMA InputsStep ==
  ASSUME IInv, ReferencesConnected, InputsComplete, [Next]_vars
  PROVE  InputsComplete'
<1> SUFFICES ASSUME NEW v \in Vertex, pc'[v] # "idle", NEW r \in Refs[v],
                    r \in DOMAIN store', ~LeftBehind(r)'
             PROVE  r \in seen'[v]
  BY DEF InputsComplete
<1>1. CASE \E u \in Vertex : FunctionRun(u)
  BY <1>1 DEF FunctionRun, InputsComplete, LeftBehind, IInv, Types
<1>2. ASSUME NEW u \in Vertex, Publish(u) PROVE r \in seen'[v]
  <2>1. pc[v] # "idle" /\ seen' = seen /\ ~LeftBehind(r)
    BY <1>2 DEF Publish, runVars, LeftBehind, IInv, Types
  <2>2. CASE r \in DOMAIN store
    BY <2>1, <2>2 DEF InputsComplete
  <2>3. CASE r \notin DOMAIN store
    <3>1. r = u /\ ret[r] = "output" /\ pc[r] = "publish"
      BY <1>2, <2>3 DEF Publish
    <3> QED
      BY <2>1, <3>1, PublishedBefore
  <2> QED
    BY <2>2, <2>3
<1>3. CASE \/ \E u \in Vertex : ExecStep(u) \/ RecordResult(u)
           \/ \E t \in Runs : RecordFinalResult(t)
           \/ GetFinalOutput \/ UNCHANGED vars
  <2>1. UNCHANGED <<seen, store>>
    BY <1>3, ExecSteps DEF ExecEffect, RecordResult, RecordFinalResult, GetFinalOutput, vars, runVars
  <2>2. pc[v] # "idle"
    BY <1>3, ExecSteps DEF ExecEffect, RecordResult, RecordFinalResult, GetFinalOutput, vars, IInv, Types
  <2>3. \A b \in Blocks : total[b] = "failure" => total'[b] = "failure"
    BY <1>3, ExecSteps DEF ExecEffect, RecordResult, RecordFinalResult, GetFinalOutput, vars,
                           IInv, Types, Runs
  <2>4. ~LeftBehind(r)
    BY <2>3 DEF LeftBehind
  <2> QED
    BY <2>1, <2>2, <2>4 DEF InputsComplete
<1> QED
  BY <1>1, <1>2, <1>3 DEF Next, Step, ExecStep

(* Where the references are connected, no function runs on an input that   *)
(* is filled in behind its back (exec_handler.go, FunctionRun; output.go,  *)
(* Add and GetData).                                                       *)
THEOREM InputsAreComplete == ReferencesConnected => (Spec => []InputsComplete)
<1> SUFFICES ASSUME ReferencesConnected PROVE Spec => []InputsComplete
  OBVIOUS
<1>1. Init => InputsComplete
  BY DEF Init, InputsComplete
<1>2. IInv /\ InputsComplete /\ [Next]_vars => InputsComplete'
  BY InputsStep
<1> QED
  BY Invariance, <1>1, <1>2, PTL DEF Spec

-----------------------------------------------------------------------------
(* Ranges.                                                                 *)

\* The instance of item i, and those of the first n items.
OfItem(v, i) == [m \in Names(v) |-> i]
OfItems(v, n) == [k \in 1 .. n |-> OfItem(v, k)]

PerItem(v) == Type[v] = "map" \/ (Type[v] = "slice" /\ v \in Ranged)

DataTypes ==
    /\ DOMAIN env = Vertex /\ \A v \in Vertex : DOMAIN env[v] = Names(v)
    /\ items \in [Vertex -> 0 .. MaxItems] /\ item \in [Vertex -> Nat]
    /\ DOMAIN out = Vertex

\* Slices and maps run per item only, and start from an empty output.
InRange(v) ==
    /\ pc[v] \notin {"single", "inner"}
    /\ pc[v] \in {"idle", "eval"} => out[v] = Empty
    /\ pc[v] = "item" => item[v] \in 1 .. items[v]

\* A slice has the instances of the items it has run, in their order.
SliceSoFar(v) ==
    /\ pc[v] = "item" => out[v] = OfItems(v, item[v] - 1)
    /\ pc[v] = "final" \/ (pc[v] \in {"publish", "record", "ok"} /\ ret[v] = "output")
         => out[v] = OfItems(v, items[v])

\* A map has instances of items.
AreOfItems(v, o) == \A k \in DOMAIN o : \E i \in 1 .. items[v] : o[k] = OfItem(v, i)

RangeInv ==
    /\ DataTypes
    /\ \A v \in Vertex : PerItem(v) => InRange(v)
    /\ \A v \in Vertex : Type[v] = "slice" /\ v \in Ranged => SliceSoFar(v)
    /\ \A v \in Vertex : Type[v] = "map" => AreOfItems(v, out[v])
    /\ \A v \in DOMAIN store : PerItem(v) => store[v] = out[v]

\* Variables computed from VALUE are of the item that VALUE is.
LEMMA Resolved ==
  ASSUME VariablesOfValue, NEW v \in Vertex, NEW e, NEW f \in resolveLocalVars(v, e)
  PROVE  f = OfItem(v, e["VALUE"])
<1>1. f \in [Names(v) -> Absent .. MaxItems] /\ f["VALUE"] = e["VALUE"]
  BY DEF resolveLocalVars
<1>2. \A x \in Var[v] : VarRef[x] = "VALUE" /\ "VALUE" \notin Var[v]
  BY PipelineAssumption DEF VariablesOfValue
<1>3. \A x \in Var[v] : f[x] = e["VALUE"]
  BY <1>2 DEF resolveLocalVars
<1> QED
  BY <1>1, <1>3 DEF OfItem, Names

\* The run of an item, of a slice or a map, records the item's instance.
LEMMA ItemRecorded ==
  ASSUME VariablesOfValue, RangeInv, NEW v \in Vertex, PerItem(v), RunItem(v)
  PROVE  \E o \in recordOutput(v, out[v], OfItem(v, item[v])) : out' = [out EXCEPT ![v] = o]
<1> DEFINE e == [env[v] EXCEPT !["VALUE"] = item[v]]
<1>1. e["VALUE"] = item[v]
  BY DEF RangeInv, DataTypes, Names
<1>2. Type[v] \in executeRange /\ Visible(v) = Names(v)
  BY DEF PerItem, executeRange, Visible
<1>3. PICK f \in resolveLocalVars(v, e) :
        \E o \in recordOutput(v, out[v], Instance(v, f)) : out' = [out EXCEPT ![v] = o]
  BY <1>2 DEF RunItem
<1>4. f = OfItem(v, item[v])
  BY <1>1, Resolved
<1>5. Instance(v, f) = OfItem(v, item[v])
  BY <1>2, <1>4 DEF Instance, OfItem
<1> QED
  BY <1>3, <1>5

\* A slice appends it.
LEMMA SliceAppends ==
  ASSUME NEW v \in Vertex, Type[v] = "slice", NEW n \in Nat,
         NEW o \in recordOutput(v, OfItems(v, n), OfItem(v, n + 1))
  PROVE  o = OfItems(v, n + 1)
<1>1. DOMAIN OfItems(v, n) = 1 .. n /\ Cardinality(1 .. n) = n
  BY FS_Interval DEF OfItems
<1>2. Keys(v, OfItems(v, n)) = {n + 1}
  BY <1>1 DEF Keys, AppendKey
<1>3. o = [k \in 1 .. n \cup {n + 1} |-> IF k = n + 1 THEN OfItem(v, n + 1) ELSE OfItems(v, n)[k]]
  BY <1>1, <1>2 DEF recordOutput
<1>4. 1 .. n \cup {n + 1} = 1 .. n + 1
  OBVIOUS
<1>5. \A k \in 1 .. n : OfItems(v, n)[k] = OfItem(v, k)
  BY DEF OfItems
<1> QED
  BY <1>3, <1>4, <1>5 DEF OfItems

\* A map takes a key for it.
LEMMA MapAdds ==
  ASSUME NEW v \in Vertex, NEW m, AreOfItems(v, m), NEW i \in 1 .. items[v],
         NEW o \in recordOutput(v, m, OfItem(v, i))
  PROVE  AreOfItems(v, o)
<1>1. PICK key : o = [k \in DOMAIN m \cup {key} |-> IF k = key THEN OfItem(v, i) ELSE m[k]]
  BY DEF recordOutput
<1> QED
  BY <1>1 DEF AreOfItems

LEMMA InitRange == Init => RangeInv
<1> SUFFICES ASSUME Init PROVE RangeInv
  OBVIOUS
<1>1. DataTypes
  BY PipelineAssumption DEF Init, DataTypes
<1>2. \A v \in DOMAIN store : ~PerItem(v)
  BY DEF Init, PerItem
<1>3. \A v \in Vertex : InRange(v) /\ SliceSoFar(v) /\ AreOfItems(v, out[v])
  BY DEF Init, InRange, SliceSoFar, AreOfItems, Empty
<1> QED
  BY <1>1, <1>2, <1>3 DEF RangeInv

\* A vertex whose step leaves range and output alone keeps the invariant, also
\* when it goes on to return.
Untouched(v) ==
    /\ items'[v] = items[v] /\ item'[v] = item[v] /\ out'[v] = out[v]
    /\ \/ pc'[v] = pc[v] /\ ret'[v] = ret[v]
       \/ pc[v] \in {"idle", "eval"} /\ pc'[v] = "eval"
       \/ pc'[v] = "publish" /\ ret'[v] # "output"
       \/ pc[v] = "final" /\ pc'[v] = "publish"
       \/ pc[v] = "eval" /\ pc'[v] = "final" /\ v \notin Ranged
       \/ pc[v] = "publish" /\ pc'[v] = "record" /\ ret'[v] = ret[v]
       \/ pc[v] = "record" /\ pc'[v] \in {"ok", "failed"} /\ ret'[v] = ret[v]

Kept(v) ==
    /\ PerItem(v) => InRange(v)
    /\ Type[v] = "slice" /\ v \in Ranged => SliceSoFar(v)
    /\ Type[v] = "map" => AreOfItems(v, out[v])

LEMMA UntouchedKept ==
  ASSUME NEW v \in Vertex, Kept(v), PerItem(v) => Untouched(v)
  PROVE  Kept(v)'
<1>1. CASE ~PerItem(v)
  BY <1>1 DEF Kept, PerItem
<1>2. CASE PerItem(v)
  <2>1. InRange(v)'
    BY <1>2 DEF Kept, InRange, Untouched
  <2>2. Type[v] = "slice" /\ v \in Ranged => SliceSoFar(v)'
    BY <1>2 DEF Kept, InRange, SliceSoFar, Untouched
  <2>3. Type[v] = "map" => AreOfItems(v, out[v])'
    BY <1>2 DEF Kept, AreOfItems, Untouched
  <2> QED
    BY <2>1, <2>2, <2>3 DEF Kept
<1> QED
  BY <1>1, <1>2

LEMMA DataTypesStep ==
  ASSUME IInv, DataTypes, [Next]_vars
  PROVE  DataTypes'
<1> USE DEF DataTypes
<1>1. ASSUME NEW u \in Vertex, NEW n \in 0 .. MaxItems, EvalRange(u, n) PROVE DataTypes'
  BY <1>1 DEF EvalRange
<1>2. ASSUME NEW u \in Vertex, RunItem(u) PROVE DataTypes'
  <2>1. PICK f \in resolveLocalVars(u, [env[u] EXCEPT !["VALUE"] = item[u]]) : env' = [env EXCEPT ![u] = f]
    BY <1>2 DEF RunItem
  <2>2. DOMAIN f = Names(u)
    BY DEF resolveLocalVars
  <2>3. DOMAIN env' = Vertex /\ \A v \in Vertex : DOMAIN env'[v] = Names(v)
    BY <2>1, <2>2
  <2>4. DOMAIN out' = Vertex
    BY <1>2 DEF RunItem
  <2>5. items' = items /\ item' \in [Vertex -> Nat]
    BY <1>2 DEF RunItem
  <2> QED
    BY <2>3, <2>4, <2>5
<1>3. ASSUME NEW u \in Vertex, RunSingle(u) PROVE DataTypes'
  <2>1. PICK f \in resolveLocalVars(u, env[u]) : env' = [env EXCEPT ![u] = f]
    BY <1>3 DEF RunSingle
  <2>2. DOMAIN f = Names(u)
    BY DEF resolveLocalVars
  <2>3. DOMAIN env' = Vertex /\ \A v \in Vertex : DOMAIN env'[v] = Names(v)
    BY <2>1, <2>2
  <2>4. DOMAIN out' = Vertex /\ items' = items /\ item' = item
    BY <1>3 DEF RunSingle
  <2> QED
    BY <2>3, <2>4
<1>4. CASE UNCHANGED <<env, items, item, out>>
  BY <1>4
<1> QED
  BY <1>1, <1>2, <1>3, <1>4
     DEF Next, Step, FunctionRun, EvalFails, ConditionFalse, NoRange, RunItemFails, RunSingleFails,
         BlockReturns, GetFinalResult, Publish, RecordResult, RecordFinalResult, GetFinalOutput,
         vars, runVars

\* The range is begun, and an item is run.
LEMMA EvalRangeKept ==
  ASSUME IInv, RangeInv, NEW v \in Vertex, NEW n \in 0 .. MaxItems, EvalRange(v, n), PerItem(v)
  PROVE  Kept(v)'
<1> USE DEF IInv, Types, RangeInv, DataTypes
<1>1. out' = out /\ out[v] = Empty
  BY DEF EvalRange, InRange
<1>2. CASE n = 0
  <2>1. pc'[v] = "publish" /\ ret'[v] = "empty"
    BY <1>2 DEF EvalRange, Returns
  <2> QED
    BY <1>1, <2>1 DEF Kept, InRange, SliceSoFar, AreOfItems, Empty
<1>3. CASE n # 0
  <2>1. pc'[v] = "item" /\ items'[v] = n /\ item'[v] = 1 /\ n \in Nat
    BY <1>3, PipelineAssumption DEF EvalRange
  <2>2. OfItems(v, item'[v] - 1) = Empty
    BY <2>1 DEF OfItems, Empty
  <2> QED
    BY <1>1, <1>3, <2>1, <2>2 DEF Kept, InRange, SliceSoFar, AreOfItems, Empty
<1> QED
  BY <1>2, <1>3

LEMMA RunItemKept ==
  ASSUME VariablesOfValue, IInv, RangeInv, NEW v \in Vertex, RunItem(v), PerItem(v)
  PROVE  Kept(v)'
<1>1. PICK o \in recordOutput(v, out[v], OfItem(v, item[v])) : out' = [out EXCEPT ![v] = o]
  BY ItemRecorded
<1>2. /\ out'[v] = o /\ items' = items /\ item'[v] = item[v] + 1
      /\ items[v] \in Nat /\ item[v] \in 1 .. items[v]
      /\ pc'[v] = IF item[v] = items[v] THEN "final" ELSE "item"
  <2>1. pc[v] = "item" /\ item[v] \in 1 .. items[v]
    BY DEF RunItem, RangeInv, InRange
  <2>2. AfterRange(v) = "final"
    BY DEF AfterRange, PerItem, executeSingle
  <2> QED
    BY <1>1, <2>1, <2>2, PipelineAssumption DEF RunItem, RangeInv, DataTypes, IInv, Types
<1>3. InRange(v)'
  BY <1>2 DEF InRange
<1>4. CASE Type[v] = "slice" /\ v \in Ranged
  <2>1. out[v] = OfItems(v, item[v] - 1)
    BY <1>4 DEF RunItem, RangeInv, SliceSoFar
  <2>2. item[v] - 1 \in Nat /\ (item[v] - 1) + 1 = item[v]
    BY <1>2
  <2>3. o = OfItems(v, item[v])
    BY <1>4, <2>1, <2>2, SliceAppends
  <2>4. SliceSoFar(v)'
    BY <1>2, <2>3 DEF SliceSoFar
  <2> QED
    BY <1>3, <1>4, <2>4 DEF Kept
<1>5. CASE Type[v] = "map"
  <2>1. AreOfItems(v, out[v])
    BY <1>5 DEF RangeInv
  <2>2. AreOfItems(v, o)
    BY <1>2, <2>1, MapAdds
  <2>3. AreOfItems(v, out[v])'
    BY <1>2, <2>2 DEF AreOfItems
  <2> QED
    BY <1>3, <1>5, <2>3 DEF Kept
<1> QED
  BY <1>4, <1>5 DEF PerItem

\* Every other step leaves a slice or a map untouched.
LEMMA OthersUntouched ==
  ASSUME IInv, RangeInv, NEW v \in Vertex, NEW u \in Vertex, u # v, Step(u)
  PROVE  Untouched(v)
<1> USE DEF Untouched, IInv, Types, RangeInv, DataTypes
<1>1. CASE ExecStep(u)
  <2>1. pc'[v] = pc[v] /\ ret'[v] = ret[v]
    BY <1>1, ExecSteps DEF ExecEffect
  <2>2. items'[v] = items[v] /\ item'[v] = item[v] /\ out'[v] = out[v]
    BY <1>1 DEF ExecStep, EvalFails, ConditionFalse, NoRange, EvalRange, RunItem, RunItemFails,
                RunSingle, RunSingleFails, BlockReturns, GetFinalResult, runVars
  <2> QED
    BY <2>1, <2>2
<1>2. CASE FunctionRun(u) \/ Publish(u) \/ RecordResult(u)
  BY <1>2 DEF FunctionRun, Publish, RecordResult, runVars
<1> QED
  BY <1>1, <1>2 DEF Step, ExecStep

LEMMA OwnStep ==
  ASSUME IInv, RangeInv, NEW v \in Vertex, PerItem(v), Step(v)
  PROVE  Untouched(v) \/ RunItem(v) \/ \E n \in 0 .. MaxItems : EvalRange(v, n)
<1> USE DEF Untouched, IInv, Types, RangeInv, DataTypes
<1>1. InRange(v) /\ AfterRange(v) = "final"
  BY DEF AfterRange, PerItem, executeSingle
<1>2. CASE FunctionRun(v) \/ Publish(v) \/ RecordResult(v)
  BY <1>2 DEF FunctionRun, Publish, RecordResult, runVars
<1>3. CASE EvalFails(v) \/ ConditionFalse(v) \/ RunItemFails(v)
  BY <1>3 DEF EvalFails, ConditionFalse, RunItemFails, Returns
<1>4. CASE NoRange(v)
  BY <1>1, <1>4 DEF NoRange, runVars
<1>5. CASE GetFinalResult(v)
  BY <1>5 DEF GetFinalResult, Returns
<1>6. ~(RunSingle(v) \/ RunSingleFails(v) \/ BlockReturns(v))
  BY <1>1 DEF InRange, RunSingle, RunSingleFails, BlockReturns
<1> QED
  BY <1>2, <1>3, <1>4, <1>5, <1>6 DEF Step

LEMMA KeptStep ==
  ASSUME VariablesOfValue, IInv, RangeInv, [Next]_vars, NEW v \in Vertex
  PROVE  Kept(v)'
<1>1. Kept(v)
  BY DEF Kept, RangeInv
<1>2. CASE Untouched(v)
  BY <1>1, <1>2, UntouchedKept
<1>3. CASE ~PerItem(v)
  BY <1>1, <1>3, UntouchedKept
<1>4. CASE PerItem(v) /\ Step(v)
  BY <1>2, <1>4, OwnStep, RunItemKept, EvalRangeKept
<1>5. CASE \E u \in Vertex : u # v /\ Step(u)
  BY <1>2, <1>5, OthersUntouched
<1>6. CASE (\E r \in Runs : RecordFinalResult(r)) \/ GetFinalOutput \/ UNCHANGED vars
  <2>1. UNCHANGED <<pc, ret, items, item, out>>
    BY <1>6 DEF RecordFinalResult, GetFinalOutput, vars, runVars
  <2> QED
    BY <1>2, <2>1 DEF Untouched
<1> QED
  BY <1>3, <1>4, <1>5, <1>6 DEF Next

\* What a slice or a map has put into the shared output is its own output.
StoredIsOut == \A v \in DOMAIN store : PerItem(v) => store[v] = out[v]

LEMMA StoredStep ==
  ASSUME IInv, RangeInv, [Next]_vars
  PROVE  StoredIsOut'
<1> SUFFICES ASSUME NEW v \in DOMAIN store', PerItem(v) PROVE store'[v] = out'[v]
  BY DEF StoredIsOut, PerItem
<1> USE DEF IInv, Types
<1>1. CASE \E u \in Vertex : Publish(u)
  BY <1>1 DEF Publish, runVars, RangeInv
<1>2. CASE ~\E u \in Vertex : Publish(u)
  <2>1. store' = store
    BY <1>2, ExecSteps DEF Next, Step, ExecStep, ExecEffect, FunctionRun, RecordResult,
                           RecordFinalResult, GetFinalOutput, vars
  <2>2. v \in Vertex /\ store[v] = out[v] /\ pc[v] \in {"record", "ok"}
    BY <2>1 DEF RangeInv, Published, PerItem
  <2>3. out'[v] = out[v]
    <3>1. CASE \E u \in Vertex : u # v /\ Step(u)
      BY <2>2, <3>1, OthersUntouched DEF Untouched
    <3>2. CASE Step(v)
      BY <2>2, <3>2, OwnStep DEF Untouched, RunItem, EvalRange
    <3>3. CASE ~\E u \in Vertex : Step(u)
      BY <3>3 DEF Next, RecordFinalResult, GetFinalOutput, vars, runVars
    <3> QED
      BY <3>1, <3>2, <3>3
  <2> QED
    BY <2>1, <2>2, <2>3
<1> QED
  BY <1>1, <1>2

LEMMA RangeStep ==
  ASSUME VariablesOfValue, IInv, RangeInv, [Next]_vars
  PROVE  RangeInv'
<1>1. DataTypes'
  BY DataTypesStep DEF RangeInv
<1>2. \A v \in Vertex : Kept(v)'
  BY KeptStep
<1>3. StoredIsOut'
  BY StoredStep
<1> QED
  BY <1>1, <1>2, <1>3 DEF RangeInv, Kept, StoredIsOut

(* A slice over a range leaves one instance per item, in their order, and  *)
(* no instance of a map mixes two items, where no local variable is        *)
(* computed from another one (fn.go, exec and resolveLocalVars;            *)
(* run_slice.go and run_map.go, recordOutput).                             *)
THEOREM RangesAreRecorded == VariablesOfValue => (Spec => []RangeRecorded)
<1> SUFFICES ASSUME VariablesOfValue PROVE Spec => []RangeRecorded
  OBVIOUS
<1>1. IInv /\ RangeInv /\ [Next]_vars => RangeInv'
  BY RangeStep
<1>2. ASSUME IInv, RangeInv PROVE RangeRecorded
  <2> SUFFICES ASSUME NEW v \in DOMAIN store, PerItem(v)
               PROVE  /\ Type[v] = "slice" => store[v] = OfItems(v, items[v])
                      /\ Type[v] = "map" => AreOfItems(v, store[v])
    BY DEF RangeRecorded, PerItem, OfItems, OfItem, AreOfItems
  <2>1. v \in Vertex /\ store[v] = out[v] /\ pc[v] \in {"record", "ok"} /\ ret[v] = "output"
    BY <1>2 DEF IInv, Types, Published, RangeInv, PerItem
  <2> QED
    BY <1>2, <2>1 DEF RangeInv, SliceSoFar, PerItem
<1>3. IInv /\ RangeInv => RangeRecorded
  BY <1>2
<1> QED
  BY Invariance, InitRange, <1>1, <1>3, PTL DEF Spec

-----------------------------------------------------------------------------
(* FnRuntime, the runtime below the image functions.                       *)
\* The one call that is in the check holds the Once.
OnceHeld ==
    /\ \A c \in Call : Checking(c) => once = "running"
    /\ \A c, d \in Call : Checking(c) /\ Checking(d) => c = d

\* Beyond the Once the check is done; a command belongs to a call that runs
\* it, or has returned.
Beyond ==
    \A c \in Call :
        /\ Container(c) /\ (callPc[c] \in {"start", "running"} \/ command[c] # "none") => once = "done"
        /\ command[c] # "none" => callPc[c] \in {"running", "returned"}
        /\ command[c] = "alive" => callPc[c] = "running"

\* A pipe is held only while its call waits for it.
PipeHeld == \A c \in Call : c \in held => Checking(c) \/ callPc[c] = "running"

RuntimeIInv == RuntimeTypeOK /\ OnceHeld /\ Beyond /\ PipeHeld

LEMMA InitRuntime == RuntimeInit => RuntimeIInv
BY FunctionsAssumption DEF RuntimeInit, RuntimeIInv, RuntimeTypeOK, OnceHeld, Beyond,
   PipeHeld, Checking, Runtimes, Container

LEMMA StepRuntime == RuntimeIInv /\ [RuntimeNext]_runtimeVars => RuntimeIInv'
<1> SUFFICES ASSUME RuntimeIInv, [RuntimeNext]_runtimeVars PROVE RuntimeIInv'
  OBVIOUS
<1> USE DEF RuntimeIInv, RuntimeTypeOK, OnceHeld, Beyond, PipeHeld, Checking, Container,
            Service, envVars, callVars, Goto, Return
<1>1. ASSUME NEW c \in Call, Run(c) PROVE RuntimeIInv'
  BY <1>1 DEF Run
<1>2. ASSUME NEW c \in Call, OnceFirst(c) PROVE RuntimeIInv'
  BY <1>2 DEF OnceFirst
<1>3. ASSUME NEW c \in Call, OncePasses(c) PROVE RuntimeIInv'
  BY <1>3 DEF OncePasses
<1>4. ASSUME NEW c \in Call, NEW inTime \in BOOLEAN, CheckExits(c, inTime) PROVE RuntimeIInv'
  BY <1>4 DEF CheckExits
<1>5. ASSUME NEW c \in Call, CheckEnds(c) PROVE RuntimeIInv'
  BY <1>5 DEF CheckEnds
<1>6. ASSUME NEW c \in Call, Fork(c) \/ ChildEnds(c) PROVE RuntimeIInv'
  BY <1>6 DEF Fork, ChildEnds
<1>7. ASSUME NEW c \in Call, Start(c) PROVE RuntimeIInv'
  BY <1>7 DEF Start
<1>8. ASSUME NEW c \in Call, StartFails(c) PROVE RuntimeIInv'
  BY <1>8 DEF StartFails
<1>9. ASSUME NEW c \in Call, Finish(c) PROVE RuntimeIInv'
  BY <1>9 DEF Finish
<1>10. ASSUME NEW c \in Call, Write(c) PROVE RuntimeIInv'
  BY <1>10 DEF Write
<1>11. ASSUME NEW c \in Call, NEW code \in {"zero", "failed"}, Exit(c, code) PROVE RuntimeIInv'
  BY <1>11 DEF Exit
<1>12. ASSUME NEW c \in Call, Kill(c) PROVE RuntimeIInv'
  BY <1>12 DEF Kill
<1>13. ASSUME NEW c \in Call, Cancel(c) PROVE RuntimeIInv'
  BY <1>13 DEF Cancel
<1>14. ASSUME NEW i \in {"missing", "old", "supported"}, Install(i) PROVE RuntimeIInv'
  BY <1>14 DEF Install
<1>15. CASE UNCHANGED runtimeVars
  BY <1>15 DEF runtimeVars
<1> QED
  BY <1>1, <1>2, <1>3, <1>4, <1>7, <1>8, <1>9, <1>10, <1>11, <1>12, <1>13, <1>14, <1>15, <1>5, <1>6
  DEF RuntimeNext, CallStep, ProcessStep

(* The inductive invariant: a call in the check holds the Once, and a call *)
(* beyond it has waited for the check.                                     *)
LEMMA RuntimeInvariance == RuntimeSpec => []RuntimeIInv
<1>1. RuntimeInit => RuntimeIInv
  BY InitRuntime
<1>2. RuntimeIInv /\ [RuntimeNext]_runtimeVars => RuntimeIInv'
  BY StepRuntime
<1> QED
  BY <1>1, <1>2, PTL DEF RuntimeSpec

(* Containers start after the one check of their runtime: Once.Do in FnRun *)
(* and SvcRun.                                                             *)
THEOREM CheckBeforeContainer == RuntimeSpec => []CheckedFirst
<1>1. RuntimeIInv => CheckedFirst
  BY DEF RuntimeIInv, OnceHeld, Beyond, CheckedFirst
<1> QED
  BY <1>1, RuntimeInvariance, PTL

(* Nothing is written to the output of a call that has returned: cmd.Run   *)
(* in runFnCLI, runSvcCLI and ExecFn.FnRun waits for the process and for   *)
(* whoever else has its pipe.                                              *)
THEOREM OutputsAreFinal == RuntimeSpec => OutputIsFinal
<1>1. ASSUME RuntimeIInv, [RuntimeNext]_runtimeVars, NEW c \in Call, callPc[c] = "returned"
      PROVE  callOut'[c] = callOut[c]
  <2>1. command[c] # "alive" /\ c \notin held
    BY <1>1 DEF RuntimeIInv, Beyond, PipeHeld, Checking
  <2>2. ASSUME NEW d \in Call, Write(d) PROVE callOut'[c] = callOut[c]
    BY <1>1, <2>1, <2>2 DEF Write, RuntimeIInv, RuntimeTypeOK
  <2>3. ASSUME callOut' # callOut PROVE \E d \in Call : Write(d)
    BY <1>1, <2>3 DEF RuntimeNext, CallStep, ProcessStep, Run, OnceFirst, OncePasses,
      CheckExits, CheckEnds, Start, StartFails, Finish, Exit, Fork, ChildEnds, Kill, Cancel,
      Install, callVars, runtimeVars
  <2> QED
    BY <2>2, <2>3
<1>2. RuntimeIInv /\ [RuntimeNext]_runtimeVars =>
        [\A c \in Call : callPc[c] = "returned" => callOut'[c] = callOut[c]]_runtimeVars
  BY <1>1
<1> QED
  BY <1>2, RuntimeInvariance, PTL DEF RuntimeSpec, OutputIsFinal
=============================================================================
