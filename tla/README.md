# A TLA+ model of lcnc-runtime

lcnc-runtime is a low-code Kubernetes controller. A `ControllerConfig` says which
custom resource (CR) is reconciled and by which pipelines of functions; the
runtime turns each pipeline into a graph of functions and runs it for every event
on a CR. This directory holds a model of that machinery in TLA+, the TLC runs
that check it on small instances, and proofs checked by TLAPS.

`PROJECT.json` maps every definition to the source lines it models and lists the
runs, the mutants (a plausible wrong version of a definition for each property,
which TLC must catch), the findings, the hazards and the theorems.

## 1. The system

    main.go -> builder -> manager ---- runnable groups (caches, others, leader election)
                             |
                         controller -- work queue, workers, watches
                             |
                         reconciler -- API server
                             |
             parser -> function graph (DAG) -> transitive reduction
                             |
                         executor -- one goroutine per function, channels per edge
                             |
                         functions -- jq, query, slice, map, template, image, block
                             |
                         function runtime -- containers, commands, services

| component | state | operations | talks to |
|---|---|---|---|
| manager (`pkg/manager/internal.go`) | mutex, `started`, `elected`, stop flag, shutdown context, health handlers | `Start`, `Add`, `AddHealthzCheck`, `engageStopProcedure` | the groups, `errChan`, the caller's context |
| runnable group (`pkg/manager/runnable_group.go`) | start queue, `ch`, `startReadyCh`, WaitGroup, `stopped` | `Add`, `Start`, `reconcile`, `StopAndWait` | runnables through goroutines, `errChan` |
| controller (`pkg/internal/controller`) | mutex, `started`, `startWatches`, work queue | `Watch`, `Start`, `processNextWorkItem`, `reconcileHandler` | sources, client-go's queue, the reconciler |
| event handler (`pkg/controllers/eventhandler`) | none | `Create`, `Update`, `Delete`, `Generic` | a watch pipeline; the queue (the call is commented out) |
| reconciler (`pkg/controllers/reconciler`) | the CR it has read, the output to apply | `Reconcile` | API server, pipelines |
| function graph (`pkg/ccutils/dag`) | vertices, up and down edges, depths | `AddVertex`, `Connect`, `Disconnect`, `TransitiveReduction` | the parser, the executor |
| executor (`pkg/ccutils/executor`) | per vertex `visited`, `finished`, a mutex, channels to dependents and to main | `Run`, `execute`, `waitDependencies`, `run`, `waitFunctionCompletion` | the handler's `FunctionRun` and post-run callback |
| function execution (`pkg/exec`) | shared `Output` and `Result`, per function input and output | `FunctionRun`, `exec`, `run`, `recordOutput`, `getFinalResult` | executor, jq, API server, containers, services |
| parser (`pkg/ccsyntax`) | the graphs by object, operation and block, the variables, the services, the errors of a walk | validate, init, populate, resolve, connect, reduce, `GetExternalResources` | the graph and its reduction; the executor, which runs what it builds |
| function runtime (`pkg/exec/fnruntime`) | the once-only check, per call its command, output and context | `NewRunner`, `Run`, `FnRun`, `SvcRun`, `ContainerRuntimeAvailable` | the host's container runtime; function execution |
| event recorder, builder, helpers, types | see section 7 | | |

What is hard in it: goroutines that meet on unbuffered channels in the order of
Go maps (executor); test and act in separate critical sections (executor, group);
start and stop of groups that wait for each other (manager); a queue that must
neither lose nor double a key (controller); conflicts, failed calls, deletion
during an apply (reconciler); edges deleted while a recursion over them goes on
(graph); one input and one output shared between the items of a range, and
executors inside blocks (functions); walks over Go maps that go on after an error,
on graphs that miss what failed (parser); calls that meet at a check made only once,
and commands that hang, leave children behind, or fail after they have answered
(function runtime).

What makes each part correct:

- **executor**: a function runs at most once and after those it depends on;
  success is reported only if every function succeeded, and nothing runs after it; a
  run ends.
- **group**: an accepted runnable is started; a stopped group is quiet;
  `StopAndWait` returns.
- **manager**: caches start first; a clean return leaves nothing running; a cancelled
  `Start` returns.
- **controller**: no object is reconciled twice at once; no event is lost.
- **reconciler**: children and status follow the spec; a CR goes only after its
  delete pipeline has run; a deleted CR goes.
- **graph**: the reduction keeps the graph consistent and ends.
- **functions**: a function's input is complete, each instance comes from its own
  item, a failure leaves nothing to apply.
- **parser**: a function depends on what it uses; each graph has one start and reaches
  the members of its blocks; what is not well formed is refused.
- **function runtime**: no container before the check; the output of a call that has
  returned is final; every call returns.

## 2. The modules

**Executor** models one `Run`. Walkers are the goroutines inside `execute`; those of
one vertex are indistinguishable and are counted per stage (called, past the
`visited` test, waiting for the mutex). Worker `<<v, s>>` is the s-th goroutine
started for `v`, with the loop it is in as `todo`/`cur`. `main` is the caller of `Run`. All
channels are unbuffered, so a send and its receive are one step; the order of a
loop over a map is arbitrary. The timeouts that only log are stuttering steps.
The function is a step that returns `ok` or not.

**DagRun** is the abstract promise of a run: start a function once, after its
dependencies have returned; conclude once. `Executor` implements it
(`ImplementsDagRun`) under the mapping `VertexStatus`.

**RunnableGroup** models one group: a caller of `Add` per runnable, `Start`, the
`reconcile` goroutine, a goroutine and a check per runnable, `StopAndWait`.

**Manager** composes three groups, taken at what RunnableGroup shows (a phase per
group, a state per runnable), with `Start`, the leader election goroutine, the stop
procedure with its draining goroutine, `Add` and the health checks. A caller of
`Start` also stands for the cluster runnable its call adds.

**Controller** models `Watch`, `Start`, the workers and their use of client-go's
queue (`ready`, `dirty`, `processing`, `delayed`; external). `Reconcile` answers
with any result that `reconcileHandler` tells apart. `owed` remembers keys with an
event or a failure and no Reconcile since.

**Reconciler** models `Reconcile` on one CR with a step per call to the API server.
The server is external, and so is the watch, which delivers a change later, several as
one, and everything again with each resync. `Get` reads the server: the manager's client
has no cache for unstructured objects. "Same resourceVersion" is equality of
records, since no write brings an old record back. A pipeline is a step that may
fail; the queue is taken as Controller shows it.

**Dag** models the graph and its reduction. `trwalk` is recursive; `stack` is its
call stack, and each loop takes the next vertex from its map in any order. **Graph**
holds what Dag, Parser and FnExec say of graphs: paths, cycles and `ReducesTo`, the
promise of the reduction. A path is defined by closed sets rather than by a recursion,
so that it can be proved about. Dag keeps the promise (`ReducedAsPromised`), and
`Reduce` of Parser may leave any graph that the promise allows. `ExecutorReady` of
Parser gives in turn most of what Executor takes as `GraphAssumption`: the root and that
nothing leads into it, for a graph that belongs to one object, and dependencies that are
vertices, but for those that nothing resolves (`Unresolved`; section 5). On one of those
the executor dereferences nil (`executor.go:92`), which Executor leaves out.

**Parser** models the seven walks over a configuration, one step per callback. A
configuration is a record of objects, pipelines and services; the elements of a
pipeline are kept by path, and a string is a sequence of tokens, of which
`GetReferences` tells `$`, `_` and separators from names. A walk takes the entries of
each map in any order, but an object, and a block, to its end (`Precedes`,
`NextEntry`). An error is recorded and the walk goes on; at its end the parse goes on
(`Proceed`) or is refused (`Refuse`). What is left out of the configuration is a nil
pointer (`Nil`, `nilPipeline`, `properties`, `hasInput`, `hasOutput`). Where the code
dereferences one, or goes round a cycle, the step is `Crash`; `ValidateCrashes` holds the
dereferences of the first walk, `Crashes` those of the later ones.

**FnRuntime** models calls of `NewRunner` and `Run` side by side: `Once.Do`, the check
with its own timeout, the command with its process, timeout and cancellation. `cmd.Run`
returns when the process is gone and its output is closed: a child that the process has
left with the pipe (`held`) keeps the call waiting. The installed runtime changes at any
time.

**FnExec** models what functions exchange. When a function may start is DagRun's
promise; a block runs an executor of its own over `Inner[b]`. Data is reduced to
provenance: `VALUE` is the item it was set for, a variable is the item it was
computed for, an instance is the `VALUE` and variables its run saw. That is enough
to tell an output made of the right item from one made of another or of none.

MCExecutor, MCExecutorSym, MCDag, MCFnExec, MCParser and MCFnRuntime give the
instances. The modules that end in **Proofs** hold the theorems about the module they
extend; FnExecProofs has those of FnRuntime as well (its names are kept
apart from those of FnExec, so that one module extends both).

## 3. The runs

All runs switch off TLC's deadlock check: a run of the executor, a stopped group, a
returned `Start`, a settled CR, a reduced graph, a parsed configuration and calls that
have returned are places where the system stops. `TypeOK` of Executor, RunnableGroup,
Manager, Controller and FnRuntime is proved; that of the others can be put into their
cfg and holds.

| run | instance | what it shows |
|---|---|---|
| `executor_tree` | root -> a -> b, root -> c | `RunEnds`: whatever fails or is cancelled, main reaches the post-run callback; `ImplementsDagRun` |
| `executor_tail` | root -> a, b -> d -> x | `RunOnce`, `SuccessIsTotal`, `QuietAfterSuccess`, `NoSendOnClosed`, `DependenciesFirst` where d has two walkers, may have two workers, and has a dependent |
| `executor_mesh` | root -> a, b -> x, y | violates `FinishedIsHeard` |
| `group` | three runnables | `NoAddAfterWait`, `StoppedIsQuiet`, `SignalBeforeClose`, `AcceptedIsStarted`, `StopEnds` with adds before, during and after start and stop |
| `manager` | two calls of `Start`, one controller, one probe | `CachesFirst`, `CleanReturn`, `StartEnds` with failures, cancellation and the end of the grace period at any time |
| `controller` | two workers, two keys, two callers, both kinds of source | `NeverConcurrent`, `AcceptedIsLive`, `OwedIsReconciled`, `ShutdownEnds` |
| `reconciler` | two creations of a CR, two specs each, two children, one failure | `CleanedBeforeGone`, `Converges`, `DeletionEnds` |
| `dag` | every acyclic graph on four vertices | `EdgesAgree`, `ReducedAsPromised`, `ReductionEnds` in every order of the maps |
| `fn_exec` | slice, map in a conditional block, conditional container, each over a range of at most two items; query and template | `RangeRecorded`, `FailedLeavesNothing`, `FinalIsComplete`, `InputsComplete` |
| `parser` | 100 configurations | in every order of the maps: `ProducersFirst`, of the graphs that are connected and not yet reduced; `BlocksReached`, `OneProducer` and `ExecutorReady`, of what is handed out; `CrashesExplained` |
| `parser_scope` | the same | violates `OuterProducersFirst` |
| `fn_runtime` | a call for a container beside one for any function, two changes of the installed runtime | `CheckedFirst`, `OutputIsFinal`, `CallsEnd` |

Why the bounds are enough. The races of the executor need one vertex with two
dependencies (tail), the writer-waiting case needs it to have a dependent (tail),
the circle of waits needs two such vertices over the same two (mesh). A worker's
slot is bounded by the number of paths from the root, so `MaxWorkers` 2 loses
nothing on these graphs. Three runnables are one in the queue, one on the channel
and one being added. Two workers and two keys are one key contended for and one
that must not be starved. Two creations of a CR are the second that meets what was
applied for the first; one failure is enough because a failure leaves nothing behind that a
second one would meet but a further retry. An item order, a mix of two items and a
lost item all show with two items. `Dag` is exhaustive for its four vertices; the
shortest graph on which the reduction loses a dependency has five. The
configurations of `parser` have two functions, a block of two members and a delete
pipeline, which refer to each other, to the range and to the object in every
combination that a rule of the connector tells apart, and one configuration per error
the validation knows, per pointer that may be nil and per omission it does not know; a
second object, of the same or of
another kind, is there for the shared keys. Two calls are one in the check and one that
waits for it or comes after it; two changes are a runtime that comes and goes.

Symmetry is used in the two `MCExecutorSym` runs only, which check invariants, and
the permutations are automorphisms of the graph.

## 4. Fairness

- *Executor*: weak fairness of every walker, every worker and main: the Go scheduler
  runs a goroutine that can run, and functions return. Nobody has to cancel.
- *RunnableGroup*: weak fairness of an accepted `Add`, `Start`, the loop,
  `StopAndWait`, the reader of `errChan`, and of runnables once they are cancelled.
  That a check answers is assumed in `FairSpec` only.
- *Manager*: weak fairness of all goroutines, of the timer and of runnables whose
  group is being stopped, as one condition (no behaviour has infinitely many
  steps, so one condition says as much as one per goroutine); that the cache syncs
  is assumed in `FairSpec` only. Nobody has to cancel or to fail.
- *Controller*: weak fairness of `Start`, the workers, the ends of delays and the
  shutdown; nothing makes a source sync, an event happen or the context end.
- *Reconciler*: weak fairness of Reconcile, of the watch, of the ends of delays and
  of other owners releasing a deleted CR. Failures are bounded by `MaxFail`. The resync
  is not relied on.
- *Dag*: a function that is called runs.
- *Parser*: none; its properties are invariants.
- *FnRuntime*: weak fairness of every call and of the end of its command by timeout or
  cancellation. A process need never write or exit, a child need never end, and nobody
  has to cancel.

## 5. Where code and comments disagree

Findings with a run:

1. **Finished vertices that cannot say so** (`exec_context.go:82`, `executor_mesh`).
   With a, b -> x, y: a sends to x first, x waits for b first, b sends to y first and
   y waits for a first. Nobody can go on.
2. **A block does not wait for what its members use** (`parser_connector.go:184`,
   `parser_scope`). For a reference from a member to an output outside the block the
   code connects a name that is never set to a name it has just emptied: the graph of
   the pipeline gets an edge from "" to "", and the block may run first.

### Known divergences without a run

Stated in the modules as well; TLC refutes each on the instance given, when it is put
in the place of the properties of the component's run, or with the cfg named.

| property | instance | what happens |
|---|---|---|
| Executor `FailureStopsDependents` | `ExecutorFailure.cfg` | a value received from an open channel continues the loop before it is looked at; the branch that says "dependency failed" is reached only when the channel is closed (`exec_context.go:110`) |
| Dag `DependenciesKept` | `DagOrder.cfg` | a vertex is cut off from every up vertex that is not the deepest: with 1->2->3->5 and 1->4->5 the edge 4->5 goes although nothing else leads from 4 to 5 (`transitive_reduction.go:63`) |
| FnExec `EveryInstanceRecorded` | `FnExecRange.cfg` | after the run per item a container over a range runs once more on a fresh output, and keeps one instance (`fn.go:116`) |
| Manager `CachesStopFirst` | `ManagerStop.cfg` | the stop procedure stops `Others`, `LeaderElection` and then `Caches`: events go on being queued while the workers drain (`internal.go:442`). The comment over the line says "Stop the caches before the leader election runnables, this is an important step to make sure that we don't race with the reconcilers" |
| Parser `DependenciesResolve` | `ParserResolve.cfg` | the walk of resolve visits nothing, since it needs the callback that is commented out (`parser_resolver.go:18`), though `parser.go:43` says "check if all dependencies resolve": a `dependsOn` that names no vertex, and a delete function that uses an output of the apply pipeline, are accepted |
| FnRuntime `UnsupportedRefused` | as `fn_runtime` | only the call that made the check hears of its error; later calls start containers on a runtime it refused (`container.go:107`, `:161`) |
| FnRuntime `CallsAlwaysEnd` | as `fn_runtime` | the timeout kills the process; a child that has its output open keeps `cmd.Run`, which has no `WaitDelay`, waiting (`container.go:189`, `exec.go:56`), although "Container function will be killed after this timeour" (`:68`) |
| Executor `ScheduledOnce` | diamond | `visited` is tested and set under different locks (`executor.go:120`): two workers. If each gets one of two values, both give up and the vertex never runs |
| Executor `CancelEndsWaiting` | orphan | the select of `waitDependencies` has no `ctx.Done()` case (`exec_context.go:105`) |
| Executor `PostRunIsFinal` | tree | functions start after a failure has been reported (`executor.go:178`) |
| RunnableGroup `AddNeverPanics` | two runnables | `Add` sends on `ch` after `StopAndWait` has closed it (`runnable_group.go:267`) |
| RunnableGroup `ExpiryEndsStop`, `SpecNoSync` | two runnables | the loop of `Start` does not leave on an expired context (`runnable_group.go:156`) |
| Manager `StartAlwaysEnds`, `SpecNoSync` | one caller | while the caches start nobody reads the context or `errChan` (`internal.go:347`) |
| Manager `NeverWithoutCaches` | one caller | the stop procedure starts the groups of a manager that failed to start (`internal.go:338`) |
| Manager `StartsOnce`, `AcceptedIsServed` | two callers | `cm.started` is tested and never set (`internal.go:301`, `:154`) |
| Controller `MutexReleased` | two callers | a second `Start` returns with the mutex locked (`controller.go:159`) |
| Controller `WatchedIsReconciled` | one worker, one key | the handler of a watched kind enqueues nothing (`eventhandler.go:130`) |
| Reconciler `AlwaysConverges` | one creation | the result of the pipeline is not looked at (`reconciler.go:167`) |
| FnExec `VarsOfTheItem` | `VarRef` of y is x | a variable that refers to another is computed from nothing or from the previous item (`fn.go:219`) |
| FnExec `BlockReferencesReady`, `OverallIsTotal` | as `fn_exec` | the result of a block's executor is not looked at (`run_block.go:145`) |

A state without a property: on the tail graph a second walker that waits for the write
lock of d, while d sends, keeps x out of `isFinished` of d, whose receive would let d go
on (`executor.go:121`). And `context.WithTimeout` with a negative grace period
(`internal.go:397`), documented as "without timeout" (`manager.go:186`), is over at once.
The flag `--poll-interval` has the text "Poll interval controls how often an individual
resource should be checked for drift" (`main.go:51`); its value is not used, and the
minute that is passed instead (`main.go:137`) is stored (`reconciler.go:59`) and never
read. A CR that has been reconciled is looked at again with the next event, or with the
resync after ten hours (`manager.go:98`, `Resync`). No property asks that reconciling
comes to rest, nor that it does not.
An empty `KPT_FN_RUNTIME` means podman (`container.go:295`), a comment says docker
(`:155`). A process that the timeout
kills is the client of the container runtime; what becomes of the container is not
modelled.

## 6. Proofs

**ExecutorProofs** proves, for every graph, root and number of workers that satisfy
`GraphAssumption` (the root is a vertex without dependencies, `Up` maps vertices to
sets of vertices; the graph need not even be acyclic):

| theorem | statement |
|---|---|
| `TypeCorrect` | `Spec => []TypeOK` |
| `Invariance` | `Spec => []IInv` |
| `RunsOnce` | `Spec => []RunOnce` |
| `NeverSendsOnClosed` | `Spec => []NoSendOnClosed` |
| `RunsAfterDependencies` | `Spec => []DependenciesFirst` |
| `SuccessMeansAll` | `Spec => []SuccessIsTotal` |
| `SuccessIsQuiet` | `Spec => []QuietAfterSuccess` |
| `Implements` | `Spec => ImplementsDagRun` |

`RunOnce` is not inductive: that two workers of a vertex do not both run depends on
what they have received. `IInv` says what the channels do: a dependency channel yields
one value, to one worker, and is then closed (`OneReceiver`), by a worker whose function
has returned and whose loop is past it (`ClosedBySender`); a vertex without
dependencies, where there is no channel to arbitrate, has one walker (`SourcesOnce`);
loops stay within their maps; main has heard `ok` from whatever it is not waiting for
(`MainHeard`). Two workers of v that both ran would both have received from every
dependency, and `OneReceiver` makes those sets disjoint; if there are none,
`SourcesOnce` leaves one worker. The proof has the usual shape: `Init => IInv`; one lemma
per action that it preserves `IInv`; the safety properties from `IInv`. `Implements`
maps every action to a `DagRun` step or a stutter, with `IInv` in both states.

The other proof modules have the same shape. None assumes more of the constants than
the `ASSUME` of its module, unless the theorem states the condition, and none
bounds the number of runnables, callers, keys, workers, vertices, children,
creations or calls.

| module | theorem | statement |
|---|---|---|
| RunnableGroupProofs | `QuietWhenStopped`, `NoSignalAfterClose`, `NothingAddedAfterWait` | `Spec => []StoppedIsQuiet`, `[]SignalBeforeClose`, `NoAddAfterWait` |
| ManagerProofs | `CachesStartFirst`, `ReturnsClean` | `Spec => []CachesFirst`, `[]CleanReturn` |
| ControllerProofs | `Invariance`, `OneWorkerPerKey`, `NoSourceLost` | `Spec => []TypeOK`, `[]NeverConcurrent`, `[]AcceptedIsLive` |
| ReconcilerProofs | `FinalizerHolds` | `Spec => []CleanedBeforeGone` |
| DagProofs | `MapsAgree`, `PromiseKept` | `Spec => []EdgesAgree`, `[]ReducedAsPromised` |
| ParserProofs | `OutputsHaveOneProducer`, `ProducersComeFirst`, `MembersStayReached`, `GraphsAreReady`, `EveryCrashExplained` | `Spec => []OneProducer`, `[]ProducersFirst`, `[]BlocksReached`, `[]ExecutorReady`, `[]CrashesExplained` |
| FnExecProofs | `FailureLeavesNothing`, `FinalOutputComplete` | `Spec => []FailedLeavesNothing`, `[]FinalIsComplete` |
| | `InputsAreComplete` | `ReferencesConnected => (Spec => []InputsComplete)` |
| | `RangesAreRecorded` | `VariablesOfValue => (Spec => []RangeRecorded)` |
| | `CheckBeforeContainer`, `OutputsAreFinal` | `RuntimeSpec => []CheckedFirst`, `OutputIsFinal` |

- *RunnableGroup*: a runnable is in one place, with `Add`, in the queue that `Start`
  sends, with the loop, or started (`OnePlace`), and `Start` still waits for whoever
  has to signal (`Awaited`); so the channel is open when a check sends on it.
- *Manager*: what a call of `Start` has passed has happened, unless the stop procedure
  has begun (`StartOrder`); the stop procedure has stopped the groups before the one it
  is at (`StopOrder`); a stopped group is empty or the grace period is over
  (`StoppedIsEmpty`); the call that engaged the procedure returns after it (`StopOwner`).
- *Controller*: the queue holds each key once, and exactly the keys that are dirty and
  with no worker (in `TypeOK`); a worker's key is being processed (`WorkersKeys`).
  `Get` then takes a key that no worker has. For the sources: until `Launch` the list
  of `Start` is what `Watch` has accepted (`BeforeLaunch`).
- *Reconciler*: the CR may change, go and be created again after it has been read, so the
  invariant says what the one read still tells (`Knows`): if it has the finalizer and is
  not deleted, the finalizer is there still, because only Reconcile removes it, from a CR
  that is deleted; and what is deleted stays so. What was applied for a CR without
  finalizer has been cleaned up (`Guarded`).
- *Dag*: depths are bounded, so `BestDepth` is the depth of some up vertex, which is not
  among those dropped (`DroppedKeepsBest`); it has a depth, so it is a vertex, and the
  last dependency stays. That no redundant edge is left needs what the two walks from a
  vertex u do (`RInv`). The first gives a depth of two or more to all that is below u, and
  one to u: it holds of the vertices reached and of the frames of the call stack that all
  that is below them has a depth or is pending (`DepthWalk`); on a cycle that walk never
  ends, because something pending always leads to it (`Looping`). The second cuts every
  vertex below u off from u when another vertex with a depth is above it (`ReduceWalk`,
  `Settled`), and edges are only removed after, so what is not redundant stays so.
- *Parser*: what has been visited is there, if nothing was recorded: validated elements
  have no error (`Valid`), objects and blocks have their graphs where they do not share
  their kind (`Keys`, `Graphs`), outputs are known with the function that makes them and
  there are no other variables (`Variables`, `Origins`), inputs that nobody checked have
  outputs beside them (`Inputs`), vertices are in the graphs with their kind and nothing
  else is (`Added`, `Vertexes`), edges are those of the functions that are connected
  (`Heads`, `Wires`), and a reduced graph has no cycle and its block still reaches its
  members (`Reduction`). For the last a member without a path from
  the block would have a predecessor without one, by the promise of the reduction, and so
  on; a finite graph without a cycle has no such set (`NoDescent`). `GraphsAreReady` takes
  each edge back to the reference, the `dependsOn`, the input or the block that it was made
  for (`SourcesResolved`). `EveryCrashExplained` goes through the dereferences of
  `ValidateCrashes` and `Crashes` (`CrashReason`): those of the first walk are of what is
  left out (`Incomplete`), and before those of the later ones a walk has refused, or
  `Unchecked` or a cycle holds. `ConfigsAssumption` says
  that no object or element has the empty name, which the code takes for "no block", that
  paths are closed under prefixes, as nested maps are, and that a map of outputs that is
  nil holds none.
- *FnExec*: a function has recorded its result exactly when it has ended (`Recorded`), the
  store holds what was returned without an error (`Published`), success is told when all
  members are done (`Totals`), and what is above a running function has ended
  (`Launches`). `InputsComplete` follows where a function waits for what it refers to, or
  for the block that holds it: `ReferencesConnected`, a condition on the pipeline. The
  parser ensures it between functions of one graph and for the outputs of a block's members
  used outside (`ProducersComeFirst`), but not for a member that uses what is made outside
  (finding 2), so it is a hypothesis of the theorem and not an assumption of the module. `RangeRecorded` needs that no local variable is computed from another one
  (`VariablesOfValue`; without it `VarsOfTheItem` of section 5 fails): after i items the
  output is that of the first i, and the variables in hand are those of the last.
- *FnRuntime*: the call in the check holds the `Once`, and beyond it the check is done
  (`OnceHeld`, `Beyond`); a child has the pipe of a call that has not returned (`PipeHeld`).

Only model-checked, because liveness under fairness is out of the prover's reach:
`RunEnds`, `AcceptedIsStarted`, `StopEnds`, `StartEnds`, `OwedIsReconciled`,
`ShutdownEnds`, `Converges`, `DeletionEnds`, `ReductionEnds` and `CallsEnd`.
Every invariant and action property that a run checks is proved.

## 7. What is not modelled

- *Builder and main*: they run once, before anything is concurrent; what they hand over
  is `Add` of Manager, `Watch` of Controller and `Configs` of Parser. That each event
  handler keeps a pointer to the loop variable (`builder/controller.go:120`) changes
  nothing modelled: the handler adds nothing to the queue.
- *Event recorder*: nothing emits through it. The reconciler has a recorder that does
  nothing, and leader election is off. `Stop` is called once, with a context that is
  already done.
- *controllerutil*: a copy of controller-runtime's helpers that nothing here calls.
- *Metrics, probe server, printer*: I/O and counters without control of their own.
- *API types*: data and generated code; the accessors of the parser are in Parser.
- In modelled parts: the manager's HTTP errors and option defaults; panics of a
  reconciler; the read and write locks of a graph, which one goroutine builds; jq,
  templates and services, whose answers are any; the callbacks of resolve, which no walk
  calls; the executor on a graph with unresolved dependencies; command lines, image names, pull policies and the filters of messages of the function runtime.

## 8. Plan

- Theorems: `TypeOK` of Reconciler, Dag, Parser and FnExec; that Executor's
  `GraphAssumption` follows from `ExecutorReady` and `DependenciesResolve`, stated of the
  graph itself.
- Compositions: an abstract group that RunnableGroup refines and Manager uses by
  INSTANCE; FnExec over DagRun by INSTANCE.
- Controller with two controllers in one manager, sharing a cache.
