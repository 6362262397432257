------------------------------ MODULE Executor ------------------------------
(***************************************************************************)
(* The dependency-driven executor of pkg/ccutils/executor: one Run of an   *)
(* exec object over a DAG of functions.                                    *)
(*                                                                         *)
(*  - A WALKER is a goroutine inside execute(v, ...): it tests visited,    *)
(*    takes the vertex' mutex, sets visited and starts a worker.  Walkers  *)
(*    of a vertex are indistinguishable, so they are counted per stage.    *)
(*  - A WORKER <<v, s>> is the s-th goroutine started for vertex v: it     *)
(*    inspects its dependencies (dependenciesFinished), waits for them     *)
(*    (waitDependencies), runs the function and signals the result (run).  *)
(*  - MAIN is the caller of Run: it walks the root vertex and then waits   *)
(*    for every vertex (waitFunctionCompletion).                           *)
(*                                                                         *)
(* All channels are unbuffered: a send and its receive are one step.  The  *)
(* order of a range over a Go map is arbitrary and fixed when the loop     *)
(* reaches the next key: todo is what is left, cur the key in hand.  The   *)
(* five-second timeouts only log and loop, and are stuttering steps.       *)
(***************************************************************************)
EXTENDS Naturals

CONSTANTS
    Vertex,      \* the vertices of the DAG
    Root,        \* cfg.From
    Up,          \* Up[v]: GetUpVertexes(v), what v depends on
    MaxWorkers   \* bound: workers per vertex (at most one per path from Root)

ASSUME GraphAssumption ==
    /\ Root \in Vertex
    /\ Up \in [Vertex -> SUBSET Vertex]
    /\ Up[Root] = {}
    /\ MaxWorkers \in Nat

Down == [d \in Vertex |-> {v \in Vertex : d \in Up[v]}]  \* GetDownVertexes

Slot   == 1 .. MaxWorkers
Worker == Vertex \X Slot
Stage  == {"call", "claim", "lock"}

\* Worker program counters.
PC == {"none", "check", "wait", "run", "signal", "send", "report",
       "done", "gone"}

\* The worker's function has been started.
RanPC == {"run", "signal", "send", "report", "done"}

\* ... and has returned.
EndPC == RanPC \ {"run"}

VARIABLES
    walkers,   \* [Vertex -> [Stage -> Nat]]: goroutines inside execute
    visited,   \* execContext.visited is set
    finished,  \* execContext.finished is set
    closed,    \* pairs <<d, v>> whose dependency channel is closed
    pc, todo, cur, ok,   \* per worker
    main, mainTodo, mainCur,  \* waitFunctionCompletion's loop over fnDoneMap
    canceled,  \* ctx.Done() is closed
    verdict    \* what ExecPostRunFn was given: "none" before

walkVars   == <<walkers, visited>>
workerVars == <<pc, todo, cur, ok>>
mainVars   == <<main, mainTodo, mainCur, canceled, verdict>>
vars == <<walkers, visited, finished, closed, pc, todo, cur, ok,
          main, mainTodo, mainCur, canceled, verdict>>

-----------------------------------------------------------------------------
(* New, init and the start of Run: a context and its channels per vertex,  *)
(* nothing visited, main about to execute the root.                        *)
Init ==
    /\ walkers = [v \in Vertex |-> [st \in Stage |->
                    IF v = Root /\ st = "call" THEN 1 ELSE 0]]
    /\ visited  = [v \in Vertex |-> FALSE]
    /\ finished = [v \in Vertex |-> FALSE]
    /\ closed = {}
    /\ pc   = [w \in Worker |-> "none"]
    /\ todo = [w \in Worker |-> {}]
    /\ cur  = [w \in Worker |-> w[1]]
    /\ ok   = [w \in Worker |-> FALSE]
    /\ main = "execute"
    /\ mainTodo = Vertex
    /\ mainCur \in Vertex
    /\ canceled = FALSE
    /\ verdict = "none"

-----------------------------------------------------------------------------
(* The vertex' RWMutex m.  run holds its read side while it sends; a       *)
(* writer that found it held is pending and keeps new readers out.         *)
ReadHeld(v)  == \E w \in Worker : w[1] = v /\ pc[w] = "send"
Readable(v)  == walkers[v]["lock"] = 0

\* What is left of a range loop once the key in hand is dealt with, and the
\* keys it may take up next (w's own vertex stands for no key).
Rest(w)       == todo[w] \ {cur[w]}
NextKey(w, S) == IF S = {} THEN {w[1]} ELSE S

\* A walker of v leaves stage st: it reaches the loop that starts one walker
\* per down vertex.
WalkOn(v, st) ==
    walkers' = [u \in Vertex |->
                 [x \in Stage |->
                    IF u = v /\ x = st THEN walkers[u][x] - 1
                    ELSE IF u \in Down[v] /\ x = "call"
                         THEN walkers[u][x] + 1
                         ELSE walkers[u][x]]]

\* A walker of v goes from stage st to stage sn.
WalkerTo(v, st, sn) ==
    walkers' = [walkers EXCEPT ![v][st] = @ - 1, ![v][sn] = @ + 1]

-----------------------------------------------------------------------------
(* execute: isVisted answers true, the walk goes on below v.               *)
SkipVisited(v) ==
    /\ walkers[v]["call"] > 0
    /\ Readable(v)
    /\ visited[v]
    /\ WalkOn(v, "call")
    /\ UNCHANGED <<visited, finished, closed, workerVars, mainVars>>

(* execute: isVisted answers false; m is released before it is locked.     *)
FindUnvisited(v) ==
    /\ walkers[v]["call"] > 0
    /\ Readable(v)
    /\ ~visited[v]
    /\ WalkerTo(v, "call", "claim")
    /\ UNCHANGED <<visited, finished, closed, workerVars, mainVars>>

(* execute: m.Lock() finds readers and waits for them.                     *)
BlockOnLock(v) ==
    /\ walkers[v]["claim"] > 0
    /\ ReadHeld(v)
    /\ WalkerTo(v, "claim", "lock")
    /\ UNCHANGED <<visited, finished, closed, workerVars, mainVars>>

(* execute: m.Lock() is granted, visited is set, a worker is started and   *)
(* the walk goes on below v.  Main is the walker of the root: it goes on   *)
(* to waitFunctionCompletion.  A worker of a vertex without dependencies   *)
(* meets two empty loops and runs its function.                            *)
Schedule(v, st, s) ==
    /\ st \in {"claim", "lock"}
    /\ walkers[v][st] > 0
    /\ ~ReadHeld(v)
    /\ pc[<<v, s>>] = "none"
    /\ \A t \in Slot : t < s => pc[<<v, t>>] # "none"
    /\ WalkOn(v, st)
    /\ visited' = [visited EXCEPT ![v] = TRUE]
    /\ pc'   = [pc EXCEPT ![<<v, s>>] = IF Up[v] = {} THEN "run" ELSE "check"]
    /\ todo' = [todo EXCEPT ![<<v, s>>] = Up[v]]
    /\ \E k \in NextKey(<<v, s>>, Up[v]) : cur' = [cur EXCEPT ![<<v, s>>] = k]
    /\ main' = IF v = Root THEN "wait" ELSE main
    /\ UNCHANGED <<finished, closed, ok, mainTodo, mainCur, canceled, verdict>>

-----------------------------------------------------------------------------
\* Mutant: the answer of dependenciesFinished replaces the wait.
CheckSkipsWait(w) ==
    /\ pc[w] = "check"
    /\ Readable(cur[w])
    /\ pc' = [pc EXCEPT ![w] = "run"]
    /\ UNCHANGED <<walkVars, finished, closed, todo, cur, ok, mainVars>>

(* dependenciesFinished: isFinished of the dependency in hand; the loop    *)
(* ends at the first one that is not finished, and its answer is only      *)
(* logged: the worker goes on to wait for all its dependencies.            *)
CheckDependency(w) ==
    /\ pc[w] = "check"
    /\ Readable(cur[w])
    /\ LET more == finished[cur[w]] /\ Rest(w) # {}
           left == IF more THEN Rest(w) ELSE Up[w[1]]
       IN  /\ pc' = [pc EXCEPT ![w] = IF more THEN "check" ELSE "wait"]
           /\ todo' = [todo EXCEPT ![w] = left]
           /\ \E k \in NextKey(w, left) : cur' = [cur EXCEPT ![w] = k]
    /\ UNCHANGED <<walkVars, finished, closed, ok, mainVars>>

(* run of d sends its result on the channel to v and closes it; a worker   *)
(* of v in waitDependencies receives it.  An open channel continues the    *)
(* loop whatever the result, the last one received starts the function.    *)
Deliver(d, w) ==
    /\ pc[d] = "send" /\ cur[d] = w[1]
    /\ pc[w] = "wait" /\ cur[w] = d[1]
    /\ <<d[1], w[1]>> \notin closed
    /\ closed' = closed \cup {<<d[1], w[1]>>}
    /\ pc' = [pc EXCEPT ![d] = IF Rest(d) = {} THEN "report" ELSE "send",
                        ![w] = IF Rest(w) = {} THEN "run" ELSE "wait"]
    /\ todo' = [todo EXCEPT ![d] = Rest(d), ![w] = Rest(w)]
    /\ \E i \in NextKey(d, Rest(d)), j \in NextKey(w, Rest(w)) :
          cur' = [cur EXCEPT ![d] = i, ![w] = j]
    /\ UNCHANGED <<walkVars, finished, ok, mainVars>>

\* Mutant: a closed channel counts as a dependency that is done.
ReceiveClosedGoesOn(w) ==
    /\ pc[w] = "wait"
    /\ <<cur[w], w[1]>> \in closed
    /\ pc' = [pc EXCEPT ![w] = IF Rest(w) = {} THEN "run" ELSE "wait"]
    /\ todo' = [todo EXCEPT ![w] = Rest(w)]
    /\ \E k \in NextKey(w, Rest(w)) : cur' = [cur EXCEPT ![w] = k]
    /\ UNCHANGED <<walkVars, finished, closed, ok, mainVars>>

(* waitDependencies: the channel is closed, so the value is false and the  *)
(* worker ends without running the function.                               *)
ReceiveClosed(w) ==
    /\ pc[w] = "wait"
    /\ <<cur[w], w[1]>> \in closed
    /\ pc'   = [pc EXCEPT ![w] = "gone"]
    /\ todo' = [todo EXCEPT ![w] = {}]
    /\ cur'  = [cur EXCEPT ![w] = w[1]]
    /\ UNCHANGED <<walkVars, finished, closed, ok, mainVars>>

(* run: vertexFuntionRunFn returns; finished is set without the mutex.     *)
FunctionReturns(w, success) ==
    /\ pc[w] = "run"
    /\ pc' = [pc EXCEPT ![w] = "signal"]
    /\ ok' = [ok EXCEPT ![w] = success]
    /\ finished' = [finished EXCEPT ![w[1]] = TRUE]
    /\ UNCHANGED <<walkVars, closed, todo, cur, mainVars>>

\* Mutant: a vertex nobody depends on does not report to main.
BeginSignalForgetsMain(w) ==
    /\ pc[w] = "signal"
    /\ Readable(w[1])
    /\ pc' = [pc EXCEPT ![w] = IF Down[w[1]] = {} THEN "done" ELSE "send"]
    /\ todo' = [todo EXCEPT ![w] = Down[w[1]]]
    /\ \E k \in NextKey(w, Down[w[1]]) : cur' = [cur EXCEPT ![w] = k]
    /\ UNCHANGED <<walkVars, finished, closed, ok, mainVars>>

(* run: m.RLock() is granted and the loop over doneChs begins.             *)
BeginSignal(w) ==
    /\ pc[w] = "signal"
    /\ Readable(w[1])
    /\ pc' = [pc EXCEPT ![w] = IF Down[w[1]] = {} THEN "report" ELSE "send"]
    /\ todo' = [todo EXCEPT ![w] = Down[w[1]]]
    /\ \E k \in NextKey(w, Down[w[1]]) : cur' = [cur EXCEPT ![w] = k]
    /\ UNCHANGED <<walkVars, finished, closed, ok, mainVars>>

(* waitFunctionCompletion and execute return, Run calls ExecPostRunFn.     *)
MainReturns(result) ==
    /\ main' = "done"
    /\ verdict' = result
    /\ mainTodo' = {}
    /\ mainCur' = Root

\* Mutant: the result of the last vertex decides.
ReportLastDecides(w) ==
    /\ pc[w] = "report"
    /\ main = "wait" /\ mainCur = w[1]
    /\ pc' = [pc EXCEPT ![w] = "done"]
    /\ IF mainTodo # {mainCur}
       THEN /\ mainTodo' = mainTodo \ {mainCur}
            /\ mainCur' \in mainTodo'
            /\ UNCHANGED <<main, canceled, verdict>>
       ELSE /\ MainReturns(IF ok[w] THEN "success" ELSE "failure")
            /\ canceled' = (canceled \/ ~ok[w])
    /\ UNCHANGED <<walkVars, finished, closed, todo, cur, ok>>

(* run sends its result on doneFnCh and closes it; waitFunctionCompletion, *)
(* waiting for this vertex, takes the next one, or ends: with success      *)
(* after the last, with failure and cancelFn() at the first false.         *)
Report(w) ==
    /\ pc[w] = "report"
    /\ main = "wait" /\ mainCur = w[1]
    /\ pc' = [pc EXCEPT ![w] = "done"]
    /\ IF ok[w] /\ mainTodo # {mainCur}
       THEN /\ mainTodo' = mainTodo \ {mainCur}
            /\ mainCur' \in mainTodo'
            /\ UNCHANGED <<main, canceled, verdict>>
       ELSE /\ MainReturns(IF ok[w] THEN "success" ELSE "failure")
            /\ canceled' = (canceled \/ ~ok[w])
    /\ UNCHANGED <<walkVars, finished, closed, todo, cur, ok>>

(* waitFunctionCompletion: ctx.Done() is ready.                            *)
MainCanceled ==
    /\ main = "wait"
    /\ canceled
    /\ MainReturns("failure")
    /\ UNCHANGED <<walkVars, finished, closed, workerVars, canceled>>

(* The context handed to Run is cancelled by its owner.                    *)
ParentCancels ==
    /\ ~canceled
    /\ canceled' = TRUE
    /\ UNCHANGED <<walkVars, finished, closed, workerVars,
                   main, mainTodo, mainCur, verdict>>

-----------------------------------------------------------------------------
WalkerStep(v) ==
    \/ SkipVisited(v)
    \/ FindUnvisited(v)
    \/ BlockOnLock(v)
    \/ \E st \in Stage, s \in Slot : Schedule(v, st, s)

WorkerStep(w) ==
    \/ CheckDependency(w)
    \/ \E d \in Worker : Deliver(d, w)
    \/ ReceiveClosed(w)
    \/ \E success \in BOOLEAN : FunctionReturns(w, success)
    \/ BeginSignal(w)
    \/ Report(w)

Next ==
    \/ \E v \in Vertex : WalkerStep(v)
    \/ \E w \in Worker : WorkerStep(w)
    \/ MainCanceled
    \/ ParentCancels

Spec == Init /\ [][Next]_vars

(* The Go scheduler runs every goroutine that can go on, and functions     *)
(* return; nobody has to cancel.                                           *)
FairSpec ==
    /\ Spec
    /\ \A v \in Vertex : WF_vars(WalkerStep(v))
    /\ \A w \in Worker : WF_vars(WorkerStep(w))
    /\ WF_vars(MainCanceled)

-----------------------------------------------------------------------------
(* Type correctness.                                                       *)
TypeOK ==
    /\ walkers \in [Vertex -> [Stage -> Nat]]
    /\ visited \in [Vertex -> BOOLEAN]
    /\ finished \in [Vertex -> BOOLEAN]
    /\ closed \in SUBSET (Vertex \X Vertex)
    /\ pc \in [Worker -> PC]
    /\ todo \in [Worker -> SUBSET Vertex]
    /\ cur \in [Worker -> Vertex]
    /\ ok \in [Worker -> BOOLEAN]
    /\ main \in {"execute", "wait", "done"}
    /\ mainTodo \in SUBSET Vertex
    /\ mainCur \in Vertex
    /\ canceled \in BOOLEAN
    /\ verdict \in {"none", "success", "failure"}

(* execute's test and set of visited are two critical sections, so several *)
(* workers of one vertex can exist.  Still at most one of them ever runs   *)
(* the vertex' function: each dependency channel yields one value.         *)
RunOnce ==
    \A w, x \in Worker :
        (w[1] = x[1] /\ pc[w] \in RanPC /\ pc[x] \in RanPC) => w = x

(* run never sends on, nor closes, a channel that is already closed: the   *)
(* program does not panic in its dependency channels.                      *)
NoSendOnClosed ==
    \A w \in Worker : pc[w] = "send" => <<w[1], cur[w]>> \notin closed

(* A function runs only after the functions of all the vertices it depends *)
(* on have returned (its inputs are their outputs).                        *)
DependenciesFirst ==
    \A w \in Worker : pc[w] \in RanPC => \A d \in Up[w[1]] : finished[d]

(* ExecPostRunFn is told success only when every vertex' function ran and  *)
(* returned success.                                                       *)
SuccessIsTotal ==
    verdict = "success" =>
        \A v \in Vertex : \E w \in Worker :
            w[1] = v /\ pc[w] = "done" /\ ok[w]

(* A success is the end of the run, also for the second workers the walk   *)
(* leaves behind: in every state after it no function is running and no    *)
(* result is still to be sent, and a worker that still waits will find the *)
(* channel it waits on closed, so that it ends without running anything.   *)
QuietAfterSuccess ==
    verdict = "success" =>
        \A w \in Worker :
            /\ pc[w] \notin RanPC \ {"done"}
            /\ pc[w] = "wait" => <<cur[w], w[1]>> \in closed

(* Where no vertex has two dependencies the run comes to an end: main      *)
(* always reaches ExecPostRunFn.                                           *)
RunEnds == <>(main = "done")

-----------------------------------------------------------------------------
(* The inductive invariant behind the safety properties.                   *)

\* The dependencies a worker has received.  A worker that gave up ("gone")
\* keeps none: what it received is lost, and its channels stay closed.
Got(w) == IF pc[w] = "wait" THEN Up[w[1]] \ todo[w]
          ELSE IF pc[w] \in RanPC THEN Up[w[1]]
          ELSE {}

\* A range loop has its key in hand, out of the keys of its own map.
LoopsInRange ==
    \A w \in Worker :
        /\ pc[w] \in {"check", "wait"} => cur[w] \in todo[w] /\ todo[w] \subseteq Up[w[1]]
        /\ pc[w] = "send" => cur[w] \in todo[w] /\ todo[w] \subseteq Down[w[1]]

\* A dependency channel yields one value, to one worker, and is then closed.
OneReceiver ==
    /\ \A w \in Worker : \A d \in Got(w) : <<d, w[1]>> \in closed
    /\ \A w, x \in Worker : w[1] = x[1] /\ w # x => Got(w) \cap Got(x) = {}

\* It was closed by a worker whose function has returned and whose loop over
\* doneChs is past it.
ClosedBySender ==
    \A d, v \in Vertex : <<d, v>> \in closed =>
        \E w \in Worker :
            /\ w[1] = d
            /\ \/ pc[w] = "send" /\ v \notin todo[w]
               \/ pc[w] \in {"report", "done"}

\* Vertices without dependencies have no channel to arbitrate between their
\* workers: the root has one walker, main, and nobody else is walked to.
SourcesOnce ==
    \A v \in Vertex : Up[v] = {} =>
        \/ /\ \A st \in Stage : walkers[v][st] = 0
           /\ \A w, x \in Worker : (w[1] = v /\ x[1] = v /\ pc[w] # "none"
                                       /\ pc[x] # "none") => w = x
        \/ /\ v = Root
           /\ main = "execute"
           /\ \E st \in Stage : /\ walkers[v][st] = 1
                                /\ \A sn \in Stage \ {st} : walkers[v][sn] = 0
           /\ \A w \in Worker : w[1] = v => pc[w] = "none"

FinishedSet == \A w \in Worker : pc[w] \in EndPC => finished[w[1]]

\* Main has heard ok from every vertex it is not waiting for any more.
MainHeard ==
    /\ verdict = "none" <=> main # "done"
    /\ main = "execute" => mainTodo = Vertex
    /\ main = "wait" => mainCur \in mainTodo
    /\ main # "done" => \A v \in Vertex \ mainTodo :
                          \E w \in Worker : w[1] = v /\ pc[w] = "done" /\ ok[w]

IInv ==
    /\ TypeOK
    /\ LoopsInRange
    /\ OneReceiver
    /\ ClosedBySender
    /\ SourcesOnce
    /\ FinishedSet
    /\ MainHeard
    /\ SuccessIsTotal

-----------------------------------------------------------------------------
(* The executor implements DagRun: a vertex is running while one of its    *)
(* workers is inside the function, and has ended with that worker's ok.    *)
VertexStatus ==
    [v \in Vertex |->
        IF \E w \in Worker : w[1] = v /\ pc[w] = "run" THEN "running"
        ELSE IF \E w \in Worker : w[1] = v /\ pc[w] \in EndPC /\ ok[w] THEN "ok"
        ELSE IF \E w \in Worker : w[1] = v /\ pc[w] \in EndPC THEN "failed"
        ELSE "idle"]

Run == INSTANCE DagRun WITH status <- VertexStatus, outcome <- verdict

(* Every behaviour of walkers, workers, channels and main is one of DagRun.*)
ImplementsDagRun == Run!RunSpec

-----------------------------------------------------------------------------
(* Statements of the code's comments.                                      *)

(* executor.go:119: a vertex that is already visited is not scheduled.     *)
ScheduledOnce ==
    \A w, x \in Worker :
        (w[1] = x[1] /\ pc[w] # "none" /\ pc[x] # "none") => w = x

(* exec_context.go:114: a failed dependency ends the wait, the function of *)
(* the dependent vertex is not run.                                        *)
FailureStopsDependents ==
    \A w, d \in Worker :
        (pc[w] \in RanPC /\ d[1] \in Up[w[1]] /\ pc[d] \in EndPC) => ok[d]

(* exec_context.go:96: a worker waits for its dependencies until they      *)
(* complete or the context is cancelled.                                   *)
CancelEndsWaiting ==
    \A w \in Worker : (canceled /\ pc[w] = "wait") ~> pc[w] # "wait"

(* executor.go:83-86: a finished vertex signals the vertices that wait for *)
(* it: when no goroutine can go on, none is left waiting for a vertex that *)
(* has finished.                                                           *)
FinishedIsHeard ==
    (\E w \in Worker : pc[w] = "wait" /\ finished[cur[w]])
        => \/ ENABLED (\E v \in Vertex : WalkerStep(v))
           \/ ENABLED (\E w \in Worker : WorkerStep(w))

(* executor.go:110: ExecPostRunFn is the final action of a run: no         *)
(* function starts after it.                                               *)
PostRunIsFinal ==
    [][verdict # "none" =>
        \A w \in Worker : pc'[w] \in RanPC => pc[w] \in RanPC]_vars
=============================================================================
