--------------------------- MODULE ExecutorProofs ---------------------------
(***************************************************************************)
(* Proofs about Executor, for every finite or infinite graph in which the  *)
(* root has no dependency, and every bound on the workers.                 *)
(***************************************************************************)
EXTENDS Executor, TLAPS

-----------------------------------------------------------------------------
(* A worker is a vertex and a slot.                                        *)
LEMMA WorkerParts ==
    /\ \A w \in Worker : w[1] \in Vertex /\ w[2] \in Slot /\ w = <<w[1], w[2]>>
    /\ \A v \in Vertex, s \in Slot :
          <<v, s>> \in Worker /\ <<v, s>>[1] = v /\ <<v, s>>[2] = s
  BY DEF Worker

(* Up and Down are the two ends of the same edges.                         *)
LEMMA GraphType ==
    /\ Root \in Vertex /\ Up[Root] = {}
    /\ \A v \in Vertex : Up[v] \in SUBSET Vertex /\ Down[v] \in SUBSET Vertex
    /\ \A d, v \in Vertex : v \in Down[d] <=> d \in Up[v]
  BY GraphAssumption DEF Down

(* The next key of a range loop is a vertex, and one of the loop's keys    *)
(* when some are left.                                                     *)
LEMMA NextKeyIn ==
    ASSUME NEW w \in Worker, NEW S \in SUBSET Vertex, NEW k \in NextKey(w, S)
    PROVE  k \in Vertex /\ (S # {} => k \in S)
  BY WorkerParts DEF NextKey

(* dependenciesFinished takes the next dependency, or goes over to waiting *)
(* for all of them.                                                        *)
CheckMove(w, left, k, p) ==
    /\ pc' = [pc EXCEPT ![w] = p]
    /\ todo' = [todo EXCEPT ![w] = left]
    /\ cur' = [cur EXCEPT ![w] = k]
    /\ left # {} => k \in left
    /\ left = Up[w[1]] \/ (p = "check" /\ left = Rest(w) /\ left # {})

LEMMA CheckMoves ==
    ASSUME TypeOK, NEW w \in Worker, CheckDependency(w)
    PROVE  \E left \in SUBSET Vertex, k \in Vertex, p \in {"check", "wait"} :
              CheckMove(w, left, k, p)
  <1> DEFINE more == finished[cur[w]] /\ Rest(w) # {}
             left == IF more THEN Rest(w) ELSE Up[w[1]]
             p    == IF more THEN "check" ELSE "wait"
  <1>1. left \in SUBSET Vertex
    BY GraphType, WorkerParts DEF Rest, TypeOK
  <1>2. PICK k \in NextKey(w, left) : cur' = [cur EXCEPT ![w] = k]
    BY DEF CheckDependency
  <1>3. k \in Vertex /\ (left # {} => k \in left)
    BY <1>1, <1>2, NextKeyIn
  <1>4. pc' = [pc EXCEPT ![w] = p] /\ todo' = [todo EXCEPT ![w] = left]
    BY DEF CheckDependency
  <1>5. left = Up[w[1]] \/ (p = "check" /\ left = Rest(w) /\ left # {})
    OBVIOUS
  <1>6. CheckMove(w, left, k, p) /\ p \in {"check", "wait"}
    BY <1>2, <1>3, <1>4, <1>5 DEF CheckMove
  <1> HIDE DEF left, p
  <1> QED BY <1>1, <1>3, <1>6

-----------------------------------------------------------------------------
(* Walkers stay counted when one of them moves on.                         *)
LEMMA WalkersType ==
    ASSUME TypeOK, NEW v \in Vertex, NEW st \in Stage, walkers[v][st] > 0
    PROVE  /\ WalkOn(v, st) => walkers' \in [Vertex -> [Stage -> Nat]]
           /\ \A sn \in Stage : WalkerTo(v, st, sn)
                => walkers' \in [Vertex -> [Stage -> Nat]]
  <1>1. walkers \in [Vertex -> [Stage -> Nat]] /\ walkers[v][st] - 1 \in Nat
    BY DEF TypeOK
  <1>2. ASSUME WalkOn(v, st) PROVE walkers' \in [Vertex -> [Stage -> Nat]]
    BY <1>1, <1>2 DEF WalkOn
  <1>3. ASSUME NEW sn \in Stage, WalkerTo(v, st, sn)
        PROVE  walkers' \in [Vertex -> [Stage -> Nat]]
    BY <1>1, <1>3 DEF WalkerTo
  <1> QED BY <1>2, <1>3

LEMMA StageNames == "call" \in Stage /\ "claim" \in Stage /\ "lock" \in Stage
  BY DEF Stage

LEMMA TypeInit == Init => TypeOK
  <1> SUFFICES ASSUME Init PROVE TypeOK
    OBVIOUS
  <1>1. walkers \in [Vertex -> [Stage -> Nat]]
    BY DEF Init
  <1>2. pc \in [Worker -> PC]
    BY DEF Init, PC
  <1>3. cur \in [Worker -> Vertex]
    BY WorkerParts DEF Init
  <1> QED BY <1>1, <1>2, <1>3 DEF Init, TypeOK

(* Every step keeps the types.                                             *)
LEMMA TypeStep == TypeOK /\ [Next]_vars => TypeOK'
  <1> SUFFICES ASSUME TypeOK, [Next]_vars PROVE TypeOK'
    OBVIOUS
  <1> USE WorkerParts, GraphType, StageNames
  <1>1. ASSUME NEW v \in Vertex, SkipVisited(v) PROVE TypeOK'
    BY <1>1, WalkersType DEF SkipVisited, TypeOK, workerVars, mainVars
  <1>2. ASSUME NEW v \in Vertex, FindUnvisited(v) PROVE TypeOK'
    BY <1>2, WalkersType DEF FindUnvisited, TypeOK, workerVars, mainVars
  <1>3. ASSUME NEW v \in Vertex, BlockOnLock(v) PROVE TypeOK'
    BY <1>3, WalkersType DEF BlockOnLock, TypeOK, workerVars, mainVars
  <1>4. ASSUME NEW v \in Vertex, NEW st \in Stage, NEW s \in Slot,
               Schedule(v, st, s)
        PROVE  TypeOK'
    <2>1. PICK k \in NextKey(<<v, s>>, Up[v]) : cur' = [cur EXCEPT ![<<v, s>>] = k]
      BY <1>4 DEF Schedule
    <2>2. k \in Vertex
      BY <2>1, NextKeyIn
    <2>3. walkers' \in [Vertex -> [Stage -> Nat]]
      BY <1>4, WalkersType DEF Schedule
    <2>4. pc' \in [Worker -> PC]
      BY <1>4 DEF Schedule, TypeOK, PC
    <2>5. todo' \in [Worker -> SUBSET Vertex]
      BY <1>4 DEF Schedule, TypeOK
    <2>6. cur' \in [Worker -> Vertex]
      BY <2>1, <2>2 DEF TypeOK
    <2> QED BY <1>4, <2>3, <2>4, <2>5, <2>6 DEF Schedule, TypeOK
  <1>5. ASSUME NEW w \in Worker, CheckDependency(w) PROVE TypeOK'
    <2>1. PICK left \in SUBSET Vertex, k \in Vertex, p \in {"check", "wait"} :
              CheckMove(w, left, k, p)
      BY <1>5, CheckMoves
    <2> QED BY <1>5, <2>1 DEF CheckMove, CheckDependency, TypeOK, PC, walkVars, mainVars
  <1>6. ASSUME NEW w \in Worker, NEW d \in Worker, Deliver(d, w) PROVE TypeOK'
    <2>1. Rest(w) \in SUBSET Vertex /\ Rest(d) \in SUBSET Vertex
      BY DEF Rest, TypeOK
    <2>2. PICK i \in NextKey(d, Rest(d)), j \in NextKey(w, Rest(w)) :
              cur' = [cur EXCEPT ![d] = i, ![w] = j]
      BY <1>6 DEF Deliver
    <2>3. i \in Vertex /\ j \in Vertex
      BY <2>1, <2>2, NextKeyIn
    <2>4. pc' \in [Worker -> PC]
      BY <1>6 DEF Deliver, TypeOK, PC
    <2>5. todo' \in [Worker -> SUBSET Vertex] /\ cur' \in [Worker -> Vertex]
      BY <1>6, <2>1, <2>2, <2>3 DEF Deliver, TypeOK
    <2>6. closed' \in SUBSET (Vertex \X Vertex)
      BY <1>6 DEF Deliver, TypeOK
    <2> QED BY <1>6, <2>4, <2>5, <2>6 DEF Deliver, TypeOK, walkVars, mainVars
  <1>7. ASSUME NEW w \in Worker, ReceiveClosed(w) PROVE TypeOK'
    BY <1>7 DEF ReceiveClosed, TypeOK, PC, walkVars, mainVars
  <1>8. ASSUME NEW w \in Worker, NEW success \in BOOLEAN, FunctionReturns(w, success)
        PROVE  TypeOK'
    BY <1>8 DEF FunctionReturns, TypeOK, PC, walkVars, mainVars
  <1>9. ASSUME NEW w \in Worker, BeginSignal(w) PROVE TypeOK'
    <2>1. PICK k \in NextKey(w, Down[w[1]]) : cur' = [cur EXCEPT ![w] = k]
      BY <1>9 DEF BeginSignal
    <2>2. k \in Vertex
      BY <2>1, NextKeyIn
    <2> QED BY <1>9, <2>1, <2>2 DEF BeginSignal, TypeOK, PC, walkVars, mainVars
  <1>10. ASSUME NEW w \in Worker, Report(w) PROVE TypeOK'
    <2>1. pc' \in [Worker -> PC]
      BY <1>10 DEF Report, TypeOK, PC
    <2>2. CASE ok[w] /\ mainTodo # {mainCur}
      BY <1>10, <2>1, <2>2 DEF Report, TypeOK, walkVars
    <2>3. CASE ~(ok[w] /\ mainTodo # {mainCur})
      BY <1>10, <2>1, <2>3 DEF Report, MainReturns, TypeOK, walkVars
    <2> QED BY <2>2, <2>3
  <1>11. CASE MainCanceled
    BY <1>11 DEF MainCanceled, MainReturns, TypeOK, walkVars, workerVars
  <1>12. CASE ParentCancels
    BY <1>12 DEF ParentCancels, TypeOK, walkVars, workerVars
  <1>13. CASE UNCHANGED vars
    BY <1>13 DEF vars, TypeOK
  <1> QED
    BY <1>1, <1>2, <1>3, <1>4, <1>5, <1>6, <1>7, <1>8, <1>9, <1>10, <1>11,
       <1>12, <1>13 DEF Next, WalkerStep, WorkerStep

(* The executor's state keeps its types.                                   *)
THEOREM TypeCorrect == Spec => []TypeOK
  BY TypeInit, TypeStep, PTL DEF Spec

-----------------------------------------------------------------------------
(* What the inductive invariant says of the properties.                    *)

LEMMA RanGot ==
    ASSUME NEW w \in Worker, pc[w] \in RanPC
    PROVE  Got(w) = Up[w[1]]
  BY DEF Got, RanPC

(* Two workers of a vertex that both ran would have received the same      *)
(* dependency; a vertex without dependencies has one worker.               *)
LEMMA InvRunOnce == IInv => RunOnce
  <1> SUFFICES ASSUME IInv, NEW w \in Worker, NEW x \in Worker, w[1] = x[1],
                      pc[w] \in RanPC, pc[x] \in RanPC, w # x
               PROVE  FALSE
    BY DEF RunOnce
  <1>1. Got(w) = Up[w[1]] /\ Got(x) = Up[w[1]]
    BY RanGot
  <1>2. CASE Up[w[1]] # {}
    BY <1>1, <1>2 DEF IInv, OneReceiver
  <1>3. CASE Up[w[1]] = {}
    BY <1>3, WorkerParts DEF IInv, SourcesOnce, RanPC
  <1> QED BY <1>2, <1>3

LEMMA RunOnceNext == IInv' => RunOnce'
  BY InvRunOnce, PTL

(* The only worker of a vertex that is past its function still has the key *)
(* in hand to send.                                                        *)
LEMMA InvNoSendOnClosed == IInv => NoSendOnClosed
  <1> SUFFICES ASSUME IInv, NEW w \in Worker, pc[w] = "send",
                      <<w[1], cur[w]>> \in closed
               PROVE  FALSE
    BY DEF NoSendOnClosed
  <1>1. w[1] \in Vertex /\ cur[w] \in Vertex /\ cur[w] \in todo[w]
    BY WorkerParts DEF IInv, TypeOK, LoopsInRange
  <1>2. PICK x \in Worker : /\ x[1] = w[1]
                            /\ \/ pc[x] = "send" /\ cur[w] \notin todo[x]
                               \/ pc[x] \in {"report", "done"}
    BY <1>1 DEF IInv, ClosedBySender
  <1>3. x = w
    BY <1>2, InvRunOnce DEF RunOnce, RanPC
  <1> QED BY <1>1, <1>2, <1>3

(* What a worker received was sent by a worker whose function returned.    *)
LEMMA InvDependenciesFirst == IInv => DependenciesFirst
  <1> SUFFICES ASSUME IInv, NEW w \in Worker, pc[w] \in RanPC,
                      NEW d \in Up[w[1]]
               PROVE  finished[d]
    BY DEF DependenciesFirst
  <1>1. d \in Vertex /\ w[1] \in Vertex
    BY WorkerParts, GraphType
  <1>2. <<d, w[1]>> \in closed
    BY RanGot DEF IInv, OneReceiver
  <1>3. PICK x \in Worker : x[1] = d /\ pc[x] \in {"send", "report", "done"}
    BY <1>1, <1>2 DEF IInv, ClosedBySender
  <1> QED BY <1>3 DEF IInv, FinishedSet, EndPC, RanPC

-----------------------------------------------------------------------------
LEMMA InvInit == Init => IInv
  <1> SUFFICES ASSUME Init PROVE IInv
    OBVIOUS
  <1>1. TypeOK
    BY TypeInit
  <1>2. \A w \in Worker : pc[w] = "none" /\ Got(w) = {}
    BY DEF Init, Got, RanPC
  <1>3. SourcesOnce
    <2> SUFFICES ASSUME NEW v \in Vertex, Up[v] = {}
                 PROVE  SourcesOnce!(v)!2
      BY DEF SourcesOnce
    <2>1. CASE v = Root
      BY <2>1, <1>2, GraphType DEF Init, Stage
    <2>2. CASE v # Root
      BY <2>2, <1>2 DEF Init, Stage
    <2> QED BY <2>1, <2>2
  <1>4. LoopsInRange /\ OneReceiver /\ ClosedBySender /\ FinishedSet
    BY <1>2 DEF Init, LoopsInRange, OneReceiver, ClosedBySender, FinishedSet,
                EndPC, RanPC
  <1>5. MainHeard /\ SuccessIsTotal
    BY DEF Init, MainHeard, SuccessIsTotal
  <1> QED BY <1>1, <1>3, <1>4, <1>5 DEF IInv

(* A step that leaves workers, channels and main alone can only disturb    *)
(* what is said of walkers.                                                *)
LEMMA WalkerFrame ==
    ASSUME IInv, TypeOK', SourcesOnce',
           UNCHANGED <<finished, closed, workerVars, mainVars>>
    PROVE  IInv'
  <1>1. \A w \in Worker : Got(w)' = Got(w)
    BY DEF Got, workerVars
  <1>2. OneReceiver'
    BY <1>1 DEF IInv, OneReceiver
  <1>3. LoopsInRange' /\ ClosedBySender' /\ FinishedSet'
    BY DEF IInv, LoopsInRange, ClosedBySender, FinishedSet, workerVars
  <1>4. MainHeard' /\ SuccessIsTotal'
    BY DEF IInv, MainHeard, SuccessIsTotal, workerVars, mainVars
  <1> QED BY <1>2, <1>3, <1>4 DEF IInv

(* Walking on from v starts walkers of vertices that depend on v only.     *)
LEMMA WalkOnSources ==
    ASSUME TypeOK, NEW v \in Vertex, NEW st \in Stage, WalkOn(v, st),
           NEW u \in Vertex, Up[u] = {}
    PROVE  /\ u # v => \A sn \in Stage : walkers'[u][sn] = walkers[u][sn]
           /\ u = v => \A sn \in Stage :
                walkers'[u][sn] = IF sn = st THEN walkers[u][sn] - 1
                                  ELSE walkers[u][sn]
  <1>1. u \notin Down[v]
    BY GraphType
  <1> QED BY <1>1 DEF WalkOn, TypeOK

LEMMA StepSkipVisited ==
    ASSUME IInv, NEW v \in Vertex, SkipVisited(v), TypeOK'
    PROVE  IInv'
  <1>1. SourcesOnce'
    <2> SUFFICES ASSUME NEW u \in Vertex, Up[u] = {}
                 PROVE  SourcesOnce!(u)!2'
      BY DEF SourcesOnce
    <2>1. CASE u # v
      BY <2>1, StageNames, WalkOnSources DEF IInv, SourcesOnce, SkipVisited, workerVars, mainVars
    <2>2. CASE u = v
      BY <2>2, StageNames, WalkOnSources DEF IInv, SourcesOnce, SkipVisited, workerVars, mainVars
    <2> QED BY <2>1, <2>2
  <1> QED BY <1>1, WalkerFrame DEF SkipVisited

(* A walker that changes its stage keeps the number of the root's walkers. *)
LEMMA WalkerToSources ==
    ASSUME IInv, NEW v \in Vertex, NEW st \in Stage, NEW sn \in Stage, st # sn,
           walkers[v][st] > 0, WalkerTo(v, st, sn),
           UNCHANGED <<workerVars, mainVars>>
    PROVE  SourcesOnce'
  <1>1. walkers \in [Vertex -> [Stage -> Nat]]
    BY DEF IInv, TypeOK
  <1>2. \A u \in Vertex \ {v} : walkers'[u] = walkers[u]
    BY <1>1 DEF WalkerTo
  <1>3. /\ walkers'[v][st] = walkers[v][st] - 1
        /\ walkers'[v][sn] = walkers[v][sn] + 1
        /\ \A sx \in Stage \ {st, sn} : walkers'[v][sx] = walkers[v][sx]
    BY <1>1 DEF WalkerTo
  <1> SUFFICES ASSUME NEW u \in Vertex, Up[u] = {}
               PROVE  SourcesOnce!(u)!2'
    BY DEF SourcesOnce
  <1>4. CASE u # v
    BY <1>2, <1>4 DEF IInv, SourcesOnce, workerVars, mainVars
  <1>5. CASE u = v
    <2>1. /\ v = Root /\ main = "execute"
          /\ \E sx \in Stage : walkers[v][sx] = 1 /\ \A sy \in Stage \ {sx} : walkers[v][sy] = 0
          /\ \A w \in Worker : w[1] = v => pc[w] = "none"
      BY <1>5, <1>1 DEF IInv, SourcesOnce
    <2>2. walkers[v][st] = 1 /\ \A sy \in Stage \ {st} : walkers[v][sy] = 0
      BY <2>1, <1>1
    <2>3. walkers'[v][sn] = 1 /\ \A sy \in Stage \ {sn} : walkers'[v][sy] = 0
      BY <2>2, <1>3, <1>1
    <2> QED BY <1>5, <2>1, <2>3 DEF workerVars, mainVars
  <1> QED BY <1>4, <1>5

LEMMA StepFindUnvisited ==
    ASSUME IInv, NEW v \in Vertex, FindUnvisited(v), TypeOK'
    PROVE  IInv'
  <1>1. SourcesOnce'
    BY StageNames, WalkerToSources DEF FindUnvisited
  <1> QED BY <1>1, WalkerFrame DEF FindUnvisited

LEMMA StepBlockOnLock ==
    ASSUME IInv, NEW v \in Vertex, BlockOnLock(v), TypeOK'
    PROVE  IInv'
  <1>1. SourcesOnce'
    BY StageNames, WalkerToSources DEF BlockOnLock
  <1> QED BY <1>1, WalkerFrame DEF BlockOnLock

(* A new worker has received nothing; the root's only walker is gone with  *)
(* it.                                                                     *)
LEMMA StepSchedule ==
    ASSUME IInv, NEW v \in Vertex, NEW st \in Stage, NEW s \in Slot,
           Schedule(v, st, s), TypeOK'
    PROVE  IInv'
  <1> DEFINE n == <<v, s>>
  <1>1. n \in Worker /\ n[1] = v
    BY WorkerParts
  <1>2. PICK k \in NextKey(n, Up[v]) : cur' = [cur EXCEPT ![n] = k]
    BY DEF Schedule
  <1>3. Up[v] # {} => k \in Up[v]
    BY <1>1, <1>2, GraphType, NextKeyIn
  <1> HIDE DEF n
  <1>4. /\ pc[n] = "none"
        /\ pc' = [pc EXCEPT ![n] = IF Up[v] = {} THEN "run" ELSE "check"]
        /\ todo' = [todo EXCEPT ![n] = Up[v]]
        /\ ok' = ok /\ closed' = closed /\ finished' = finished
        /\ mainTodo' = mainTodo /\ mainCur' = mainCur /\ verdict' = verdict
        /\ main' = IF v = Root THEN "wait" ELSE main
    BY DEF Schedule, n
  <1>5. \A x \in Worker \ {n} : /\ pc'[x] = pc[x] /\ todo'[x] = todo[x]
                                /\ cur'[x] = cur[x] /\ Got(x)' = Got(x)
    BY <1>2, <1>4 DEF IInv, TypeOK, Got
  <1>6. /\ pc'[n] = IF Up[v] = {} THEN "run" ELSE "check"
        /\ todo'[n] = Up[v] /\ cur'[n] = k
    BY <1>1, <1>2, <1>4 DEF IInv, TypeOK
  <1>7. Got(n)' = {}
    BY <1>1, <1>6 DEF Got, RanPC
  <1>8. LoopsInRange'
    BY <1>1, <1>3, <1>5, <1>6 DEF IInv, LoopsInRange
  <1>9. OneReceiver'
    BY <1>4, <1>5, <1>7 DEF IInv, OneReceiver
  <1>10. ClosedBySender'
    BY <1>4, <1>5 DEF IInv, ClosedBySender
  <1>11. FinishedSet'
    BY <1>4, <1>5, <1>6 DEF IInv, FinishedSet, EndPC, RanPC
  <1>12. (main = "execute" /\ verdict = "none" /\ mainTodo = Vertex) \/ v # Root
    BY GraphType DEF IInv, SourcesOnce, MainHeard, Schedule
  <1>13. MainHeard' /\ SuccessIsTotal'
    BY <1>4, <1>5, <1>12 DEF IInv, TypeOK, MainHeard, SuccessIsTotal
  <1>14. SourcesOnce'
    <2> SUFFICES ASSUME NEW u \in Vertex, Up[u] = {}
                 PROVE  SourcesOnce!(u)!2'
      BY DEF SourcesOnce
    <2>1. WalkOn(v, st) /\ walkers[v][st] > 0
      BY DEF Schedule
    <2>2. CASE u # v
      <3>1. \A sn \in Stage : walkers'[u][sn] = walkers[u][sn]
        BY <2>1, <2>2, WalkOnSources DEF IInv
      <3>2. u = Root => main' = main
        BY <2>2, <1>4
      <3>3. \A x \in Worker : x[1] = u => pc'[x] = pc[x]
        BY <1>1, <1>5, <2>2
      <3> QED BY <3>1, <3>2, <3>3 DEF IInv, SourcesOnce
    <2>3. CASE u = v
      <3>1. /\ \E sx \in Stage : walkers[v][sx] = 1 /\ \A sy \in Stage \ {sx} : walkers[v][sy] = 0
            /\ \A w \in Worker : w[1] = v => pc[w] = "none"
        BY <2>1, <2>3 DEF IInv, SourcesOnce
      <3>2. walkers[v][st] = 1 /\ \A sy \in Stage \ {st} : walkers[v][sy] = 0
        BY <3>1, <2>1
      <3>3. \A sn \in Stage : walkers'[v][sn] = 0
        BY <3>2, <2>1, <2>3, WalkOnSources DEF IInv
      <3>4. \A x \in Worker : x[1] = v /\ pc'[x] # "none" => x = n
        BY <3>1, <1>5
      <3> QED BY <2>3, <3>3, <3>4
    <2> QED BY <2>2, <2>3
  <1> QED BY <1>8, <1>9, <1>10, <1>11, <1>13, <1>14 DEF IInv

(* A step of started workers leaves the walkers alone, so the workers of   *)
(* vertices without dependencies stay as many as they were.                *)
LEMMA SourcesFrame ==
    ASSUME IInv, UNCHANGED walkVars, main = "execute" => main' = "execute",
           \A x \in Worker : pc'[x] = "none" <=> pc[x] = "none"
    PROVE  SourcesOnce'
  BY DEF IInv, SourcesOnce, walkVars

LEMMA StepCheckDependency ==
    ASSUME IInv, NEW w \in Worker, CheckDependency(w), TypeOK'
    PROVE  IInv'
  <1>1. PICK left \in SUBSET Vertex, k \in Vertex, p \in {"check", "wait"} :
            CheckMove(w, left, k, p)
    BY CheckMoves DEF IInv
  <1>2. /\ pc[w] = "check" /\ ok' = ok /\ closed' = closed
        /\ finished' = finished /\ UNCHANGED <<walkVars, mainVars>>
    BY DEF CheckDependency
  <1>3. \A x \in Worker \ {w} : /\ pc'[x] = pc[x] /\ todo'[x] = todo[x]
                                /\ cur'[x] = cur[x] /\ Got(x)' = Got(x)
    BY <1>1 DEF CheckMove, IInv, TypeOK, Got
  <1>4. pc'[w] = p /\ todo'[w] = left /\ cur'[w] = k
    BY <1>1 DEF CheckMove, IInv, TypeOK
  <1>5. Up[w[1]] # {} /\ left \subseteq Up[w[1]] /\ k \in left
    BY <1>1, <1>2 DEF CheckMove, IInv, LoopsInRange, Rest
  <1>6. Got(w)' = {}
    BY <1>1, <1>4 DEF CheckMove, Got, RanPC
  <1>7. LoopsInRange'
    BY <1>1, <1>3, <1>4, <1>5 DEF IInv, LoopsInRange
  <1>8. OneReceiver'
    BY <1>2, <1>3, <1>6 DEF IInv, OneReceiver
  <1>9. ClosedBySender' /\ FinishedSet'
    BY <1>2, <1>3, <1>4 DEF IInv, ClosedBySender, FinishedSet, EndPC, RanPC
  <1>10. MainHeard' /\ SuccessIsTotal'
    BY <1>2, <1>3 DEF IInv, MainHeard, SuccessIsTotal, mainVars
  <1>11. SourcesOnce'
    BY <1>2, <1>3, <1>4, SourcesFrame DEF mainVars
  <1> QED BY <1>7, <1>8, <1>9, <1>10, <1>11 DEF IInv

(* A delivery closes its channel, so no other worker has received from it  *)
(* and no other will.                                                      *)
LEMMA StepDeliver ==
    ASSUME IInv, NEW w \in Worker, NEW d \in Worker, Deliver(d, w), TypeOK'
    PROVE  IInv'
  <1>1. PICK i \in NextKey(d, Rest(d)), j \in NextKey(w, Rest(w)) :
            cur' = [cur EXCEPT ![d] = i, ![w] = j]
    BY DEF Deliver
  <1>2. /\ pc[d] = "send" /\ cur[d] = w[1]
        /\ pc[w] = "wait" /\ cur[w] = d[1]
        /\ <<d[1], w[1]>> \notin closed
        /\ closed' = closed \cup {<<d[1], w[1]>>}
        /\ ok' = ok /\ finished' = finished /\ UNCHANGED <<walkVars, mainVars>>
    BY DEF Deliver
  <1>3. /\ cur[w] \in todo[w] /\ todo[w] \subseteq Up[w[1]]
        /\ cur[d] \in todo[d] /\ todo[d] \subseteq Down[d[1]]
        /\ d # w /\ w[1] \in Vertex /\ d[1] \in Vertex
    BY <1>2, WorkerParts DEF IInv, LoopsInRange
  <1>4. \A x \in Worker \ {w, d} : /\ pc'[x] = pc[x] /\ todo'[x] = todo[x]
                                   /\ cur'[x] = cur[x] /\ Got(x)' = Got(x)
    BY <1>1 DEF Deliver, IInv, TypeOK, Got
  <1>5. /\ pc'[d] = IF Rest(d) = {} THEN "report" ELSE "send"
        /\ pc'[w] = IF Rest(w) = {} THEN "run" ELSE "wait"
        /\ todo'[d] = Rest(d) /\ todo'[w] = Rest(w)
        /\ cur'[d] = i /\ cur'[w] = j
    BY <1>1, <1>3 DEF Deliver, IInv, TypeOK
  <1>6. /\ Rest(d) # {} => i \in Rest(d)
        /\ Rest(w) # {} => j \in Rest(w)
    BY <1>1 DEF NextKey
  <1>7. Got(d)' = Got(d)
    BY <1>2, <1>5 DEF Got, RanPC
  <1>8. Got(w)' = Got(w) \cup {d[1]}
    <2>1. CASE Rest(w) = {}
      BY <1>2, <1>3, <1>5, <2>1 DEF Got, RanPC, Rest
    <2>2. CASE Rest(w) # {}
      BY <1>2, <1>3, <1>5, <2>2 DEF Got, Rest
    <2> QED BY <2>1, <2>2
  <1>9. LoopsInRange'
    BY <1>3, <1>4, <1>5, <1>6 DEF IInv, LoopsInRange, Rest
  <1>10. OneReceiver'
    <2>1. ASSUME NEW x \in Worker, NEW e \in Got(x)' PROVE <<e, x[1]>> \in closed'
      <3>1. e \in Got(x) \/ (x = w /\ e = d[1])
        BY <1>4, <1>7, <1>8
      <3>2. e \in Got(x) => <<e, x[1]>> \in closed
        BY DEF IInv, OneReceiver
      <3> QED BY <3>1, <3>2, <1>2
    <2>2. \A x \in Worker : x[1] = w[1] => d[1] \notin Got(x)
      BY <1>2 DEF IInv, OneReceiver
    <2>3. \A x, y \in Worker : x[1] = y[1] /\ x # y => Got(x)' \cap Got(y)' = {}
      <3> SUFFICES ASSUME NEW x \in Worker, NEW y \in Worker, x[1] = y[1], x # y,
                          NEW e \in Got(x)', e \in Got(y)'
                   PROVE  FALSE
        OBVIOUS
      <3>1. e \in Got(x) \/ (x = w /\ e = d[1])
        BY <1>4, <1>7, <1>8
      <3>2. e \in Got(y) \/ (y = w /\ e = d[1])
        BY <1>4, <1>7, <1>8
      <3> QED BY <3>1, <3>2, <2>2 DEF IInv, OneReceiver
    <2> QED BY <2>1, <2>3 DEF OneReceiver
  <1>11. ClosedBySender'
    <2> SUFFICES ASSUME NEW e \in Vertex, NEW v \in Vertex, <<e, v>> \in closed'
                 PROVE  ClosedBySender!(e, v)!2'
      BY DEF ClosedBySender
    <2>1. CASE <<e, v>> \in closed
      <3>1. PICK x \in Worker : /\ x[1] = e
                                /\ \/ pc[x] = "send" /\ v \notin todo[x]
                                   \/ pc[x] \in {"report", "done"}
        BY <2>1 DEF IInv, ClosedBySender
      <3>2. x # w
        BY <1>2, <3>1
      <3> QED BY <3>1, <3>2, <1>2, <1>4, <1>5 DEF Rest
    <2>2. CASE <<e, v>> = <<d[1], w[1]>>
      BY <2>2, <1>2, <1>5 DEF Rest
    <2> QED BY <1>2, <2>1, <2>2
  <1>12. FinishedSet'
    BY <1>2, <1>4, <1>5 DEF IInv, FinishedSet, EndPC, RanPC
  <1>13. \A x \in Worker : pc'[x] = "done" <=> pc[x] = "done"
    BY <1>2, <1>4, <1>5
  <1>14. MainHeard' /\ SuccessIsTotal'
    BY <1>2, <1>13 DEF IInv, MainHeard, SuccessIsTotal, mainVars
  <1>15. SourcesOnce'
    BY <1>2, <1>4, <1>5, SourcesFrame DEF mainVars
  <1> QED BY <1>9, <1>10, <1>11, <1>12, <1>14, <1>15 DEF IInv

(* What one worker does by itself, once it is started and until it has     *)
(* ended, says nothing of main and keeps every worker started.             *)
LEMMA StepReceiveClosed ==
    ASSUME IInv, NEW w \in Worker, ReceiveClosed(w), TypeOK'
    PROVE  IInv'
  <1>1. /\ pc[w] = "wait" /\ ok' = ok /\ closed' = closed
        /\ finished' = finished /\ UNCHANGED <<walkVars, mainVars>>
    BY DEF ReceiveClosed
  <1>2. \A x \in Worker \ {w} : /\ pc'[x] = pc[x] /\ todo'[x] = todo[x]
                                /\ cur'[x] = cur[x] /\ Got(x)' = Got(x)
    BY DEF ReceiveClosed, IInv, TypeOK, Got
  <1>3. pc'[w] = "gone" /\ Got(w)' = {}
    BY DEF ReceiveClosed, IInv, TypeOK, Got, RanPC
  <1>4. LoopsInRange' /\ ClosedBySender' /\ FinishedSet'
    BY <1>1, <1>2, <1>3
       DEF IInv, LoopsInRange, ClosedBySender, FinishedSet, EndPC, RanPC
  <1>5. OneReceiver'
    BY <1>1, <1>2, <1>3 DEF IInv, OneReceiver
  <1>6. MainHeard' /\ SuccessIsTotal'
    BY <1>1, <1>2 DEF IInv, MainHeard, SuccessIsTotal, mainVars
  <1>7. SourcesOnce'
    BY <1>1, <1>2, <1>3, SourcesFrame DEF mainVars
  <1> QED BY <1>4, <1>5, <1>6, <1>7 DEF IInv

LEMMA StepFunctionReturns ==
    ASSUME IInv, NEW w \in Worker, NEW success \in BOOLEAN,
           FunctionReturns(w, success), TypeOK'
    PROVE  IInv'
  <1>1. /\ pc[w] = "run" /\ closed' = closed /\ todo' = todo /\ cur' = cur
        /\ UNCHANGED <<walkVars, mainVars>>
    BY DEF FunctionReturns
  <1>2. \A x \in Worker \ {w} : pc'[x] = pc[x] /\ ok'[x] = ok[x]
    BY DEF FunctionReturns, IInv, TypeOK
  <1>3. pc'[w] = "signal" /\ finished'[w[1]]
    BY WorkerParts DEF FunctionReturns, IInv, TypeOK
  <1>4. \A v \in Vertex : finished[v] => finished'[v]
    BY DEF FunctionReturns, IInv, TypeOK
  <1>5. \A x \in Worker : Got(x)' = Got(x)
    BY <1>1, <1>2, <1>3 DEF Got, RanPC
  <1>6. LoopsInRange' /\ ClosedBySender'
    BY <1>1, <1>2, <1>3 DEF IInv, LoopsInRange, ClosedBySender
  <1>7. FinishedSet'
    BY <1>2, <1>3, <1>4, WorkerParts DEF IInv, FinishedSet
  <1>8. OneReceiver'
    BY <1>1, <1>5 DEF IInv, OneReceiver
  <1>9. MainHeard' /\ SuccessIsTotal'
    BY <1>1, <1>2 DEF IInv, MainHeard, SuccessIsTotal, mainVars
  <1>10. SourcesOnce'
    BY <1>1, <1>2, <1>3, SourcesFrame DEF mainVars
  <1> QED BY <1>6, <1>7, <1>8, <1>9, <1>10 DEF IInv

LEMMA StepBeginSignal ==
    ASSUME IInv, NEW w \in Worker, BeginSignal(w), TypeOK'
    PROVE  IInv'
  <1>1. PICK k \in NextKey(w, Down[w[1]]) : cur' = [cur EXCEPT ![w] = k]
    BY DEF BeginSignal
  <1>2. /\ pc[w] = "signal" /\ ok' = ok /\ closed' = closed
        /\ finished' = finished /\ UNCHANGED <<walkVars, mainVars>>
    BY DEF BeginSignal
  <1>3. \A x \in Worker \ {w} : /\ pc'[x] = pc[x] /\ todo'[x] = todo[x]
                                /\ cur'[x] = cur[x]
    BY <1>1 DEF BeginSignal, IInv, TypeOK
  <1>4. /\ pc'[w] = IF Down[w[1]] = {} THEN "report" ELSE "send"
        /\ todo'[w] = Down[w[1]] /\ cur'[w] = k
        /\ Down[w[1]] # {} => k \in Down[w[1]]
    BY <1>1 DEF BeginSignal, IInv, TypeOK, NextKey
  <1>5. \A x \in Worker : Got(x)' = Got(x)
    BY <1>2, <1>3, <1>4 DEF Got, RanPC
  <1>6. LoopsInRange'
    BY <1>3, <1>4 DEF IInv, LoopsInRange
  <1>7. ClosedBySender' /\ FinishedSet'
    BY <1>2, <1>3, <1>4 DEF IInv, ClosedBySender, FinishedSet, EndPC, RanPC
  <1>8. OneReceiver'
    BY <1>2, <1>5 DEF IInv, OneReceiver
  <1>9. MainHeard' /\ SuccessIsTotal'
    BY <1>2, <1>3 DEF IInv, MainHeard, SuccessIsTotal, mainVars
  <1>10. SourcesOnce'
    BY <1>2, <1>3, <1>4, SourcesFrame DEF mainVars
  <1> QED BY <1>6, <1>7, <1>8, <1>9, <1>10 DEF IInv

(* Main takes a vertex off its list when that vertex' worker has reported  *)
(* ok; the last one makes the run a success.                               *)
LEMMA StepReport ==
    ASSUME IInv, NEW w \in Worker, Report(w), TypeOK'
    PROVE  IInv'
  <1>1. /\ pc[w] = "report" /\ main = "wait" /\ mainCur = w[1]
        /\ todo' = todo /\ cur' = cur /\ ok' = ok /\ closed' = closed
        /\ finished' = finished /\ UNCHANGED walkVars
    BY DEF Report
  <1>2. \A x \in Worker \ {w} : pc'[x] = pc[x]
    BY DEF Report, IInv, TypeOK
  <1>3. pc'[w] = "done"
    BY DEF Report, IInv, TypeOK
  <1>4. \A x \in Worker : Got(x)' = Got(x)
    BY <1>1, <1>2, <1>3 DEF Got, RanPC
  <1>5. LoopsInRange' /\ ClosedBySender' /\ FinishedSet'
    BY <1>1, <1>2, <1>3
       DEF IInv, LoopsInRange, ClosedBySender, FinishedSet, EndPC, RanPC
  <1>6. OneReceiver'
    BY <1>1, <1>4 DEF IInv, OneReceiver
  <1>7. SourcesOnce'
    BY <1>1, <1>2, <1>3, SourcesFrame
  <1>8. \A v \in Vertex \ mainTodo :
            \E x \in Worker : x[1] = v /\ pc'[x] = "done" /\ ok'[x]
    BY <1>1, <1>2 DEF IInv, MainHeard
  <1>9. CASE ok[w] /\ mainTodo # {mainCur}
    <2>1. /\ mainTodo' = mainTodo \ {mainCur} /\ mainCur' \in mainTodo'
          /\ main' = main /\ verdict' = verdict
      BY <1>9 DEF Report
    <2>2. MainHeard'
      BY <1>1, <1>3, <1>8, <1>9, <2>1 DEF IInv, MainHeard
    <2>3. SuccessIsTotal'
      BY <1>1, <2>1 DEF IInv, MainHeard, SuccessIsTotal
    <2> QED BY <1>5, <1>6, <1>7, <2>2, <2>3 DEF IInv
  <1>10. CASE ~(ok[w] /\ mainTodo # {mainCur})
    <2>1. /\ main' = "done"
          /\ verdict' = IF ok[w] THEN "success" ELSE "failure"
      BY <1>10 DEF Report, MainReturns
    <2>2. MainHeard'
      BY <2>1 DEF MainHeard
    <2>3. SuccessIsTotal'
      BY <1>1, <1>3, <1>8, <1>10, <2>1 DEF SuccessIsTotal
    <2> QED BY <1>5, <1>6, <1>7, <2>2, <2>3 DEF IInv
  <1> QED BY <1>9, <1>10

(* Cancelling changes only main.                                           *)
LEMMA StepCancel ==
    ASSUME IInv, MainCanceled \/ ParentCancels, TypeOK'
    PROVE  IInv'
  <1>1. UNCHANGED <<walkVars, finished, closed, workerVars>>
    BY DEF MainCanceled, ParentCancels
  <1>2. \A x \in Worker : Got(x)' = Got(x)
    BY <1>1 DEF Got, workerVars
  <1>3. LoopsInRange' /\ ClosedBySender' /\ FinishedSet'
    BY <1>1 DEF IInv, LoopsInRange, ClosedBySender, FinishedSet, workerVars
  <1>4. OneReceiver'
    BY <1>1, <1>2 DEF IInv, OneReceiver
  <1>5. SourcesOnce'
    BY <1>1, SourcesFrame DEF workerVars, MainCanceled, ParentCancels
  <1>6. MainHeard' /\ SuccessIsTotal'
    BY <1>1 DEF IInv, MainHeard, SuccessIsTotal, workerVars, MainCanceled,
                MainReturns, ParentCancels
  <1> QED BY <1>3, <1>4, <1>5, <1>6 DEF IInv

LEMMA InvStep == IInv /\ [Next]_vars => IInv'
  <1> SUFFICES ASSUME IInv, [Next]_vars PROVE IInv'
    OBVIOUS
  <1>1. TypeOK'
    BY TypeStep DEF IInv
  <1>2. CASE UNCHANGED vars
    BY <1>1, <1>2, WalkerFrame
       DEF vars, workerVars, mainVars, IInv, SourcesOnce
  <1> QED
    BY <1>1, <1>2, StepSkipVisited, StepFindUnvisited, StepBlockOnLock,
       StepSchedule, StepCheckDependency, StepDeliver, StepReceiveClosed,
       StepFunctionReturns, StepBeginSignal, StepReport, StepCancel
       DEF Next, WalkerStep, WorkerStep

-----------------------------------------------------------------------------
(* The inductive invariant holds in every reachable state.                 *)
THEOREM Invariance == Spec => []IInv
  BY InvInit, InvStep, PTL DEF Spec

(* However many goroutines execute starts for a vertex because its test    *)
(* and set of visited are not atomic, the vertex' function runs at most    *)
(* once.                                                                   *)
THEOREM RunsOnce == Spec => []RunOnce
  BY Invariance, InvRunOnce, PTL

(* run never sends on, or closes, a closed dependency channel: the         *)
(* executor does not panic there.                                          *)
THEOREM NeverSendsOnClosed == Spec => []NoSendOnClosed
  BY Invariance, InvNoSendOnClosed, PTL

(* A function starts only when the functions of all its dependencies have  *)
(* returned.                                                               *)
THEOREM RunsAfterDependencies == Spec => []DependenciesFirst
  BY Invariance, InvDependenciesFirst, PTL

(* ExecPostRunFn is told success only when every vertex ran and succeeded. *)
THEOREM SuccessMeansAll == Spec => []SuccessIsTotal
  <1>1. IInv => SuccessIsTotal
    BY DEF IInv
  <1> QED BY <1>1, Invariance, PTL

-----------------------------------------------------------------------------
(* A function that was started stays started, and a worker that is done    *)
(* stays done with its result.                                             *)
LEMMA RanStable ==
    ASSUME IInv, [Next]_vars, NEW x \in Worker
    PROVE  /\ pc[x] \in RanPC => pc'[x] \in RanPC
           /\ pc[x] \in EndPC => pc'[x] \in EndPC /\ ok'[x] = ok[x]
           /\ pc[x] = "done" => pc'[x] = "done"
  <1> USE DEF RanPC, EndPC, IInv, TypeOK
  <1>1. ASSUME NEW v \in Vertex, SkipVisited(v) \/ FindUnvisited(v) \/ BlockOnLock(v)
        PROVE  pc' = pc /\ ok' = ok
    BY <1>1 DEF SkipVisited, FindUnvisited, BlockOnLock, workerVars
  <1>2. ASSUME NEW v \in Vertex, NEW st \in Stage, NEW s \in Slot, Schedule(v, st, s)
        PROVE  ok' = ok /\ (pc[x] # "none" => pc'[x] = pc[x])
    BY <1>2 DEF Schedule
  <1>3. ASSUME NEW w \in Worker, CheckDependency(w)
        PROVE  ok' = ok /\ (pc[x] # "check" => pc'[x] = pc[x])
    BY <1>3 DEF CheckDependency
  <1>4. ASSUME NEW w \in Worker, NEW d \in Worker, Deliver(d, w)
        PROVE  /\ ok' = ok /\ (pc[x] \notin {"send", "wait"} => pc'[x] = pc[x])
               /\ pc[x] = "send" => pc'[x] \in {"send", "report"}
    BY <1>4 DEF Deliver
  <1>5. ASSUME NEW w \in Worker, ReceiveClosed(w)
        PROVE  ok' = ok /\ (pc[x] # "wait" => pc'[x] = pc[x])
    BY <1>5 DEF ReceiveClosed
  <1>6. ASSUME NEW w \in Worker, NEW success \in BOOLEAN, FunctionReturns(w, success)
        PROVE  /\ pc[x] # "run" => ok'[x] = ok[x] /\ pc'[x] = pc[x]
               /\ pc[x] = "run" => pc'[x] \in {"run", "signal"}
    BY <1>6 DEF FunctionReturns
  <1>7. ASSUME NEW w \in Worker, BeginSignal(w)
        PROVE  /\ ok' = ok /\ (pc[x] # "signal" => pc'[x] = pc[x])
               /\ pc[x] = "signal" => pc'[x] \in {"signal", "report", "send"}
    BY <1>7 DEF BeginSignal
  <1>8. ASSUME NEW w \in Worker, Report(w)
        PROVE  /\ ok' = ok /\ (pc[x] # "report" => pc'[x] = pc[x])
               /\ pc[x] = "report" => pc'[x] \in {"report", "done"}
    BY <1>8 DEF Report
  <1>9. MainCanceled \/ ParentCancels \/ UNCHANGED vars => pc' = pc /\ ok' = ok
    BY DEF MainCanceled, ParentCancels, workerVars, vars
  <1> QED
    BY <1>1, <1>2, <1>3, <1>4, <1>5, <1>6, <1>7, <1>8, <1>9
       DEF Next, WalkerStep, WorkerStep

(* After a success every vertex has a worker that is done: another one     *)
(* inside a function would be the second to run it, and the one that is    *)
(* done has received from, and so seen closed, every channel of its vertex.*)
THEOREM SuccessIsQuiet == Spec => []QuietAfterSuccess
  <1>1. ASSUME IInv, verdict = "success", NEW w \in Worker
        PROVE  /\ pc[w] \notin RanPC \ {"done"}
               /\ pc[w] = "wait" => <<cur[w], w[1]>> \in closed
    <2>1. PICK x \in Worker : x[1] = w[1] /\ pc[x] = "done"
      BY <1>1, WorkerParts DEF IInv, SuccessIsTotal
    <2>2. pc[w] \notin RanPC \ {"done"}
      BY <1>1, <2>1, InvRunOnce DEF RunOnce, RanPC
    <2>3. ASSUME pc[w] = "wait" PROVE <<cur[w], w[1]>> \in closed
      <3>1. cur[w] \in Up[w[1]]
        BY <1>1, <2>3 DEF IInv, LoopsInRange
      <3>2. Got(x) = Up[w[1]]
        BY <2>1 DEF Got, RanPC
      <3> QED BY <1>1, <2>1, <3>1, <3>2 DEF IInv, OneReceiver
    <2> QED BY <2>2, <2>3
  <1>2. IInv => QuietAfterSuccess
    BY <1>1 DEF QuietAfterSuccess
  <1> QED BY <1>2, Invariance, PTL

-----------------------------------------------------------------------------
(* The refinement of DagRun.                                               *)

(* A vertex' status depends on its own workers' functions only.            *)
LEMMA StatusSame ==
    ASSUME NEW v \in Vertex,
           \A x \in Worker : x[1] = v =>
              /\ pc'[x] = "run" <=> pc[x] = "run"
              /\ pc'[x] \in EndPC <=> pc[x] \in EndPC
              /\ pc[x] \in EndPC => ok'[x] = ok[x]
    PROVE  VertexStatus'[v] = VertexStatus[v]
  BY DEF VertexStatus

(* ... and when at most one worker has run, on that worker.                *)
LEMMA StatusOf ==
    ASSUME RunOnce, NEW w \in Worker
    PROVE  /\ pc[w] = "run" => VertexStatus[w[1]] = "running"
           /\ pc[w] \in EndPC => VertexStatus[w[1]] = IF ok[w] THEN "ok" ELSE "failed"
  <1>1. w[1] \in Vertex
    BY WorkerParts
  <1>2. pc[w] = "run" => VertexStatus[w[1]] = "running"
    BY <1>1 DEF VertexStatus
  <1>3. ASSUME pc[w] \in EndPC
        PROVE  VertexStatus[w[1]] = IF ok[w] THEN "ok" ELSE "failed"
    <2>1. \A x \in Worker : x[1] = w[1] /\ pc[x] \in RanPC => x = w
      BY <1>3 DEF RunOnce, EndPC
    <2> QED BY <1>1, <1>3, <2>1 DEF VertexStatus, EndPC, RanPC
  <1> QED BY <1>2, <1>3

LEMMA StatusOfNext ==
    ASSUME IInv', NEW w \in Worker
    PROVE  /\ pc'[w] = "run" => VertexStatus'[w[1]] = "running"
           /\ pc'[w] \in EndPC => VertexStatus'[w[1]] = IF ok'[w] THEN "ok" ELSE "failed"
  <1>1. RunOnce'
    BY RunOnceNext
  <1>2. w[1] \in Vertex
    BY WorkerParts
  <1>3. pc'[w] = "run" => VertexStatus'[w[1]] = "running"
    BY <1>2 DEF VertexStatus
  <1>4. ASSUME pc'[w] \in EndPC
        PROVE  VertexStatus'[w[1]] = IF ok'[w] THEN "ok" ELSE "failed"
    <2>1. \A x \in Worker : x[1] = w[1] /\ pc'[x] \in RanPC => x = w
      BY <1>1, <1>4 DEF RunOnce, EndPC
    <2> QED BY <1>2, <1>4, <2>1 DEF VertexStatus, EndPC, RanPC
  <1> QED BY <1>3, <1>4

(* Every vertex has a status, so that the function is known by its values. *)
LEMMA StatusFunction ==
    /\ VertexStatus = [v \in Vertex |-> VertexStatus[v]]
    /\ VertexStatus' = [v \in Vertex |-> VertexStatus'[v]]
  BY DEF VertexStatus

(* A worker that starts its function starts its vertex.                    *)
LEMMA StartsVertex ==
    ASSUME IInv, IInv', [Next]_vars, NEW w \in Worker, pc[w] \notin RanPC,
           pc'[w] = "run", verdict' = verdict, ok' = ok,
           \A d \in Up[w[1]] : \E x \in Worker : x[1] = d /\ pc[x] \in EndPC,
           \A x \in Worker \ {w} :
              (pc'[x] = "run" <=> pc[x] = "run") /\ (pc'[x] \in EndPC <=> pc[x] \in EndPC)
    PROVE  Run!Start(w[1])
  <1>1. w[1] \in Vertex
    BY WorkerParts
  <1>2. ASSUME NEW x \in Worker, x[1] = w[1] PROVE pc[x] \notin RanPC
    <2>1. pc[x] \in RanPC => pc'[x] \in RanPC
      BY RanStable
    <2>2. RunOnce'
      BY RunOnceNext
    <2> QED BY <1>2, <2>1, <2>2 DEF RunOnce, RanPC
  <1>3. VertexStatus[w[1]] = "idle"
    BY <1>1, <1>2 DEF VertexStatus, EndPC, RanPC
  <1>4. VertexStatus'[w[1]] = "running"
    BY StatusOfNext
  <1>5. ASSUME NEW v \in Vertex, v # w[1] PROVE VertexStatus'[v] = VertexStatus[v]
    BY <1>5, StatusSame
  <1>6. VertexStatus' = [VertexStatus EXCEPT ![w[1]] = "running"]
    BY <1>1, <1>4, <1>5, StatusFunction
  <1>7. ASSUME NEW d \in Up[w[1]] PROVE VertexStatus[d] \in {"ok", "failed"}
    BY <1>7, StatusOf, InvRunOnce
  <1> QED BY <1>3, <1>6, <1>7 DEF Run!Start, Run!Ended

(* Steps in which no function starts or returns stutter in the statuses.   *)
LEMMA StatusStutter ==
    ASSUME \A x \in Worker : /\ pc'[x] = "run" <=> pc[x] = "run"
                             /\ pc'[x] \in EndPC <=> pc[x] \in EndPC
                             /\ pc[x] \in EndPC => ok'[x] = ok[x]
    PROVE  VertexStatus' = VertexStatus
  <1>1. ASSUME NEW v \in Vertex PROVE VertexStatus'[v] = VertexStatus[v]
    BY StatusSame
  <1> QED BY <1>1, StatusFunction

LEMMA RefineInit == Init => Run!RunInit
  BY DEF Init, Run!RunInit, VertexStatus, EndPC, RanPC

LEMMA RefineStep ==
    ASSUME IInv, IInv', [Next]_vars
    PROVE  [Run!RunNext]_<<VertexStatus, verdict>>
  <1> USE DEF EndPC, RanPC
  <1>1. ASSUME NEW v \in Vertex, SkipVisited(v) \/ FindUnvisited(v) \/ BlockOnLock(v)
        PROVE  VertexStatus' = VertexStatus /\ verdict' = verdict
    BY <1>1, StatusStutter
       DEF SkipVisited, FindUnvisited, BlockOnLock, workerVars, mainVars
  <1>2. ASSUME NEW v \in Vertex, NEW st \in Stage, NEW s \in Slot, Schedule(v, st, s)
        PROVE  [Run!RunNext]_<<VertexStatus, verdict>>
    <2>1. <<v, s>> \in Worker /\ <<v, s>>[1] = v
      BY WorkerParts
    <2>2. /\ pc[<<v, s>>] = "none" /\ ok' = ok /\ verdict' = verdict
          /\ pc'[<<v, s>>] = IF Up[v] = {} THEN "run" ELSE "check"
          /\ \A x \in Worker \ {<<v, s>>} : pc'[x] = pc[x]
      BY <1>2, <2>1 DEF Schedule, IInv, TypeOK
    <2>3. CASE Up[v] = {}
      <3>1. Run!Start(v)
        BY <2>1, <2>2, <2>3, StartsVertex
      <3> QED BY <3>1 DEF Run!RunNext
    <2>4. CASE Up[v] # {}
      BY <2>2, <2>4, StatusStutter
    <2> QED BY <2>3, <2>4
  <1>3. ASSUME NEW w \in Worker, CheckDependency(w)
        PROVE  VertexStatus' = VertexStatus /\ verdict' = verdict
    BY <1>3, StatusStutter DEF CheckDependency, IInv, TypeOK, mainVars
  <1>4. ASSUME NEW w \in Worker, NEW d \in Worker, Deliver(d, w)
        PROVE  [Run!RunNext]_<<VertexStatus, verdict>>
    <2>1. /\ pc[d] = "send" /\ pc[w] = "wait" /\ ok' = ok /\ verdict' = verdict
          /\ closed' = closed \cup {<<d[1], w[1]>>}
          /\ pc'[d] \in {"send", "report"}
          /\ pc'[w] = IF Rest(w) = {} THEN "run" ELSE "wait"
          /\ \A x \in Worker \ {d, w} : pc'[x] = pc[x]
      BY <1>4 DEF Deliver, IInv, TypeOK, mainVars
    <2>2. CASE Rest(w) = {}
      <3>1. ASSUME NEW e \in Up[w[1]]
            PROVE  \E x \in Worker : x[1] = e /\ pc[x] \in EndPC
        <4>1. e \in Vertex /\ w[1] \in Vertex
          BY WorkerParts, GraphType
        <4>2. Got(w)' = Up[w[1]]
          BY <2>1, <2>2 DEF Got
        <4>3. <<e, w[1]>> \in closed'
          BY <4>2 DEF IInv, OneReceiver
        <4>4. PICK x \in Worker : x[1] = e /\ pc'[x] \in {"send", "report", "done"}
          BY <4>1, <4>3 DEF IInv, ClosedBySender
        <4> QED BY <2>1, <2>2, <4>4
      <3>2. Run!Start(w[1])
        BY <2>1, <2>2, <3>1, StartsVertex
      <3> QED BY <3>2, WorkerParts DEF Run!RunNext
    <2>3. CASE Rest(w) # {}
      BY <2>1, <2>3, StatusStutter
    <2> QED BY <2>2, <2>3
  <1>5. ASSUME NEW w \in Worker, ReceiveClosed(w)
        PROVE  VertexStatus' = VertexStatus /\ verdict' = verdict
    BY <1>5, StatusStutter DEF ReceiveClosed, IInv, TypeOK, mainVars
  <1>6. ASSUME NEW w \in Worker, NEW success \in BOOLEAN, FunctionReturns(w, success)
        PROVE  Run!RunNext
    <2> DEFINE result == IF success THEN "ok" ELSE "failed"
    <2>1. /\ pc[w] = "run" /\ pc'[w] = "signal" /\ ok'[w] = success
          /\ verdict' = verdict
          /\ \A x \in Worker \ {w} : pc'[x] = pc[x] /\ ok'[x] = ok[x]
      BY <1>6 DEF FunctionReturns, IInv, TypeOK, mainVars
    <2>2. VertexStatus[w[1]] = "running"
      BY <2>1, StatusOf, InvRunOnce
    <2>3. VertexStatus'[w[1]] = result
      BY <2>1, StatusOfNext
    <2>4. ASSUME NEW v \in Vertex, v # w[1] PROVE VertexStatus'[v] = VertexStatus[v]
      BY <2>1, <2>4, StatusSame
    <2>5. VertexStatus' = [VertexStatus EXCEPT ![w[1]] = result]
      BY <2>3, <2>4, WorkerParts, StatusFunction
    <2>6. Run!Return(w[1], result)
      BY <2>1, <2>2, <2>5 DEF Run!Return
    <2> QED BY <2>6, WorkerParts DEF Run!RunNext
  <1>7. ASSUME NEW w \in Worker, BeginSignal(w)
        PROVE  VertexStatus' = VertexStatus /\ verdict' = verdict
    BY <1>7, StatusStutter DEF BeginSignal, IInv, TypeOK, mainVars
  <1>8. ASSUME verdict = "none", verdict' # verdict, VertexStatus' = VertexStatus
        PROVE  Run!RunNext
    <2>1. verdict' \in {"success", "failure"}
      BY <1>8 DEF IInv, TypeOK
    <2>2. ASSUME verdict' = "success", NEW v \in Vertex PROVE VertexStatus[v] = "ok"
      <3>1. PICK x \in Worker : x[1] = v /\ pc'[x] = "done" /\ ok'[x]
        BY <2>2 DEF IInv, SuccessIsTotal
      <3> QED BY <1>8, <3>1, StatusOfNext
    <2>3. Run!Conclude(verdict')
      BY <1>8, <2>2 DEF Run!Conclude
    <2> QED BY <2>1, <2>3 DEF Run!RunNext
  <1>9. ASSUME NEW w \in Worker, Report(w)
        PROVE  VertexStatus' = VertexStatus /\ verdict = "none"
    BY <1>9, StatusStutter DEF Report, IInv, TypeOK, MainHeard
  <1>10. ASSUME MainCanceled
         PROVE  VertexStatus' = VertexStatus /\ verdict = "none"
    BY <1>10, StatusStutter DEF MainCanceled, workerVars, IInv, MainHeard
  <1>11. ASSUME ParentCancels \/ UNCHANGED vars
         PROVE  VertexStatus' = VertexStatus /\ verdict' = verdict
    BY <1>11, StatusStutter DEF ParentCancels, workerVars, vars
  <1> QED
    BY <1>1, <1>2, <1>3, <1>4, <1>5, <1>6, <1>7, <1>8, <1>9, <1>10, <1>11
       DEF Next, WalkerStep, WorkerStep

(* The goroutines, channels, mutexes and cancellations of the executor     *)
(* implement DagRun: functions run at most once, after their dependencies, *)
(* and the caller is told success only when all succeeded.                 *)
THEOREM Implements == Spec => ImplementsDagRun
  <1>1. Init => Run!RunInit
    BY RefineInit
  <1>2. IInv /\ IInv' /\ [Next]_vars => [Run!RunNext]_<<VertexStatus, verdict>>
    BY RefineStep
  <1> QED
    BY <1>1, <1>2, Invariance, PTL
       DEF Spec, ImplementsDagRun, Run!RunSpec, Run!runVars
=============================================================================
