------------------------ MODULE RunnableGroupProofs ------------------------
(***************************************************************************)
(* For any number of runnables: what StopAndWait and Start promise of the  *)
(* WaitGroup and of startReadyCh, whoever adds, starts and stops at the    *)
(* same time.                                                              *)
(***************************************************************************)
EXTENDS RunnableGroup, TLAPS

\* StopAndWait sets stopped before it waits.
StopFlag == stopped <=> stop \in {"wait", "returned"}

\* Before Start nothing is on its way.
NotStarted ==
    body = "idle" =>
        /\ toSend = {} /\ signal = {} /\ item = {} /\ loop = "none"
        /\ \A r \in Runnable : chk[r] = "none"

\* A runnable is in one place: with Add, in the queue that Start sends, with
\* reconcile, or started.
OnePlace ==
    \A r \in Runnable :
        /\ add[r] \in {"idle", "checked", "send"} => r \notin queue /\ r \notin item /\ chk[r] = "none"
        /\ r \in toSend => r \notin item /\ chk[r] = "none"
        /\ r \in item => chk[r] = "none"

\* Start waits for every runnable that has still to signal.
Awaited ==
    /\ body = "done" => queue = {}
    /\ \A r \in Runnable :
          /\ r \in signal /\ chk[r] # "over" => r \in queue
          /\ chk[r] = "signal" => r \in signal

IInv == TypeOK /\ StopFlag /\ NotStarted /\ OnePlace /\ Awaited /\ StoppedIsQuiet

LEMMA InitIInv == Init => IInv
BY DEF Init, IInv, TypeOK, StopFlag, NotStarted, OnePlace, Awaited, StoppedIsQuiet

LEMMA StepIInv == IInv /\ [Next]_vars => IInv'
<1> SUFFICES ASSUME IInv, [Next]_vars PROVE IInv'
  OBVIOUS
<1> USE DEF IInv, TypeOK, StopFlag, NotStarted, OnePlace, Awaited, StoppedIsQuiet,
            Pending, Started, startVars, loopVars, stopVars
<1>1. ASSUME NEW r \in Runnable, AddCheck(r) PROVE IInv'
  BY <1>1 DEF AddCheck
<1>2. ASSUME NEW r \in Runnable, AddEnqueue(r) PROVE IInv'
  <2>1. CASE body = "idle"
    <3>1. /\ add' = [add EXCEPT ![r] = "ok"] /\ queue' = queue \cup {r}
          /\ UNCHANGED <<body, toSend, signal, loop, item, run, chk, stop, stopped, closed, expired>>
      BY <1>2, <2>1 DEF AddEnqueue
    <3> QED
      BY <2>1, <3>1
  <2>2. CASE body # "idle"
    <3>1. \E x \in {"panic", "send"} : add' = [add EXCEPT ![r] = x]
      BY <1>2, <2>2 DEF AddEnqueue
    <3>2. UNCHANGED <<queue, body, toSend, signal, loop, item, run, chk, stop, stopped, closed, expired>>
      BY <1>2, <2>2 DEF AddEnqueue
    <3>3. add[r] = "checked"
      BY <1>2 DEF AddEnqueue
    <3> QED
      BY <2>2, <3>1, <3>2, <3>3
  <2> QED
    BY <2>1, <2>2
<1>3. ASSUME NEW r \in Runnable, AddSend(r) PROVE IInv'
  BY <1>3 DEF AddSend
<1>4. CASE BeginStart
  BY <1>4 DEF BeginStart
<1>5. ASSUME NEW r \in Runnable, QueueSend(r) PROVE IInv'
  BY <1>5 DEF QueueSend
<1>6. CASE EndQueue
  BY <1>6 DEF EndQueue
<1>7. ASSUME NEW r \in Runnable, SignalReady(r) PROVE IInv'
  BY <1>7 DEF SignalReady
<1>8. CASE LoopHandle
  BY <1>8 DEF LoopHandle
<1>9. CASE LoopDropped
  BY <1>9 DEF LoopDropped
<1>10. CASE LoopExit
  BY <1>10 DEF LoopExit
<1>11. ASSUME NEW r \in Runnable, NEW result \in {"ended", "failed"}, RunReturns(r, result) PROVE IInv'
  BY <1>11 DEF RunReturns
<1>12. ASSUME NEW r \in Runnable, ErrorTaken(r) PROVE IInv'
  BY <1>12 DEF ErrorTaken
<1>13. ASSUME NEW r \in Runnable, CheckPasses(r) PROVE IInv'
  BY <1>13 DEF CheckPasses
<1>14. ASSUME NEW r \in Runnable, CheckFails(r) PROVE IInv'
  BY <1>14 DEF CheckFails
<1>15. CASE StopCall
  BY <1>15 DEF StopCall
<1>16. CASE StopMark
  BY <1>16 DEF StopMark
<1>17. CASE StopReturn
  BY <1>17 DEF StopReturn
<1>18. CASE Expire
  BY <1>18 DEF Expire
<1>19. CASE UNCHANGED vars
  BY <1>19 DEF vars
<1> QED
  BY <1>1, <1>2, <1>3, <1>4, <1>5, <1>6, <1>7, <1>8, <1>9, <1>10, <1>11, <1>12, <1>13,
     <1>14, <1>15, <1>16, <1>17, <1>18, <1>19
  DEF Next, AddStep, StartStep, LoopStep, RunStep, StopStep

(* The inductive invariant: a runnable is in one place, and Start waits    *)
(* for all that will signal.                                               *)
THEOREM Invariance == Spec => []IInv
<1>1. Init => IInv
  BY InitIInv
<1>2. IInv /\ [Next]_vars => IInv'
  BY StepIInv
<1> QED
  BY <1>1, <1>2, PTL DEF Spec

(* StopAndWait returns in time only when no runnable is running.           *)
THEOREM QuietWhenStopped == Spec => []StoppedIsQuiet
<1>1. IInv => StoppedIsQuiet
  BY DEF IInv
<1> QED
  BY <1>1, Invariance, PTL

(* No check of reconcile sends on the startReadyCh that Start has closed.  *)
THEOREM NoSignalAfterClose == Spec => []SignalBeforeClose
<1>1. IInv => SignalBeforeClose
  BY DEF IInv, Awaited, SignalBeforeClose
<1> QED
  BY <1>1, Invariance, PTL

(* The WaitGroup does not grow once StopAndWait waits for it.              *)
THEOREM NothingAddedAfterWait == Spec => NoAddAfterWait
<1> DEFINE A == stopped => \A r \in Runnable : run[r] = "none" => run'[r] = "none"
<1>1. IInv /\ [Next]_vars => [A]_vars
  <2> SUFFICES ASSUME IInv, Next, stopped, NEW s \in Runnable, run[s] = "none"
               PROVE  run'[s] = "none"
    OBVIOUS
  <2> USE DEF IInv, TypeOK
  <2>1. CASE LoopStep
    BY <2>1 DEF LoopStep, LoopHandle, LoopDropped, LoopExit
  <2>2. ASSUME NEW r \in Runnable, RunStep(r) PROVE run'[s] = "none"
    BY <2>2 DEF RunStep, RunReturns, ErrorTaken
  <2>3. CASE UNCHANGED run
    BY <2>3
  <2> QED
    BY <2>1, <2>2, <2>3 DEF Next, AddStep, AddCheck, AddEnqueue, AddSend, StartStep,
       BeginStart, EndQueue, QueueSend, SignalReady, CheckPasses, CheckFails, StopCall,
       StopStep, StopMark, StopReturn, Expire
<1> QED
  BY <1>1, Invariance, PTL DEF Spec, NoAddAfterWait
=============================================================================
