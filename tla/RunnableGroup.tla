--------------------------- MODULE RunnableGroup ---------------------------
(***************************************************************************)
(* One runnableGroup of pkg/manager/runnable_group.go: callers of Add, one *)
(* per runnable; Start, called by the manager or by StopAndWait; the       *)
(* goroutine of reconcile, which takes runnables off the channel ch; one   *)
(* goroutine and one ready check per started runnable; StopAndWait.        *)
(*                                                                         *)
(* ch, startReadyCh and errChan are unbuffered: a send and its receive are *)
(* one step.  errChan is read by the manager, at any time.  The ctx.Done() *)
(* branch of Start's loop leaves the loop waiting and is a stuttering step.*)
(* A panic ends the process; the model goes on without the caller of Add.  *)
(***************************************************************************)
CONSTANTS Runnable   \* the runnables that somebody adds

VARIABLES
    add,      \* per runnable, its call of Add: idle, checked, send, ok,
              \* rejected or panic
    body,     \* startOnce's function: idle, queue, ready or done
    queue,    \* startQueue
    toSend,   \* what Start still has to put on ch, holding start's mutex
    signal,   \* runnables whose signalReady is set
    loop,     \* reconcile: none, recv, got, drop or exit
    item,     \* the runnable that reconcile holds, as a set
    run,      \* per runnable, its goroutine: none, running, failed or ended
    chk,      \* per runnable, its check: none, checking, signal or over
    stop,     \* StopAndWait: idle, start, wait or returned
    stopped,  \* the flag of that name; the group's context is cancelled too
    closed,   \* close(ch) was called
    expired   \* the context given to StopAndWait has expired

vars == <<add, body, queue, toSend, signal, loop, item, run, chk, stop,
          stopped, closed, expired>>

startVars == <<body, queue, toSend, signal>>
loopVars  == <<loop, item>>
stopVars  == <<stop, stopped, closed, expired>>

(* newRunnableGroup.                                                       *)
Init ==
    /\ add = [r \in Runnable |-> "idle"]
    /\ body = "idle" /\ queue = {} /\ toSend = {} /\ signal = {}
    /\ loop = "none" /\ item = {}
    /\ run = [r \in Runnable |-> "none"]
    /\ chk = [r \in Runnable |-> "none"]
    /\ stop = "idle"
    /\ stopped = FALSE /\ closed = FALSE /\ expired = FALSE

\* started is set by the function of startOnce and never reset.
Started == body # "idle"

\* The counter of the WaitGroup is not zero.
Pending == {r \in Runnable : run[r] \in {"running", "failed"}}

-----------------------------------------------------------------------------
(* Add: the test of stopped, under the read lock of stop.                  *)
AddCheck(r) ==
    /\ add[r] = "idle"
    /\ add' = [add EXCEPT ![r] = IF stopped THEN "rejected" ELSE "checked"]
    /\ UNCHANGED <<startVars, loopVars, run, chk, stopVars>>

\* Mutant: the test of started is left out, every runnable is queued.
AddEnqueueAlways(r) ==
    /\ add[r] = "checked"
    /\ body # "queue"
    /\ add' = [add EXCEPT ![r] = "ok"]
    /\ queue' = queue \cup {r}
    /\ UNCHANGED <<body, toSend, signal, loopVars, run, chk, stopVars>>

(* Add: under start's mutex, which Start holds while it sends its queue.   *)
(* Before Start the runnable is queued and Add returns; after it, Add goes *)
(* on to send on ch, which panics when ch is closed.                       *)
AddEnqueue(r) ==
    /\ add[r] = "checked"
    /\ body # "queue"
    /\ add' = [add EXCEPT ![r] = IF ~Started THEN "ok"
                                 ELSE IF closed THEN "panic" ELSE "send"]
    /\ queue' = IF Started THEN queue ELSE queue \cup {r}
    /\ UNCHANGED <<body, toSend, signal, loopVars, run, chk, stopVars>>

(* Add: the send on ch meets reconcile's receive.                          *)
AddSend(r) ==
    /\ add[r] = "send"
    /\ loop = "recv"
    /\ loop' = "got" /\ item' = {r}
    /\ add' = [add EXCEPT ![r] = "ok"]
    /\ UNCHANGED <<startVars, run, chk, stopVars>>

-----------------------------------------------------------------------------
(* Start's first call: reconcile is started, start's mutex is taken and    *)
(* started is set.                                                         *)
BeginStart ==
    /\ body = "idle"
    /\ body' = "queue"
    /\ toSend' = queue /\ signal' = queue
    /\ loop' = "recv"
    /\ UNCHANGED <<add, queue, item, run, chk, stopVars>>

QueueSend(r) ==
    /\ body = "queue"
    /\ r \in toSend
    /\ loop = "recv"
    /\ loop' = "got" /\ item' = {r}
    /\ toSend' = toSend \ {r}
    /\ UNCHANGED <<add, body, queue, signal, run, chk, stopVars>>

\* Mutant: Start waits for a signal although nothing was queued.
EndQueueWaits ==
    /\ body = "queue"
    /\ toSend = {}
    /\ body' = "ready"
    /\ UNCHANGED <<add, queue, toSend, signal, loopVars, run, chk, stopVars>>

(* Start releases the mutex; with an empty queue it returns and closes     *)
(* startReadyCh, otherwise it waits for the runnables to signal.           *)
EndQueue ==
    /\ body = "queue"
    /\ toSend = {}
    /\ body' = IF queue = {} THEN "done" ELSE "ready"
    /\ UNCHANGED <<add, queue, toSend, signal, loopVars, run, chk, stopVars>>

(* Start receives a signal on startReadyCh and returns after the last one. *)
SignalReady(r) ==
    /\ body = "ready"
    /\ chk[r] = "signal"
    /\ chk' = [chk EXCEPT ![r] = "over"]
    /\ queue' = queue \ {r}
    /\ body' = IF queue' = {} THEN "done" ELSE "ready"
    /\ UNCHANGED <<add, toSend, signal, loopVars, run, stopVars>>

-----------------------------------------------------------------------------
\* Mutant: the test of stopped is left out.
LoopStartsAlways ==
    /\ loop = "got"
    /\ loop' = "recv" /\ item' = {}
    /\ run' = [r \in Runnable |-> IF r \in item THEN "running" ELSE run[r]]
    /\ chk' = [r \in Runnable |-> IF r \in item THEN "checking" ELSE chk[r]]
    /\ UNCHANGED <<add, startVars, stopVars>>

(* reconcile, under the read lock of stop: the runnable is counted in the  *)
(* WaitGroup and started with its check, or dropped when the group is      *)
(* stopped (the read lock is held while the error is sent).                *)
LoopHandle ==
    /\ loop = "got"
    /\ IF stopped
       THEN loop' = "drop" /\ UNCHANGED <<run, chk>>
       ELSE /\ loop' = "recv"
            /\ run' = [r \in Runnable |-> IF r \in item THEN "running" ELSE run[r]]
            /\ chk' = [r \in Runnable |-> IF r \in item THEN "checking" ELSE chk[r]]
    /\ item' = {}
    /\ UNCHANGED <<add, startVars, stopVars>>

(* The manager receives errRunnableGroupStopped.                           *)
LoopDropped ==
    /\ loop = "drop"
    /\ loop' = "recv"
    /\ UNCHANGED <<add, startVars, item, run, chk, stopVars>>

LoopExit ==
    /\ loop = "recv"
    /\ closed
    /\ loop' = "exit"
    /\ UNCHANGED <<add, startVars, item, run, chk, stopVars>>

-----------------------------------------------------------------------------
(* A runnable's Start returns: by itself, or because the group's context   *)
(* is cancelled; with an error that goes to errChan, or without.           *)
RunReturns(r, result) ==
    /\ run[r] = "running"
    /\ run' = [run EXCEPT ![r] = result]
    /\ UNCHANGED <<add, startVars, loopVars, chk, stopVars>>

(* The manager receives the error, wg.Done() follows.                      *)
ErrorTaken(r) ==
    /\ run[r] = "failed"
    /\ run' = [run EXCEPT ![r] = "ended"]
    /\ UNCHANGED <<add, startVars, loopVars, chk, stopVars>>

\* Mutant: every runnable signals, also those added after Start.
CheckPassesSignals(r) ==
    /\ chk[r] = "checking"
    /\ chk' = [chk EXCEPT ![r] = "signal"]
    /\ UNCHANGED <<add, startVars, loopVars, run, stopVars>>

(* The runnable's check answers true, and signals if Start waits for it.   *)
CheckPasses(r) ==
    /\ chk[r] = "checking"
    /\ chk' = [chk EXCEPT ![r] = IF r \in signal THEN "signal" ELSE "over"]
    /\ UNCHANGED <<add, startVars, loopVars, run, stopVars>>

(* It answers false: WaitForCacheSync gives up with the group's context.   *)
CheckFails(r) ==
    /\ chk[r] = "checking"
    /\ stopped
    /\ chk' = [chk EXCEPT ![r] = "over"]
    /\ UNCHANGED <<add, startVars, loopVars, run, stopVars>>

-----------------------------------------------------------------------------
(* StopAndWait is called; it calls Start (BeginStart, if nobody has) and   *)
(* waits for startOnce.                                                    *)
StopCall ==
    /\ stop = "idle"
    /\ stop' = "start"
    /\ UNCHANGED <<add, startVars, loopVars, run, chk, stopped, closed, expired>>

(* StopAndWait sets stopped under the write lock and cancels the group's   *)
(* context.                                                                *)
StopMark ==
    /\ stop = "start"
    /\ body = "done"
    /\ stop' = "wait" /\ stopped' = TRUE
    /\ UNCHANGED <<add, startVars, loopVars, run, chk, closed, expired>>

\* Mutant: StopAndWait does not wait for the WaitGroup.
StopReturnAtOnce ==
    /\ stop = "wait"
    /\ stop' = "returned" /\ closed' = TRUE
    /\ UNCHANGED <<add, startVars, loopVars, run, chk, stopped, expired>>

(* wg.Wait() is over or the context has expired: StopAndWait returns and   *)
(* closes ch.  A sender blocked on a channel that is closed panics.        *)
StopReturn ==
    /\ stop = "wait"
    /\ Pending = {} \/ expired
    /\ stop' = "returned" /\ closed' = TRUE
    /\ add' = [r \in Runnable |-> IF add[r] = "send" THEN "panic" ELSE add[r]]
    /\ UNCHANGED <<startVars, loopVars, run, chk, stopped, expired>>

(* gracefulShutdownTimeout.                                                *)
Expire ==
    /\ stop # "idle" /\ ~expired
    /\ expired' = TRUE
    /\ UNCHANGED <<add, startVars, loopVars, run, chk, stop, stopped, closed>>

-----------------------------------------------------------------------------
AddStep(r) == AddCheck(r) \/ AddEnqueue(r) \/ AddSend(r)

StartStep == BeginStart \/ EndQueue \/ \E r \in Runnable : QueueSend(r) \/ SignalReady(r)

LoopStep == LoopHandle \/ LoopDropped \/ LoopExit

RunStep(r) == (\E result \in {"ended", "failed"} : RunReturns(r, result)) \/ ErrorTaken(r)

StopStep == StopMark \/ StopReturn

Next ==
    \/ \E r \in Runnable : AddStep(r) \/ RunStep(r) \/ CheckPasses(r) \/ CheckFails(r)
    \/ StartStep \/ LoopStep
    \/ StopCall \/ StopStep \/ Expire

Spec == Init /\ [][Next]_vars

(* Goroutines run, the manager starts the group and reads errChan; a       *)
(* cancelled runnable returns.  Nobody has to add, to stop, or to expire.  *)
Fairness ==
    /\ \A r \in Runnable :
          /\ WF_vars(AddEnqueue(r) \/ AddSend(r)) /\ WF_vars(ErrorTaken(r))
          /\ WF_vars(stopped /\ RunStep(r))
    /\ WF_vars(StartStep) /\ WF_vars(LoopStep) /\ WF_vars(StopStep)

FairSpec == Spec /\ Fairness /\ \A r \in Runnable : WF_vars(CheckPasses(r))

(* ... when a cache that does not sync keeps its check from answering.     *)
SpecNoSync == Spec /\ Fairness

-----------------------------------------------------------------------------
(* Type correctness.                                                       *)
TypeOK ==
    /\ add \in [Runnable -> {"idle", "checked", "send", "ok", "rejected", "panic"}]
    /\ body \in {"idle", "queue", "ready", "done"}
    /\ queue \subseteq Runnable /\ toSend \subseteq queue /\ signal \subseteq Runnable
    /\ loop \in {"none", "recv", "got", "drop", "exit"}
    /\ item \subseteq Runnable
    /\ run \in [Runnable -> {"none", "running", "failed", "ended"}]
    /\ chk \in [Runnable -> {"none", "checking", "signal", "over"}]
    /\ stop \in {"idle", "start", "wait", "returned"}
    /\ stopped \in BOOLEAN /\ closed \in BOOLEAN /\ expired \in BOOLEAN

(* runnable_group.go:184-187: no runnable is added to the WaitGroup once   *)
(* StopAndWait waits for it (WaitGroup.Wait would panic).                  *)
NoAddAfterWait ==
    [][stopped =>
         \A r \in Runnable : run[r] = "none" => run'[r] = "none"]_vars

(* When StopAndWait returns in time all runnables have ended, whatever was *)
(* being added while it waited.                                            *)
StoppedIsQuiet ==
    stop = "returned" => Pending = {} \/ expired

(* No check sends on startReadyCh after Start has closed it.               *)
SignalBeforeClose ==
    \A r \in Runnable : chk[r] = "signal" => body # "done"

(* A runnable that Add accepted is started unless the group is stopped.    *)
AcceptedIsStarted ==
    \A r \in Runnable : (add[r] = "ok") ~> (run[r] # "none" \/ stopped)

(* StopAndWait returns, also when it runs into Start or Add.               *)
StopEnds == (stop = "start") ~> (stop = "returned")

-----------------------------------------------------------------------------
(* runnable_group.go:231: Add returns an error when it is called during    *)
(* StopAndWait; it does not panic.                                         *)
AddNeverPanics == \A r \in Runnable : add[r] # "panic"

(* runnable_group.go:271: StopAndWait waits for the runnables to finish    *)
(* before it returns; the context it is given bounds the wait.             *)
ExpiryEndsStop == (stop = "start" /\ expired) ~> (stop = "returned")
=============================================================================
