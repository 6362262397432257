----------------------------- MODULE Controller -----------------------------
(***************************************************************************)
(* The controller of pkg/internal/controller/controller.go: Watch, Start,  *)
(* the workers with processNextWorkItem and reconcileHandler, and what it  *)
(* uses of client-go's rate limited work queue (external).                 *)
(*                                                                         *)
(* What Reconcile does is left open here: it takes time and answers with   *)
(* one of the results that reconcileHandler tells apart.  Delays of the    *)
(* queue (the rate limit, AddAfter) end at any time.                       *)
(***************************************************************************)
EXTENDS Naturals, Sequences, SequencesExt

CONSTANTS
    Key,     \* the objects
    Worker,  \* MaxConcurrentReconciles workers
    Caller,  \* the callers of Start
    Kind,    \* sources with EnqueueRequestForObject (For)
    Custom   \* sources with the repository's own event handler (Watch)

ASSUME SourceKinds == Kind \cap Custom = {}

VARIABLES
    mu,          \* the caller of Start that holds the mutex, as a set
    started,
    pc,          \* per caller of Start: idle, watches, sync, run, returned,
                 \* failed or refused
    startWatches,
    accepted,    \* sources for which Watch returned nil
    live,        \* sources that were started with the present queue
    synced,      \* live sources whose cache has synced
    ctxDone,     \* the context given to Start is cancelled
    ready,       \* the queue: keys a worker may get, in order
    dirty,       \* keys that need processing
    processing,  \* keys that a worker has got and not reported done
    delayed,     \* keys to be added after a delay
    shut,        \* ShutDown was called
    worker,      \* per worker: off, idle, reconcile, finish or exit
    item,        \* per worker, the key it has, as a set
    owed,        \* keys with an event that enqueues, or a result that asks for
                 \* another Reconcile, and no Reconcile started since
    missed       \* keys with an event of a custom source, likewise

startVars == <<mu, started, pc>>
watchVars == <<startWatches, accepted, live, synced>>
queueVars == <<ready, dirty, processing, delayed, shut>>
workVars  == <<worker, item>>
keyVars   == <<owed, missed>>
vars == <<startVars, watchVars, ctxDone, queueVars, workVars, keyVars>>

Source == Kind \cup Custom

Init ==
    /\ mu = {} /\ started = FALSE /\ pc = [c \in Caller |-> "idle"]
    /\ startWatches = {} /\ accepted = {} /\ live = {} /\ synced = {}
    /\ ctxDone = FALSE
    /\ ready = <<>> /\ dirty = {} /\ processing = {} /\ delayed = {} /\ shut = FALSE
    /\ worker = [w \in Worker |-> "off"] /\ item = [w \in Worker |-> {}]
    /\ owed = {} /\ missed = {}

-----------------------------------------------------------------------------
(* The work queue: Add.                                                    *)
QueueAdd(k) ==
    LET new == ~shut /\ k \notin dirty
    IN  /\ dirty' = IF new THEN dirty \cup {k} ELSE dirty
        /\ ready' = IF new /\ k \notin processing THEN Append(ready, k) ELSE ready

(* ... and Done.                                                           *)
QueueDone(k) ==
    /\ processing' = processing \ {k}
    /\ ready' = IF k \in dirty THEN Append(ready, k) ELSE ready

(* A delay is over.                                                        *)
DelayOver(k) ==
    /\ k \in delayed
    /\ delayed' = delayed \ {k}
    /\ QueueAdd(k)
    /\ UNCHANGED <<startVars, watchVars, ctxDone, processing, shut, workVars, keyVars>>

-----------------------------------------------------------------------------
\* Mutant: Watch keeps the source for Start, whatever Started says.
WatchStores(s) ==
    /\ mu = {}
    /\ s \notin accepted
    /\ accepted' = accepted \cup {s}
    /\ startWatches' = startWatches \cup {s}
    /\ UNCHANGED <<startVars, live, synced, ctxDone, queueVars, workVars, keyVars>>

(* Watch, under the mutex.                                                 *)
Watch(s) ==
    /\ mu = {}
    /\ s \notin accepted
    /\ accepted' = accepted \cup {s}
    /\ startWatches' = IF started THEN startWatches ELSE startWatches \cup {s}
    /\ live' = IF started THEN live \cup {s} ELSE live
    /\ UNCHANGED <<startVars, synced, ctxDone, queueVars, workVars, keyVars>>

(* Start makes a new queue, which its sources fill from the beginning (a   *)
(* source lists the objects that exist when it starts), unless the         *)
(* controller is started: then Start returns without releasing the mutex.  *)
Start(c) ==
    /\ pc[c] = "idle"
    /\ mu = {}
    /\ mu' = {c}
    /\ IF started
       THEN /\ pc' = [pc EXCEPT ![c] = "refused"]
            /\ UNCHANGED <<live, queueVars, keyVars>>
       ELSE /\ pc' = [pc EXCEPT ![c] = "watches"]
            /\ live' = {}
            /\ ready' = <<>> /\ dirty' = {} /\ processing' = {}
            /\ delayed' = {} /\ shut' = FALSE
            /\ owed' = {} /\ missed' = {}
    /\ UNCHANGED <<started, startWatches, accepted, synced, ctxDone, workVars>>

StartSource(c, s) ==
    /\ pc[c] = "watches"
    /\ s \in startWatches \ live
    /\ live' = live \cup {s}
    /\ UNCHANGED <<startVars, startWatches, accepted, synced, ctxDone, queueVars,
                   workVars, keyVars>>

SourcesStarted(c) ==
    /\ pc[c] = "watches"
    /\ startWatches \subseteq live
    /\ pc' = [pc EXCEPT ![c] = "sync"]
    /\ UNCHANGED <<mu, started, watchVars, ctxDone, queueVars, workVars, keyVars>>

(* A source does not start, or does not sync in CacheSyncTimeout.          *)
StartFails(c) ==
    /\ \/ pc[c] = "watches" /\ startWatches \ live # {}
       \/ pc[c] = "sync" /\ startWatches \ synced # {}
    /\ pc' = [pc EXCEPT ![c] = "failed"]
    /\ mu' = {}
    /\ UNCHANGED <<started, watchVars, ctxDone, queueVars, workVars, keyVars>>

(* Everything is synced: the workers are launched, the mutex is released.  *)
Launch(c) ==
    /\ pc[c] = "sync"
    /\ startWatches \subseteq synced
    /\ startWatches' = {}
    /\ worker' = [w \in Worker |-> "idle"]
    /\ started' = TRUE
    /\ mu' = {}
    /\ pc' = [pc EXCEPT ![c] = "run"]
    /\ UNCHANGED <<accepted, live, synced, ctxDone, queueVars, item, keyVars>>

(* The goroutine that waits for the context shuts the queue down.          *)
ShutDown ==
    /\ ctxDone /\ ~shut
    /\ \E c \in Caller : pc[c] \notin {"idle", "refused"}
    /\ shut' = TRUE
    /\ UNCHANGED <<startVars, watchVars, ctxDone, ready, dirty, processing, delayed,
                   workVars, keyVars>>

(* wg.Wait() is over.                                                      *)
StartReturns(c) ==
    /\ pc[c] = "run"
    /\ ctxDone
    /\ \A w \in Worker : worker[w] = "exit"
    /\ pc' = [pc EXCEPT ![c] = "returned"]
    /\ UNCHANGED <<mu, started, watchVars, ctxDone, queueVars, workVars, keyVars>>

-----------------------------------------------------------------------------
\* Mutant: Done is called before the handler.
GetDone(w) ==
    /\ worker[w] = "idle"
    /\ ready # <<>>
    /\ item' = [item EXCEPT ![w] = {Head(ready)}]
    /\ ready' = Tail(ready)
    /\ dirty' = dirty \ {Head(ready)}
    /\ worker' = [worker EXCEPT ![w] = "reconcile"]
    /\ owed' = owed \ {Head(ready)} /\ missed' = missed \ {Head(ready)}
    /\ UNCHANGED <<startVars, watchVars, ctxDone, processing, delayed, shut>>

(* processNextWorkItem gets a key, and Reconcile starts.                   *)
Get(w) ==
    /\ worker[w] = "idle"
    /\ ready # <<>>
    /\ item' = [item EXCEPT ![w] = {Head(ready)}]
    /\ ready' = Tail(ready)
    /\ processing' = processing \cup {Head(ready)}
    /\ dirty' = dirty \ {Head(ready)}
    /\ worker' = [worker EXCEPT ![w] = "reconcile"]
    /\ owed' = owed \ {Head(ready)} /\ missed' = missed \ {Head(ready)}
    /\ UNCHANGED <<startVars, watchVars, ctxDone, delayed, shut>>

\* Mutant: the worker goes on when the queue is shut down.
WorkerGoesOn(w) ==
    /\ worker[w] = "idle"
    /\ ready = <<>> /\ shut
    /\ UNCHANGED vars

(* The queue is shut down and drained.                                     *)
WorkerExit(w) ==
    /\ worker[w] = "idle"
    /\ ready = <<>> /\ shut
    /\ worker' = [worker EXCEPT ![w] = "exit"]
    /\ UNCHANGED <<startVars, watchVars, ctxDone, queueVars, item, keyVars>>

(* reconcileHandler: an error and Requeue go through the rate limit,       *)
(* RequeueAfter through a delay; any other result forgets the key.         *)
Handle(w, result) ==
    /\ worker[w] = "reconcile"
    /\ IF result = "success"
       THEN UNCHANGED <<delayed, owed>>
       ELSE /\ delayed' = IF shut THEN delayed ELSE delayed \cup item[w]
            /\ owed' = owed \cup item[w]
    /\ worker' = [worker EXCEPT ![w] = "finish"]
    /\ UNCHANGED <<startVars, watchVars, ctxDone, ready, dirty, processing, shut,
                   item, missed>>

\* Mutant: Done is called only when the key was not queued again.
FinishDirty(w) ==
    /\ worker[w] = "finish"
    /\ worker' = [worker EXCEPT ![w] = "idle"]
    /\ processing' = processing \ (item[w] \ dirty)
    /\ item' = [item EXCEPT ![w] = {}]
    /\ UNCHANGED <<startVars, watchVars, ctxDone, ready, dirty, delayed, shut, keyVars>>

(* The deferred Done of processNextWorkItem.                               *)
Finish(w) ==
    /\ worker[w] = "finish"
    /\ \E k \in item[w] : QueueDone(k)
    /\ worker' = [worker EXCEPT ![w] = "idle"]
    /\ item' = [item EXCEPT ![w] = {}]
    /\ UNCHANGED <<startVars, watchVars, ctxDone, dirty, delayed, shut, keyVars>>

-----------------------------------------------------------------------------
(* An event of a live source: EnqueueRequestForObject adds the key; the    *)
(* handler of pkg/controllers/eventhandler runs its pipeline and adds      *)
(* nothing.                                                                *)
Event(s, k) ==
    /\ s \in live
    /\ IF s \in Kind
       THEN QueueAdd(k) /\ owed' = owed \cup {k} /\ UNCHANGED missed
       ELSE missed' = missed \cup {k} /\ UNCHANGED <<dirty, ready, owed>>
    /\ UNCHANGED <<startVars, watchVars, ctxDone, processing, delayed, shut, workVars>>

SourceSyncs(s) ==
    /\ s \in live \ synced
    /\ synced' = synced \cup {s}
    /\ UNCHANGED <<startVars, startWatches, accepted, live, ctxDone, queueVars,
                   workVars, keyVars>>

Cancel ==
    /\ ~ctxDone
    /\ ctxDone' = TRUE
    /\ UNCHANGED <<startVars, watchVars, queueVars, workVars, keyVars>>

StartStep(c) ==
    \/ SourcesStarted(c) \/ \E s \in Source : StartSource(c, s)
    \/ StartFails(c) \/ Launch(c) \/ StartReturns(c)

Result == {"error", "requeue", "after", "success"}

WorkerStep(w) ==
    \/ Get(w) \/ WorkerExit(w) \/ Finish(w) \/ \E result \in Result : Handle(w, result)

Next ==
    \/ \E c \in Caller : Start(c) \/ StartStep(c)
    \/ \E s \in Source : Watch(s) \/ SourceSyncs(s) \/ \E k \in Key : Event(s, k)
    \/ \E w \in Worker : WorkerStep(w)
    \/ \E k \in Key : DelayOver(k)
    \/ Cancel \/ ShutDown

Spec == Init /\ [][Next]_vars

(* Goroutines run, Reconcile returns, delays end.  Nothing makes a source  *)
(* sync, an event happen or the context end.                               *)
FairSpec ==
    /\ Spec
    /\ \A c \in Caller : WF_vars(StartStep(c))
    /\ \A w \in Worker : WF_vars(WorkerStep(w))
    /\ \A k \in Key : WF_vars(DelayOver(k))
    /\ WF_vars(ShutDown)

-----------------------------------------------------------------------------
(* Type correctness, with the queue's own consistency.                     *)
TypeOK ==
    /\ mu \subseteq Caller /\ started \in BOOLEAN
    /\ pc \in [Caller -> {"idle", "watches", "sync", "run", "returned", "failed", "refused"}]
    /\ startWatches \subseteq accepted /\ accepted \subseteq Source
    /\ live \subseteq accepted /\ synced \subseteq accepted
    /\ ctxDone \in BOOLEAN /\ shut \in BOOLEAN
    /\ dirty \subseteq Key /\ processing \subseteq Key /\ delayed \subseteq Key
    /\ ready \in Seq(Key) /\ IsInjective(ready) /\ ToSet(ready) = dirty \ processing
    /\ worker \in [Worker -> {"off", "idle", "reconcile", "finish", "exit"}]
    /\ item \in [Worker -> SUBSET Key]
    /\ owed \subseteq Key /\ missed \subseteq Key

(* controller.go:233: the handler is never invoked concurrently with the   *)
(* same object, whatever events, retries and delays add it again.          *)
NeverConcurrent ==
    \A v, w \in Worker : v # w => item[v] \cap item[w] = {}

(* A source that Watch accepted before, during or after Start is started   *)
(* when the controller runs.                                               *)
AcceptedIsLive == started => accepted \subseteq live

(* Every event, failure and request for another turn is followed by a      *)
(* Reconcile that starts after it, also when it comes while the key is     *)
(* being reconciled or waits for a delay.                                  *)
OwedIsReconciled ==
    \A k \in Key : (started /\ k \in owed) ~> (k \notin owed \/ ctxDone)

(* A cancelled controller's Start waits for its workers and returns.       *)
ShutdownEnds == \A c \in Caller : (pc[c] = "run" /\ ctxDone) ~> (pc[c] = "returned")

-----------------------------------------------------------------------------
(* controller.go:156: lock handling is proper: when Start has returned the *)
(* mutex is not held.                                                      *)
MutexReleased ==
    \A c \in Caller : pc[c] \in {"refused", "failed", "returned"} => c \notin mu

(* eventhandler.go:72: the handler enqueues a request.                     *)
WatchedIsReconciled ==
    \A k \in Key : (started /\ k \in missed) ~> (k \notin missed \/ ctxDone)
=============================================================================
