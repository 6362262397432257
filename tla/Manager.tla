------------------------------ MODULE Manager ------------------------------
(***************************************************************************)
(* controllerManager of pkg/manager/internal.go: Start, the goroutine that *)
(* starts the leader election runnables, engageStopProcedure with its two  *)
(* goroutines, Add and the health checks.                                  *)
(*                                                                         *)
(* A runnable group is taken at what RunnableGroup shows of it: Start lets *)
(* the queued runnables run and waits for their checks, StopAndWait starts *)
(* the group if nobody has, cancels its runnables and waits for them.  The *)
(* only check that can take time is the one of the cluster, which waits    *)
(* for the cache to sync.  A group's context does not descend from the     *)
(* context of Start: nothing but StopAndWait cancels a runnable.           *)
(*                                                                         *)
(* The caller's context is cancelled, it has no deadline (main.go uses the *)
(* signal handler's).  Each call of Start adds the cluster, so a caller    *)
(* also stands for the cluster runnable that its call adds.                *)
(***************************************************************************)
EXTENDS Integers, Sequences

CONSTANTS
    Caller,      \* the callers of Start
    Reconciler,  \* runnables that need leader election: the controllers
    Other,       \* runnables that do not
    Probe,       \* the health endpoints: healthz, readyz
    Timeout      \* gracefulShutdownTimeout

ASSUME Kinds == Caller \cap Reconciler = {} /\ Caller \cap Other = {}
                /\ Reconciler \cap Other = {} /\ Timeout \in Int

VARIABLES
    pc,        \* per caller: idle, add, caches, others, serve, stop,
               \* stopping or returned
    res,       \* per caller, what Start returns: nil, error or grace
    canceled,  \* the callers whose context is cancelled
    mutex,     \* the caller that holds cm.Mutex, as a set
    le,        \* per caller, the goroutine that Start spawns: none, start, done
    elected,   \* the channel of that name: open, closed, panic
    phase,     \* per group: new, starting, started, stopping or stopped
    run,       \* per runnable: none, queued, running, failed, ended, rejected
    synced,    \* the cache has synced
    engaged,   \* stopProcedureEngaged, as the set of the caller that set it
    stopper,   \* how many groups the stop procedure has stopped
    shutdown,  \* shutdownCtx: none, live, canceled or expired
    handler,   \* the probes that have a handler
    served     \* the probes that are served

startVars  == <<pc, res, canceled, mutex>>
leVars     == <<le, elected>>
groupVars  == <<phase, run, synced>>
stopVars   == <<engaged, stopper, shutdown>>
healthVars == <<handler, served>>
vars == <<startVars, leVars, groupVars, stopVars, healthVars>>

Group    == {"Caches", "Others", "LeaderElection"}
Runnable == Caller \cup Reconciler \cup Other

(* The order in which the stop procedure stops the groups.                 *)
StopSequence == <<"Others", "LeaderElection", "Caches">>

(* The type switch of runnables.Add.                                       *)
GroupOf(r) == IF r \in Caller THEN "Caches"
              ELSE IF r \in Other THEN "Others" ELSE "LeaderElection"

Members(g) == {r \in Runnable : GroupOf(r) = g}

\* Runnables that the WaitGroup of g counts.
Pending(g) == {r \in Members(g) : run[r] \in {"running", "failed"}}

Init ==
    /\ pc = [c \in Caller |-> "idle"]
    /\ res = [c \in Caller |-> "nil"]
    /\ canceled = {} /\ mutex = {}
    /\ le = [c \in Caller |-> "none"] /\ elected = "open"
    /\ phase = [g \in Group |-> "new"]
    /\ run = [r \in Runnable |-> "none"]
    /\ synced = FALSE
    /\ engaged = {} /\ stopper = 0 /\ shutdown = "none"
    /\ handler = {} /\ served = {}

-----------------------------------------------------------------------------
(* The promise of a runnable group.                                        *)

(* Add, to a group that may be new, started or stopped.                    *)
Added(r) == IF phase[GroupOf(r)] = "new" THEN "queued"
            ELSE IF phase[GroupOf(r)] \in {"starting", "started"} THEN "running"
            ELSE "rejected"

(* Start's first call: everything queued runs; with an empty queue Start   *)
(* does not wait.                                                          *)
BeginStart(g) ==
    LET queue == {r \in Members(g) : run[r] = "queued"}
    IN  /\ phase[g] = "new"
        /\ phase' = [phase EXCEPT ![g] = IF queue = {} THEN "started" ELSE "starting"]
        /\ run' = [r \in Runnable |-> IF r \in queue THEN "running" ELSE run[r]]
        /\ UNCHANGED synced

\* Mutant: Start does not wait for the checks.
FinishStartAtOnce(g) ==
    /\ phase[g] = "starting"
    /\ phase' = [phase EXCEPT ![g] = "started"]
    /\ UNCHANGED <<startVars, leVars, run, synced, stopVars, healthVars>>

(* The checks have answered.                                               *)
FinishStart(g) ==
    /\ phase[g] = "starting"
    /\ g = "Caches" => synced
    /\ phase' = [phase EXCEPT ![g] = "started"]
    /\ UNCHANGED <<startVars, leVars, run, synced, stopVars, healthVars>>

\* Start has returned, whoever called it first.
HasStarted(g) == phase[g] \notin {"new", "starting"}

(* The cache syncs while the cluster runs.                                 *)
Sync ==
    /\ ~synced
    /\ \E c \in Caller : run[c] = "running"
    /\ synced' = TRUE
    /\ UNCHANGED <<startVars, leVars, phase, run, stopVars, healthVars>>

(* A runnable's Start returns.                                             *)
RunReturns(r, result) ==
    /\ run[r] = "running"
    /\ run' = [run EXCEPT ![r] = result]
    /\ UNCHANGED <<startVars, leVars, phase, synced, stopVars, healthVars>>

-----------------------------------------------------------------------------
(* Add, under the manager's mutex.                                         *)
Add(r) ==
    /\ mutex = {}
    /\ run[r] = "none"
    /\ run' = [run EXCEPT ![r] = Added(r)]
    /\ UNCHANGED <<startVars, leVars, phase, synced, stopVars, healthVars>>

(* AddHealthzCheck and AddReadyzCheck.  started is never set: the check is *)
(* accepted at any time.                                                   *)
AddCheck(p) ==
    /\ mutex = {}
    /\ handler' = handler \cup {p}
    /\ UNCHANGED <<startVars, leVars, groupVars, stopVars, served>>

-----------------------------------------------------------------------------
(* Start: started is never set, so every call gets past the test.          *)
Start(c) ==
    /\ pc[c] = "idle"
    /\ mutex = {}
    /\ mutex' = {c}
    /\ pc' = [pc EXCEPT ![c] = "add"]
    /\ UNCHANGED <<res, canceled, leVars, groupVars, stopVars, healthVars>>

(* The cluster is added to its group and the health probes are served.     *)
AddCluster(c) ==
    /\ pc[c] = "add"
    /\ Added(c) # "rejected"
    /\ run' = [run EXCEPT ![c] = Added(c)]
    /\ served' = handler
    /\ pc' = [pc EXCEPT ![c] = "caches"]
    /\ UNCHANGED <<res, canceled, mutex, leVars, phase, synced, stopVars, handler>>

(* SetFields fails or the group is stopped: Start returns the error.       *)
AddClusterFails(c) ==
    /\ pc[c] = "add"
    /\ res' = [res EXCEPT ![c] = "error"]
    /\ pc' = [pc EXCEPT ![c] = "stop"]
    /\ UNCHANGED <<canceled, mutex, leVars, groupVars, stopVars, healthVars>>

StartGroup(c, g) ==
    /\ \/ pc[c] = "caches" /\ g = "Caches"
       \/ pc[c] = "others" /\ g = "Others"
    /\ BeginStart(g)
    /\ UNCHANGED <<startVars, leVars, stopVars, healthVars>>

CachesStarted(c) ==
    /\ pc[c] = "caches"
    /\ HasStarted("Caches")
    /\ pc' = [pc EXCEPT ![c] = "others"]
    /\ UNCHANGED <<res, canceled, mutex, leVars, groupVars, stopVars, healthVars>>

(* The leader election goroutine is spawned and the mutex released.        *)
OthersStarted(c) ==
    /\ pc[c] = "others"
    /\ HasStarted("Others")
    /\ le' = [le EXCEPT ![c] = "start"]
    /\ mutex' = {}
    /\ pc' = [pc EXCEPT ![c] = "serve"]
    /\ UNCHANGED <<res, canceled, elected, groupVars, stopVars, healthVars>>

StopOnCancel(c) ==
    /\ pc[c] = "serve"
    /\ c \in canceled
    /\ pc' = [pc EXCEPT ![c] = "stop"]
    /\ UNCHANGED <<res, canceled, mutex, leVars, groupVars, stopVars, healthVars>>

(* Start receives from errChan.                                            *)
StopOnError(c, r) ==
    /\ pc[c] = "serve"
    /\ run[r] = "failed"
    /\ run' = [run EXCEPT ![r] = "ended"]
    /\ res' = [res EXCEPT ![c] = "error"]
    /\ pc' = [pc EXCEPT ![c] = "stop"]
    /\ UNCHANGED <<canceled, mutex, leVars, phase, synced, stopVars, healthVars>>

(* startLeaderElectionRunnables, in the goroutine.                         *)
StartLeaderElection(c) ==
    /\ le[c] = "start"
    /\ BeginStart("LeaderElection")
    /\ UNCHANGED <<startVars, leVars, stopVars, healthVars>>

(* close(cm.elected), which panics the second time.                        *)
Elected(c) ==
    /\ le[c] = "start"
    /\ HasStarted("LeaderElection")
    /\ le' = [le EXCEPT ![c] = "done"]
    /\ elected' = IF elected = "open" THEN "closed" ELSE "panic"
    /\ UNCHANGED <<startVars, groupVars, stopVars, healthVars>>

-----------------------------------------------------------------------------
(* engageStopProcedure.  context.WithTimeout is done at once when the      *)
(* timeout is not positive.                                                *)
Engage(c) ==
    /\ pc[c] = "stop"
    /\ engaged = {}
    /\ engaged' = {c}
    /\ shutdown' = IF Timeout > 0 THEN "live" ELSE "expired"
    /\ pc' = [pc EXCEPT ![c] = "stopping"]
    /\ UNCHANGED <<res, canceled, mutex, leVars, groupVars, stopper, healthVars>>

(* The stop procedure is already engaged: Start returns an error.          *)
EngageAgain(c) ==
    /\ pc[c] = "stop"
    /\ engaged # {}
    /\ res' = [res EXCEPT ![c] = "error"]
    /\ mutex' = mutex \ {c}
    /\ pc' = [pc EXCEPT ![c] = "returned"]
    /\ UNCHANGED <<canceled, leVars, groupVars, stopVars, healthVars>>

(* The goroutine that drains errChan until Start returns.                  *)
Drain(r) ==
    /\ \E c \in engaged : pc[c] = "stopping"
    /\ run[r] = "failed"
    /\ run' = [run EXCEPT ![r] = "ended"]
    /\ UNCHANGED <<startVars, leVars, phase, synced, stopVars, healthVars>>

\* The goroutine that stops the groups is at group g.
Stopping(g) == engaged # {} /\ stopper < Len(StopSequence) /\ g = StopSequence[stopper + 1]

(* StopAndWait calls Start.                                                *)
StopStarts(g) ==
    /\ Stopping(g)
    /\ BeginStart(g)
    /\ UNCHANGED <<startVars, leVars, stopVars, healthVars>>

(* StopAndWait cancels the group's context.                                *)
StopCancels(g) ==
    /\ Stopping(g)
    /\ phase[g] = "started"
    /\ phase' = [phase EXCEPT ![g] = "stopping"]
    /\ UNCHANGED <<startVars, leVars, run, synced, stopVars, healthVars>>

\* Mutant: the last group is not waited for.
StopEndsEarly(g) ==
    /\ Stopping(g)
    /\ phase[g] = "stopping"
    /\ g = "Caches" \/ Pending(g) = {} \/ shutdown = "expired"
    /\ phase' = [phase EXCEPT ![g] = "stopped"]
    /\ stopper' = stopper + 1
    /\ shutdown' = IF stopper' = Len(StopSequence) /\ shutdown = "live"
                   THEN "canceled" ELSE shutdown
    /\ UNCHANGED <<startVars, leVars, run, synced, engaged, healthVars>>

(* StopAndWait returns; after the last group shutdownCancel is called.     *)
StopEnds(g) ==
    /\ Stopping(g)
    /\ phase[g] = "stopping"
    /\ Pending(g) = {} \/ shutdown = "expired"
    /\ phase' = [phase EXCEPT ![g] = "stopped"]
    /\ stopper' = stopper + 1
    /\ shutdown' = IF stopper' = Len(StopSequence) /\ shutdown = "live"
                   THEN "canceled" ELSE shutdown
    /\ UNCHANGED <<startVars, leVars, run, synced, engaged, healthVars>>

\* Mutant: the end of the grace period is not looked at.
StartReturnsCanceled(c) ==
    /\ pc[c] = "stopping"
    /\ shutdown = "canceled"
    /\ mutex' = mutex \ {c}
    /\ pc' = [pc EXCEPT ![c] = "returned"]
    /\ UNCHANGED <<res, canceled, leVars, groupVars, stopVars, healthVars>>

(* shutdownCtx is done: the recorder is stopped and Start returns, with an *)
(* error added when there was a grace period and it is over.               *)
StartReturns(c) ==
    /\ pc[c] = "stopping"
    /\ shutdown \in {"canceled", "expired"}
    /\ res' = [res EXCEPT ![c] = IF shutdown = "expired" /\ Timeout > 0
                                 THEN "grace" ELSE res[c]]
    /\ mutex' = mutex \ {c}
    /\ pc' = [pc EXCEPT ![c] = "returned"]
    /\ UNCHANGED <<canceled, leVars, groupVars, stopVars, healthVars>>

-----------------------------------------------------------------------------
(* The environment.                                                        *)
Cancel(c) ==
    /\ c \notin canceled
    /\ canceled' = canceled \cup {c}
    /\ UNCHANGED <<pc, res, mutex, leVars, groupVars, stopVars, healthVars>>

(* gracefulShutdownTimeout.                                                *)
Expire ==
    /\ shutdown = "live"
    /\ shutdown' = "expired"
    /\ UNCHANGED <<startVars, leVars, groupVars, engaged, stopper, healthVars>>

StartStep(c) ==
    \/ AddCluster(c) \/ AddClusterFails(c) \/ CachesStarted(c) \/ OthersStarted(c)
    \/ \E g \in Group : StartGroup(c, g)
    \/ StopOnCancel(c) \/ \E r \in Runnable : StopOnError(c, r)
    \/ Engage(c) \/ EngageAgain(c) \/ StartReturns(c)

LeaderStep(c) == StartLeaderElection(c) \/ Elected(c)

GroupStep(g) == FinishStart(g) \/ StopStarts(g) \/ StopCancels(g) \/ StopEnds(g)

RunStep(r) == RunReturns(r, "ended") \/ RunReturns(r, "failed")

Next ==
    /\ elected # "panic"
    /\ \/ \E c \in Caller : Start(c) \/ StartStep(c) \/ LeaderStep(c) \/ Cancel(c)
       \/ \E g \in Group : GroupStep(g)
       \/ \E r \in Runnable : RunStep(r) \/ Drain(r)
       \/ \E r \in Reconciler \cup Other : Add(r)
       \/ \E p \in Probe : AddCheck(p)
       \/ Sync \/ Expire

Spec == Init /\ [][Next]_vars

(* Goroutines run, timers fire and a runnable that is cancelled returns;   *)
(* whether the cache syncs is not up to the manager.  One condition for    *)
(* all of them is weaker than one for each goroutine.                      *)
Progress ==
    \/ \E c \in Caller : StartStep(c) \/ LeaderStep(c)
    \/ \E g \in Group : GroupStep(g)
    \/ \E r \in Runnable :
          (phase[GroupOf(r)] = "stopping" /\ RunStep(r)) \/ Drain(r)
    \/ Expire

Fairness == WF_vars(Progress)

FairSpec == Spec /\ Fairness /\ WF_vars(Sync)

SpecNoSync == Spec /\ Fairness

-----------------------------------------------------------------------------
(* Type correctness; a Start that is not ready holds the mutex.            *)
TypeOK ==
    /\ pc \in [Caller -> {"idle", "add", "caches", "others", "serve", "stop",
                          "stopping", "returned"}]
    /\ res \in [Caller -> {"nil", "error", "grace"}]
    /\ canceled \subseteq Caller
    /\ mutex \subseteq Caller
    /\ \A c \in Caller : pc[c] \in {"add", "caches", "others"} => mutex = {c}
    /\ le \in [Caller -> {"none", "start", "done"}]
    /\ elected \in {"open", "closed", "panic"}
    /\ phase \in [Group -> {"new", "starting", "started", "stopping", "stopped"}]
    /\ run \in [Runnable -> {"none", "queued", "running", "failed", "ended", "rejected"}]
    /\ synced \in BOOLEAN
    /\ engaged \subseteq Caller
    /\ stopper \in 0 .. Len(StopSequence)
    /\ shutdown \in {"none", "live", "canceled", "expired"}
    /\ handler \subseteq Probe /\ served \subseteq Probe

(* Until the manager stops, a runnable runs only when the cache is synced, *)
(* also one added while the manager starts.                                *)
CachesFirst ==
    engaged = {} => \A r \in Reconciler \cup Other : run[r] = "running" => synced

(* If Start returns without the error of the grace period nothing runs,    *)
(* and nothing will, if there is a grace period.                           *)
CleanReturn ==
    Timeout > 0 => \A c \in engaged : pc[c] = "returned" /\ res[c] # "grace" =>
        \A g \in Group : phase[g] = "stopped" /\ Pending(g) = {}

(* internal.go:294-298: a Start that is cancelled returns, and a failed    *)
(* runnable ends some Start that is serving; unless the process panics, or *)
(* the cluster has ended before its cache was synced (StartAlwaysEnds).    *)
Stuck == elected = "panic" \/ (~synced /\ \A c \in Caller : run[c] # "running")

StartEnds ==
    /\ \A c \in Caller :
          (pc[c] # "idle" /\ c \in canceled) ~> (pc[c] = "returned" \/ Stuck)
    /\ ((\E c \in Caller : pc[c] = "serve") /\ (\E r \in Runnable : run[r] = "failed"))
          ~> ((\E c \in Caller : pc[c] = "returned") \/ Stuck)

-----------------------------------------------------------------------------
(* internal.go:294-298 without these exceptions.                              *)
StartAlwaysEnds ==
    \A c \in Caller :
        (pc[c] # "idle" /\ (c \in canceled \/ run[c] = "failed")) ~> pc[c] = "returned"

(* internal.go:353: the other runnables start after the cache has synced.  *)
NeverWithoutCaches ==
    \A r \in Reconciler \cup Other : run[r] = "running" => synced

(* internal.go:438-440: the caches are stopped before the leader election  *)
(* runnables, so that the reconcilers get no more events while they stop.  *)
CachesStopFirst ==
    phase["LeaderElection"] \in {"stopping", "stopped"} => phase["Caches"] = "stopped"

(* internal.go:303: a manager that is started refuses to start.            *)
StartsOnce == elected # "panic"

(* internal.go:155: once the endpoint is created no check is accepted, so  *)
(* every accepted check is served.                                         *)
AcceptedIsServed ==
    (\E c \in Caller : pc[c] = "serve") => handler \subseteq served
=============================================================================
