---------------------------- MODULE ManagerProofs ----------------------------
(***************************************************************************)
(* For any number of calls of Start, controllers and other runnables: the  *)
(* caches start first and stop last, and a clean return leaves nothing     *)
(* running.                                                                *)
(***************************************************************************)
EXTENDS Manager, TLAPS

\* A call of Start past the caches has them started, and with them synced,
\* unless the stop procedure has begun.
StartOrder ==
    /\ \A c \in Caller : pc[c] = "caches" /\ phase["Caches"] = "new" => run[c] = "queued"
    /\ engaged = {} =>
          /\ phase["Caches"] \notin {"new", "starting"} => synced
          /\ \A c \in Caller : pc[c] = "others" \/ le[c] = "start" => synced
          /\ \A g \in {"Others", "LeaderElection"} : phase[g] # "new" => synced

\* The stop procedure takes the groups one by one.
StopOrder ==
    /\ engaged = {} => stopper = 0 /\ \A g \in Group : phase[g] \notin {"stopping", "stopped"}
    /\ stopper >= 1 => phase["Others"] = "stopped"
    /\ stopper >= 2 => phase["LeaderElection"] = "stopped"
    /\ stopper >= 3 => phase["Caches"] = "stopped"
    /\ phase["Caches"] \in {"stopping", "stopped"} => stopper >= 2

\* What a stopped group had, it has no more, or the grace period is over.
StoppedIsEmpty ==
    \A g \in Group : phase[g] = "stopped" => Pending(g) = {} \/ shutdown = "expired"

\* The stop procedure belongs to one call of Start, which returns after it.
StopOwner ==
    /\ engaged = {} <=> shutdown = "none"
    /\ shutdown = "canceled" => stopper = 3
    /\ \A c \in Caller : pc[c] = "stopping" => c \in engaged
    /\ \A c \in engaged : pc[c] \in {"stopping", "returned"}
    /\ Timeout > 0 => \A c \in engaged :
          pc[c] = "returned" /\ res[c] # "grace" => shutdown = "canceled"

IInv == TypeOK /\ StartOrder /\ CachesFirst /\ StopOrder /\ StoppedIsEmpty /\ StopOwner

LEMMA Sequence ==
  /\ Len(StopSequence) = 3
  /\ StopSequence[1] = "Others" /\ StopSequence[2] = "LeaderElection" /\ StopSequence[3] = "Caches"
BY DEF StopSequence

LEMMA Groups ==
  /\ \A r : GroupOf(r) \in Group
  /\ \A r \in Caller : GroupOf(r) = "Caches"
  /\ \A r \in Reconciler \cup Other : GroupOf(r) \in {"Others", "LeaderElection"}
BY Kinds DEF GroupOf, Group

LEMMA InitIInv == Init => IInv
<1> SUFFICES ASSUME Init PROVE IInv
  OBVIOUS
<1> USE DEF Init
<1>1. TypeOK
  <2>1. 0 \in 0 .. Len(StopSequence)
    BY Sequence
  <2> QED
    BY <2>1 DEF TypeOK
<1>2. StartOrder /\ CachesFirst
  BY Kinds DEF StartOrder, CachesFirst, Group, Runnable
<1>3. StopOrder /\ StoppedIsEmpty /\ StopOwner
  BY DEF StopOrder, StoppedIsEmpty, StopOwner, Group
<1> QED
  BY <1>1, <1>2, <1>3 DEF IInv

\* A step that sets nothing running in a stopped group.
Quiet ==
    \A r \in Runnable : run'[r] \in {"running", "failed"} =>
        run[r] \in {"running", "failed"} \/ phase[GroupOf(r)] \notin {"stopping", "stopped"}

\* ... keeps empty groups empty.
LEMMA QuietKeeps ==
  ASSUME Quiet, NEW g \in Group, phase[g] \in {"stopping", "stopped"}
  PROVE  Pending(g)' \subseteq Pending(g)
BY DEF Quiet, Pending, Members

\* What BeginStart does, with the queue's runnables named by their state.
LEMMA BeginFacts ==
  ASSUME TypeOK, NEW g \in Group, BeginStart(g)
  PROVE  /\ phase[g] = "new" /\ synced' = synced
         /\ phase' \in {[phase EXCEPT ![g] = "starting"], [phase EXCEPT ![g] = "started"]}
         /\ run' \in [Runnable -> {"none", "queued", "running", "failed", "ended", "rejected"}]
         /\ \A r \in Runnable : run'[r] # run[r] =>
               GroupOf(r) = g /\ run[r] = "queued" /\ run'[r] = "running"
         /\ (\E r \in Members(g) : run[r] = "queued") => phase'[g] = "starting"
BY DEF BeginStart, TypeOK, Members

\* The steps that change neither runnables nor groups.
LEMMA OtherSteps ==
  ASSUME IInv, NEW c \in Caller,
         \/ Start(c) \/ AddClusterFails(c) \/ CachesStarted(c) \/ OthersStarted(c)
         \/ StopOnCancel(c) \/ Elected(c) \/ Engage(c) \/ EngageAgain(c)
         \/ StartReturns(c) \/ Cancel(c)
  PROVE  IInv'
<1> USE DEF startVars, leVars, groupVars, stopVars, healthVars
<1>1. phase' = phase /\ run' = run /\ synced' = synced /\ stopper' = stopper
  BY DEF Start, AddClusterFails, CachesStarted, OthersStarted, StopOnCancel, Elected, Engage,
         EngageAgain, StartReturns, Cancel
<1>2. TypeOK'
  BY DEF IInv, TypeOK, Start, AddClusterFails, CachesStarted, OthersStarted, StopOnCancel, Elected,
         Engage, EngageAgain, StartReturns, Cancel, StopOwner
<1>3. StartOrder' /\ CachesFirst'
  BY <1>1 DEF IInv, TypeOK, StartOrder, CachesFirst, HasStarted, Start, AddClusterFails, CachesStarted, OthersStarted,
         StopOnCancel, Elected, Engage, EngageAgain, StartReturns, Cancel
<1>4. StopOrder' /\ StopOwner'
  BY <1>1, Kinds DEF IInv, TypeOK, StopOrder, StopOwner, Start, AddClusterFails, CachesStarted, OthersStarted,
         StopOnCancel, Elected, Engage, EngageAgain, StartReturns, Cancel
<1>5. StoppedIsEmpty'
  <2>1. Quiet
    BY <1>1 DEF Quiet
  <2>2. shutdown = "expired" => shutdown' = "expired"
    BY DEF IInv, StopOwner, Start, AddClusterFails, CachesStarted, OthersStarted, StopOnCancel, Elected, Engage,
         EngageAgain, StartReturns, Cancel
  <2> QED
    BY <1>1, <2>1, <2>2, QuietKeeps DEF IInv, StoppedIsEmpty
<1> QED
  BY <1>2, <1>3, <1>4, <1>5 DEF IInv

\* The steps of a group: its start, by whoever is first.
LEMMA BeginSteps ==
  ASSUME IInv, NEW g \in Group, BeginStart(g),
         UNCHANGED <<startVars, leVars, stopVars, healthVars>>,
         \/ engaged # {}
         \/ g = "Caches" /\ \E c \in Caller : pc[c] = "caches"
         \/ g # "Caches" /\ synced
  PROVE  IInv'
<1> USE DEF startVars, leVars, stopVars, healthVars
<1>1. /\ phase[g] = "new" /\ synced' = synced
      /\ phase' \in {[phase EXCEPT ![g] = "starting"], [phase EXCEPT ![g] = "started"]}
      /\ run' \in [Runnable -> {"none", "queued", "running", "failed", "ended", "rejected"}]
      /\ \A r \in Runnable : run'[r] # run[r] =>
            GroupOf(r) = g /\ run[r] = "queued" /\ run'[r] = "running"
      /\ (\E r \in Members(g) : run[r] = "queued") => phase'[g] = "starting"
  BY BeginFacts DEF IInv
<1>2. TypeOK'
  BY <1>1 DEF IInv, TypeOK
<1>3. Quiet
  BY <1>1 DEF Quiet
<1>4. StopOrder' /\ StopOwner'
  BY <1>1 DEF IInv, TypeOK, StopOrder, StopOwner, Group
<1>5. StoppedIsEmpty'
  BY <1>1, <1>3, QuietKeeps DEF IInv, TypeOK, StoppedIsEmpty
<1>6. \A c \in Caller : c \in Members("Caches") /\ c \in Runnable
  BY Groups DEF Members, Runnable
<1>7. StartOrder'
  <2>1. \A c \in Caller : pc'[c] = "caches" /\ phase'["Caches"] = "new" => run'[c] = "queued"
    BY <1>1, <1>6, Groups DEF IInv, TypeOK, StartOrder, Group
  <2>2. ASSUME engaged = {}
        PROVE  /\ phase'["Caches"] \notin {"new", "starting"} => synced'
               /\ \A h \in {"Others", "LeaderElection"} : phase'[h] # "new" => synced'
    <3>1. CASE g = "Caches"
      <4>1. PICK c \in Caller : pc[c] = "caches"
        BY <2>2, <3>1
      <4>2. phase'["Caches"] = "starting"
        BY <1>1, <1>6, <3>1, <4>1 DEF IInv, StartOrder
      <4> QED
        BY <1>1, <2>2, <3>1, <4>2 DEF IInv, TypeOK, StartOrder, Group
    <3>2. CASE g # "Caches"
      BY <1>1, <2>2, <3>2 DEF IInv, TypeOK, StartOrder, Group
    <3> QED
      BY <3>1, <3>2
  <2>3. engaged = {} => \A c \in Caller : pc[c] = "others" \/ le[c] = "start" => synced
    BY DEF IInv, StartOrder
  <2> QED
    BY <1>1, <2>1, <2>2, <2>3 DEF StartOrder
<1>8. CachesFirst'
  BY <1>1, Groups DEF IInv, CachesFirst, Runnable
<1> QED
  BY <1>2, <1>4, <1>5, <1>7, <1>8 DEF IInv

\* ... and the rest of its life.
LEMMA GroupSteps ==
  ASSUME IInv, NEW g \in Group, FinishStart(g) \/ StopCancels(g) \/ StopEnds(g)
  PROVE  IInv'
<1> USE DEF startVars, leVars, stopVars, healthVars
<1> USE Sequence
<1>1. run' = run /\ synced' = synced /\ Quiet
  BY DEF FinishStart, StopCancels, StopEnds, Quiet
<1>2. TypeOK'
  BY DEF IInv, TypeOK, FinishStart, StopCancels, StopEnds, Stopping
<1>3. StartOrder' /\ CachesFirst'
  <2>1. CASE FinishStart(g)
    BY <1>1, <2>1 DEF IInv, TypeOK, StartOrder, CachesFirst, FinishStart, Group
  <2>2. CASE StopCancels(g) \/ StopEnds(g)
    <3>1. engaged # {} /\ engaged' = engaged /\ pc' = pc /\ phase'["Caches"] = "new" => phase["Caches"] = "new"
      BY <2>2 DEF IInv, TypeOK, StopCancels, StopEnds, Stopping, Group
    <3> QED
      BY <1>1, <2>2, <3>1 DEF IInv, TypeOK, StartOrder, CachesFirst, StopCancels, StopEnds, Stopping
  <2> QED
    BY <2>1, <2>2
<1>4. CASE FinishStart(g)
  BY <1>1, <1>2, <1>3, <1>4, QuietKeeps DEF IInv, TypeOK, StopOrder, StopOwner, StoppedIsEmpty, FinishStart
<1>5. CASE StopCancels(g)
  BY <1>1, <1>2, <1>3, <1>5, QuietKeeps DEF IInv, TypeOK, StopOrder, StopOwner, StoppedIsEmpty, StopCancels, Stopping
<1>6. CASE StopEnds(g)
  <2>1. StopOrder' /\ StopOwner'
    BY <1>6 DEF IInv, TypeOK, StopOrder, StopOwner, StopEnds, Stopping, Group
  <2>2. StoppedIsEmpty'
    BY <1>1, <1>6, QuietKeeps DEF IInv, TypeOK, StoppedIsEmpty, StopEnds
  <2> QED
    BY <1>2, <1>3, <2>1, <2>2 DEF IInv
<1> QED
  BY <1>4, <1>5, <1>6

\* The steps of one runnable.
LEMMA RunSteps ==
  ASSUME IInv, NEW r \in Runnable,
         \/ RunStep(r) \/ Drain(r)
         \/ r \in Reconciler \cup Other /\ Add(r)
         \/ \E c \in Caller : StopOnError(c, r)
         \/ r \in Caller /\ AddCluster(r)
  PROVE  IInv'
<1> USE DEF startVars, leVars, stopVars, healthVars, groupVars
<1>1. /\ phase' = phase /\ synced' = synced
      /\ UNCHANGED <<leVars, stopVars>>
      /\ \E x \in {"queued", "running", "failed", "ended", "rejected"} :
            /\ run' = [run EXCEPT ![r] = x]
            /\ (x \in {"failed", "ended"} /\ run[r] \in {"running", "failed"}) \/ x = Added(r)
  BY DEF RunStep, RunReturns, Drain, Add, StopOnError, AddCluster, Added
<1>2. Quiet
  BY <1>1 DEF Quiet, Added, IInv, TypeOK
<1>3. TypeOK'
  BY <1>1 DEF IInv, TypeOK, RunStep, RunReturns, Drain, Add, StopOnError, AddCluster
<1>4. StartOrder'
  BY <1>1, Groups, Kinds DEF IInv, TypeOK, StartOrder, RunStep, RunReturns, Drain, Add, StopOnError, AddCluster, Added
<1>5. CachesFirst'
  BY <1>1, Groups, Kinds DEF IInv, TypeOK, CachesFirst, StartOrder, Added
<1>6. StopOrder' /\ StopOwner'
  BY <1>1 DEF IInv, TypeOK, StopOrder, StopOwner, RunStep, RunReturns, Drain, Add, StopOnError, AddCluster
<1>7. StoppedIsEmpty'
  BY <1>1, <1>2, QuietKeeps DEF IInv, StoppedIsEmpty
<1> QED
  BY <1>3, <1>4, <1>5, <1>6, <1>7 DEF IInv

LEMMA EnvironmentSteps ==
  ASSUME IInv, Sync \/ Expire \/ (\E p \in Probe : AddCheck(p)) \/ UNCHANGED vars
  PROVE  IInv'
<1> USE DEF startVars, leVars, stopVars, healthVars, groupVars, vars
<1>1. phase' = phase /\ run' = run /\ stopper' = stopper /\ engaged' = engaged /\ pc' = pc /\ res' = res /\ le' = le
  BY DEF Sync, Expire, AddCheck
<1>2. Quiet
  BY <1>1 DEF Quiet
<1>3. TypeOK'
  BY DEF IInv, TypeOK, Sync, Expire, AddCheck
<1>4. StartOrder' /\ CachesFirst'
  BY <1>1 DEF IInv, TypeOK, StartOrder, CachesFirst, Sync, Expire, AddCheck
<1>5. StopOrder' /\ StopOwner'
  BY <1>1 DEF IInv, StopOrder, StopOwner, Sync, Expire, AddCheck
<1>6. StoppedIsEmpty'
  BY <1>1, <1>2, QuietKeeps DEF IInv, StoppedIsEmpty, Sync, Expire, AddCheck
<1> QED
  BY <1>3, <1>4, <1>5, <1>6 DEF IInv

LEMMA StepIInv == IInv /\ [Next]_vars => IInv'
<1> SUFFICES ASSUME IInv, [Next]_vars PROVE IInv'
  OBVIOUS
<1>1. ASSUME NEW c \in Caller, StartStep(c) \/ LeaderStep(c) PROVE IInv'
  <2>1. ASSUME NEW g \in Group, StartGroup(c, g) PROVE IInv'
    BY <2>1, BeginSteps DEF StartGroup, IInv, StartOrder
  <2>2. CASE StartLeaderElection(c)
    BY <2>2, BeginSteps DEF StartLeaderElection, IInv, StartOrder, Group
  <2> QED
    BY <1>1, <2>1, <2>2, OtherSteps, RunSteps DEF StartStep, LeaderStep, Runnable
<1>2. ASSUME NEW g \in Group, StopStarts(g) PROVE IInv'
  BY <1>2, BeginSteps DEF StopStarts, Stopping
<1>3. ASSUME NEW c \in Caller, Start(c) \/ Cancel(c) PROVE IInv'
  BY <1>3, OtherSteps
<1>4. ASSUME NEW g \in Group, GroupStep(g) PROVE IInv'
  BY <1>2, <1>4, GroupSteps DEF GroupStep
<1>5. ASSUME NEW r \in Runnable, RunStep(r) \/ Drain(r) PROVE IInv'
  BY <1>5, RunSteps
<1>6. ASSUME NEW r \in Reconciler \cup Other, Add(r) PROVE IInv'
  BY <1>6, RunSteps DEF Runnable
<1>7. CASE Sync \/ Expire \/ (\E p \in Probe : AddCheck(p)) \/ UNCHANGED vars
  BY <1>7, EnvironmentSteps
<1> QED
  BY <1>1, <1>3, <1>4, <1>5, <1>6, <1>7 DEF Next

-----------------------------------------------------------------------------
(* The inductive invariant: what a call of Start has reached, and how far  *)
(* the stop procedure is (internal.go:299-461).                            *)
THEOREM Invariance == Spec => []IInv
BY InitIInv, StepIInv, PTL DEF Spec

(* No controller and no other runnable runs before the cache has synced,   *)
(* whenever it was added, until the manager stops (internal.go:347-360).   *)
THEOREM CachesStartFirst == Spec => []CachesFirst
<1>1. IInv => CachesFirst
  BY DEF IInv
<1> QED
  BY Invariance, <1>1, PTL

(* When Start returns without the error of the grace period every group is *)
(* stopped and nothing runs (internal.go:449-461).                         *)
THEOREM ReturnsClean == Spec => []CleanReturn
<1>1. IInv => CleanReturn
  BY DEF IInv, TypeOK, CleanReturn, StopOrder, StoppedIsEmpty, StopOwner, Group
<1> QED
  BY Invariance, <1>1, PTL
=============================================================================
