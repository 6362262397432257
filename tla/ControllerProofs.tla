-------------------------- MODULE ControllerProofs --------------------------
(***************************************************************************)
(* For any number of keys, workers, sources and callers of Start: no key   *)
(* is reconciled by two workers at once, and no accepted source is left    *)
(* out.                                                                    *)
(***************************************************************************)
EXTENDS Controller, TLAPS

LEMMA AppendNew ==
  ASSUME NEW S, NEW s \in Seq(S), NEW k \in S, IsInjective(s), k \notin ToSet(s)
  PROVE  /\ Append(s, k) \in Seq(S) /\ IsInjective(Append(s, k))
         /\ ToSet(Append(s, k)) = ToSet(s) \cup {k}
<1> DEFINE t == Append(s, k)
<1>1. t \in Seq(S) /\ Len(t) = Len(s) + 1 /\ t[Len(s) + 1] = k
      /\ \A i \in 1 .. Len(s) : t[i] = s[i]
  OBVIOUS
<1>2. DOMAIN s = 1 .. Len(s) /\ DOMAIN t = 1 .. Len(s) + 1 /\ Len(s) \in Nat
  BY <1>1
<1>3. IsInjective(t)
  BY <1>1, <1>2 DEF IsInjective, ToSet
<1>4. ToSet(t) = ToSet(s) \cup {k}
  BY <1>1, <1>2 DEF ToSet
<1> QED
  BY <1>1, <1>3, <1>4

LEMMA TailRest ==
  ASSUME NEW S, NEW s \in Seq(S), IsInjective(s), s # <<>>
  PROVE  /\ Tail(s) \in Seq(S) /\ IsInjective(Tail(s))
         /\ Head(s) \in S /\ Head(s) \in ToSet(s)
         /\ ToSet(Tail(s)) = ToSet(s) \ {Head(s)}
<1> DEFINE t == Tail(s)
<1>1. t \in Seq(S) /\ Len(s) \in Nat \ {0} /\ Len(t) = Len(s) - 1 /\ Head(s) = s[1]
      /\ \A i \in 1 .. Len(t) : t[i] = s[i + 1]
  OBVIOUS
<1>2. DOMAIN s = 1 .. Len(s) /\ DOMAIN t = 1 .. Len(s) - 1
  BY <1>1
<1>3. \A i, j \in 1 .. Len(s) : s[i] = s[j] => i = j
  BY <1>2 DEF IsInjective
<1>4. IsInjective(t)
  BY <1>1, <1>2, <1>3 DEF IsInjective
<1>5. Head(s) \in ToSet(s) /\ Head(s) \in S
  BY <1>1, <1>2 DEF ToSet
<1>6. ToSet(t) \subseteq ToSet(s) \ {Head(s)}
  BY <1>1, <1>2, <1>3 DEF ToSet
<1>7. ASSUME NEW x \in ToSet(s), x # Head(s) PROVE x \in ToSet(t)
  <2>1. PICK i \in 1 .. Len(s) : x = s[i]
    BY <1>2 DEF ToSet
  <2>2. i - 1 \in 1 .. Len(t) /\ t[i - 1] = x
    BY <1>1, <1>7, <2>1
  <2> QED
    BY <1>1, <1>2, <2>2 DEF ToSet
<1> QED
  BY <1>1, <1>4, <1>5, <1>6, <1>7

-----------------------------------------------------------------------------
\* One caller of Start at a time is past the mutex, and before Launch.
OneStarting ==
    \A c \in Caller : pc[c] \in {"watches", "sync"} => mu = {c} /\ ~started

\* Until Launch there are no workers, and Start has all accepted sources.
BeforeLaunch ==
    ~started => startWatches = accepted /\ \A w \in Worker : worker[w] = "off"

SourcesLive ==
    /\ \A c \in Caller : pc[c] = "sync" => startWatches \subseteq live
    /\ started => accepted \subseteq live

\* A worker has a key from Get to Done, and the key is being processed.
WorkersKeys ==
    \A w \in Worker :
        /\ worker[w] \in {"off", "idle", "exit"} => item[w] = {}
        /\ worker[w] \in {"reconcile", "finish"} => \E k \in Key : item[w] = {k}
        /\ item[w] \subseteq processing

QueueOK ==
    /\ ready \in Seq(Key) /\ IsInjective(ready)
    /\ ToSet(ready) = dirty \ processing
    /\ dirty \subseteq Key /\ processing \subseteq Key

IInv == TypeOK /\ OneStarting /\ BeforeLaunch /\ SourcesLive /\ WorkersKeys /\ NeverConcurrent

LEMMA EmptyQueue == <<>> \in Seq(Key) /\ IsInjective(<<>>) /\ ToSet(<<>>) = {}
BY DEF IsInjective, ToSet

LEMMA InitIInv == Init => IInv
BY EmptyQueue DEF Init, IInv, TypeOK, OneStarting, BeforeLaunch, SourcesLive, WorkersKeys, NeverConcurrent

\* Add keeps the queue consistent, and leaves processing alone.
LEMMA AddQueueOK ==
  ASSUME QueueOK, NEW k \in Key, QueueAdd(k), processing' = processing
  PROVE  QueueOK'
<1>1. CASE ~shut /\ k \notin dirty /\ k \notin processing
  <2>1. dirty' = dirty \cup {k} /\ ready' = Append(ready, k)
    BY <1>1 DEF QueueAdd
  <2>2. k \notin ToSet(ready)
    BY <1>1 DEF QueueOK
  <2>3. ready' \in Seq(Key) /\ IsInjective(ready') /\ ToSet(ready') = ToSet(ready) \cup {k}
    BY <2>1, <2>2, AppendNew DEF QueueOK
  <2> QED
    BY <1>1, <2>1, <2>3 DEF QueueOK
<1>2. CASE ~(~shut /\ k \notin dirty /\ k \notin processing)
  <2>1. ready' = ready
    BY <1>2 DEF QueueAdd
  <2>2. dirty' = dirty \/ (dirty' = dirty \cup {k} /\ k \in processing)
    BY <1>2 DEF QueueAdd
  <2> QED
    BY <2>1, <2>2 DEF QueueOK
<1> QED
  BY <1>1, <1>2

\* Done keeps it so too: a key that was added meanwhile is queued again.
LEMMA DoneQueueOK ==
  ASSUME QueueOK, NEW k \in Key, k \in processing, QueueDone(k), dirty' = dirty
  PROVE  QueueOK'
<1>1. k \notin ToSet(ready)
  BY DEF QueueOK
<1>2. CASE k \in dirty
  <2>1. ready' = Append(ready, k) /\ processing' = processing \ {k}
    BY <1>2 DEF QueueDone
  <2>2. ready' \in Seq(Key) /\ IsInjective(ready') /\ ToSet(ready') = ToSet(ready) \cup {k}
    BY <1>1, <2>1, AppendNew DEF QueueOK
  <2> QED
    BY <1>2, <2>1, <2>2 DEF QueueOK
<1>3. CASE k \notin dirty
  <2>1. ready' = ready /\ processing' = processing \ {k}
    BY <1>3 DEF QueueDone
  <2> QED
    BY <1>3, <2>1 DEF QueueOK
<1> QED
  BY <1>2, <1>3

\* What TypeOK says of everything but the queue.
RestOK ==
    /\ mu \subseteq Caller /\ started \in BOOLEAN
    /\ pc \in [Caller -> {"idle", "watches", "sync", "run", "returned", "failed", "refused"}]
    /\ startWatches \subseteq accepted /\ accepted \subseteq Source
    /\ live \subseteq accepted /\ synced \subseteq accepted
    /\ ctxDone \in BOOLEAN /\ shut \in BOOLEAN /\ delayed \subseteq Key
    /\ worker \in [Worker -> {"off", "idle", "reconcile", "finish", "exit"}]
    /\ item \in [Worker -> SUBSET Key]
    /\ owed \subseteq Key /\ missed \subseteq Key

Rest == RestOK /\ OneStarting /\ BeforeLaunch /\ SourcesLive /\ WorkersKeys /\ NeverConcurrent

LEMMA Parts == IInv <=> Rest /\ QueueOK
BY DEF IInv, Rest, TypeOK, RestOK, QueueOK

LEMMA SameQueue == QueueOK /\ UNCHANGED <<ready, dirty, processing>> => QueueOK'
BY DEF QueueOK

\* The steps of Start.
LEMMA StartSteps ==
  ASSUME Rest, QueueOK, NEW c \in Caller, Start(c) \/ StartStep(c)
  PROVE  Rest' /\ QueueOK'
<1> USE DEF Rest, RestOK, OneStarting, BeforeLaunch, SourcesLive, WorkersKeys, NeverConcurrent,
            startVars, watchVars, queueVars, workVars, keyVars
<1>1. CASE Start(c)
  <2>1. CASE started
    BY <1>1, <2>1, SameQueue DEF Start
  <2>2. CASE ~started
    <3>1. /\ ready' = <<>> /\ dirty' = {} /\ processing' = {} /\ delayed' = {} /\ shut' = FALSE
          /\ live' = {} /\ owed' = {} /\ missed' = {} /\ mu' = {c} /\ mu = {}
          /\ pc' = [pc EXCEPT ![c] = "watches"]
          /\ UNCHANGED <<started, startWatches, accepted, synced, ctxDone, worker, item>>
      BY <1>1, <2>2 DEF Start
    <3>2. QueueOK'
      BY <3>1, EmptyQueue DEF QueueOK
    <3>3. \A w \in Worker : item[w] = {}
      BY <2>2
    <3>4. Rest'
      BY <2>2, <3>1, <3>3
    <3> QED
      BY <3>2, <3>4
  <2> QED
    BY <2>1, <2>2
<1>2. ASSUME NEW s \in Source, StartSource(c, s) PROVE Rest' /\ QueueOK'
  BY <1>2, SameQueue DEF StartSource
<1>3. CASE SourcesStarted(c)
  BY <1>3, SameQueue DEF SourcesStarted
<1>4. CASE StartFails(c)
  BY <1>4, SameQueue DEF StartFails
<1>5. CASE Launch(c)
  <2>1. \A w \in Worker : item[w] = {}
    BY <1>5 DEF Launch
  <2> QED
    BY <1>5, <2>1, SameQueue DEF Launch
<1>6. CASE StartReturns(c)
  BY <1>6, SameQueue DEF StartReturns
<1> QED
  BY <1>1, <1>2, <1>3, <1>4, <1>5, <1>6 DEF StartStep

\* Watch and the sources' caches; the end of the context.
LEMMA WatchSteps ==
  ASSUME Rest, QueueOK, ShutDown \/ Cancel \/ \E s \in Source : Watch(s) \/ SourceSyncs(s)
  PROVE  Rest' /\ QueueOK'
<1> USE DEF Rest, RestOK, OneStarting, BeforeLaunch, SourcesLive, WorkersKeys, NeverConcurrent,
            startVars, watchVars, queueVars, workVars, keyVars
<1>1. ASSUME NEW s \in Source, Watch(s) PROVE Rest' /\ QueueOK'
  BY <1>1, SameQueue DEF Watch
<1>2. ASSUME NEW s \in Source, SourceSyncs(s) PROVE Rest' /\ QueueOK'
  BY <1>2, SameQueue DEF SourceSyncs
<1>3. CASE ShutDown
  BY <1>3, SameQueue DEF ShutDown
<1>4. CASE Cancel
  BY <1>4, SameQueue DEF Cancel
<1> QED
  BY <1>1, <1>2, <1>3, <1>4

\* The steps that fill the queue.
LEMMA QueueSteps ==
  ASSUME Rest, QueueOK, NEW k \in Key, DelayOver(k) \/ \E s \in Source : Event(s, k)
  PROVE  Rest' /\ QueueOK'
<1> USE DEF startVars, watchVars, queueVars, workVars, keyVars
<1>1. /\ processing' = processing
      /\ UNCHANGED <<startVars, watchVars, ctxDone, shut, workVars>>
      /\ delayed' \in SUBSET delayed
      /\ QueueAdd(k) \/ UNCHANGED <<ready, dirty>>
      /\ owed' \in {owed, owed \cup {k}} /\ missed' \in {missed, missed \cup {k}}
  BY DEF Event, DelayOver
<1>2. Rest'
  BY <1>1 DEF Rest, RestOK, OneStarting, BeforeLaunch, SourcesLive, WorkersKeys, NeverConcurrent
<1>3. QueueOK'
  BY <1>1, AddQueueOK, SameQueue
<1> QED
  BY <1>2, <1>3

\* The steps of a worker.
LEMMA WorkerSteps ==
  ASSUME Rest, QueueOK, NEW w \in Worker, WorkerStep(w)
  PROVE  Rest' /\ QueueOK'
<1> USE DEF startVars, watchVars, queueVars, workVars, keyVars
<1> DEFINE k == Head(ready)
<1>1. CASE Get(w)
  <2>1. /\ ready # <<>> /\ worker[w] = "idle"
        /\ ready' = Tail(ready) /\ dirty' = dirty \ {k} /\ processing' = processing \cup {k}
        /\ item' = [item EXCEPT ![w] = {k}] /\ worker' = [worker EXCEPT ![w] = "reconcile"]
        /\ owed' = owed \ {k} /\ missed' = missed \ {k}
        /\ UNCHANGED <<startVars, watchVars, ctxDone, delayed, shut>>
    BY <1>1 DEF Get
  <2>2. /\ Tail(ready) \in Seq(Key) /\ IsInjective(Tail(ready))
        /\ k \in Key /\ k \in ToSet(ready) /\ ToSet(Tail(ready)) = ToSet(ready) \ {k}
    BY <2>1, TailRest DEF QueueOK
  <2>3. k \notin processing
    BY <2>2 DEF QueueOK
  <2>4. QueueOK'
    BY <2>1, <2>2 DEF QueueOK
  <2> HIDE DEF k
  <2>5. RestOK' /\ OneStarting' /\ BeforeLaunch' /\ SourcesLive'
    BY <2>1, <2>2 DEF Rest, RestOK, OneStarting, BeforeLaunch, SourcesLive
  <2>6. WorkersKeys' /\ NeverConcurrent'
    BY <2>1, <2>2, <2>3 DEF Rest, RestOK, WorkersKeys, NeverConcurrent
  <2> QED
    BY <2>4, <2>5, <2>6 DEF Rest
<1>2. CASE WorkerExit(w)
  BY <1>2, SameQueue DEF WorkerExit, Rest, RestOK, OneStarting, BeforeLaunch, SourcesLive,
     WorkersKeys, NeverConcurrent
<1>3. ASSUME NEW result \in Result, Handle(w, result) PROVE Rest' /\ QueueOK'
  <2>1. QueueOK'
    BY <1>3, SameQueue DEF Handle
  <2>2. delayed' \subseteq Key /\ owed' \subseteq Key
    BY <1>3 DEF Handle, Rest, RestOK
  <2>3. /\ worker[w] = "reconcile" /\ worker' = [worker EXCEPT ![w] = "finish"]
        /\ UNCHANGED <<startVars, watchVars, ctxDone, processing, shut, item, missed>>
    BY <1>3 DEF Handle
  <2> QED
    BY <2>1, <2>2, <2>3 DEF Rest, RestOK, OneStarting, BeforeLaunch, SourcesLive,
       WorkersKeys, NeverConcurrent
<1>4. CASE Finish(w)
  <2>1. PICK j \in Key : item[w] = {j}
    BY <1>4 DEF Finish, Rest, WorkersKeys
  <2>2. /\ QueueDone(j) /\ dirty' = dirty
        /\ worker[w] = "finish" /\ worker' = [worker EXCEPT ![w] = "idle"]
        /\ item' = [item EXCEPT ![w] = {}]
        /\ UNCHANGED <<startVars, watchVars, ctxDone, delayed, shut, keyVars>>
    BY <1>4, <2>1 DEF Finish
  <2>3. j \in processing
    BY <2>1 DEF Rest, WorkersKeys
  <2>4. QueueOK'
    BY <2>2, <2>3, DoneQueueOK
  <2>5. processing' = processing \ {j}
    BY <2>2 DEF QueueDone
  <2>6. RestOK' /\ OneStarting' /\ BeforeLaunch' /\ SourcesLive'
    BY <2>2 DEF Rest, RestOK, OneStarting, BeforeLaunch, SourcesLive
  <2>7. WorkersKeys' /\ NeverConcurrent'
    BY <2>1, <2>2, <2>5 DEF Rest, RestOK, WorkersKeys, NeverConcurrent
  <2> QED
    BY <2>4, <2>6, <2>7 DEF Rest
<1> QED
  BY <1>1, <1>2, <1>3, <1>4 DEF WorkerStep

LEMMA StepIInv == IInv /\ [Next]_vars => IInv'
<1> SUFFICES ASSUME Rest, QueueOK, [Next]_vars PROVE Rest' /\ QueueOK'
  BY Parts, PTL
<1>1. CASE UNCHANGED vars
  BY <1>1, SameQueue DEF vars, startVars, watchVars, queueVars, workVars, keyVars, Rest, RestOK,
     OneStarting, BeforeLaunch, SourcesLive, WorkersKeys, NeverConcurrent
<1> QED
  BY <1>1, StartSteps, WatchSteps, QueueSteps, WorkerSteps DEF Next

-----------------------------------------------------------------------------
(* The types, and the queue's consistency: a key waits once, exactly when  *)
(* it is dirty and no worker has it.                                       *)
THEOREM Invariance == Spec => []TypeOK
<1>1. IInv => TypeOK
  BY DEF IInv
<1> QED
  BY InitIInv, StepIInv, <1>1, PTL DEF Spec

(* No key is reconciled by two workers at once (controller.go:233).        *)
THEOREM OneWorkerPerKey == Spec => []NeverConcurrent
<1>1. IInv => NeverConcurrent
  BY DEF IInv
<1> QED
  BY InitIInv, StepIInv, <1>1, PTL DEF Spec

(* A running controller has started every source that Watch accepted,      *)
(* whether Watch came before, during or after Start (controller.go:121).   *)
THEOREM NoSourceLost == Spec => []AcceptedIsLive
<1>1. IInv => AcceptedIsLive
  BY DEF IInv, SourcesLive, AcceptedIsLive
<1> QED
  BY InitIInv, StepIInv, <1>1, PTL DEF Spec
=============================================================================
