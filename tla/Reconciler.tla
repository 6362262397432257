----------------------------- MODULE Reconciler -----------------------------
(***************************************************************************)
(* The reconciler of pkg/controllers/reconciler/reconciler.go on one       *)
(* custom resource (CR): the finalizer, the apply and the delete pipeline, *)
(* the children applied from the pipeline's output, the status.  The work  *)
(* queue is seen as Controller shows it: one Reconcile at a time, repeated *)
(* after an event and, with a delay, after a failure.                      *)
(*                                                                         *)
(* The API server and its watch are external.  Every write that succeeds   *)
(* changes the record of the CR to one it never was before, so "same       *)
(* resourceVersion" is equality of records.  Events lag behind; Reconcile  *)
(* itself reads from the API server.                                       *)
(***************************************************************************)
EXTENDS Naturals

CONSTANTS
    Child,    \* objects of other kinds that the apply pipeline outputs
    MaxUid,   \* bound: how often the CR is created
    MaxSpec,  \* bound: versions of the spec of one creation
    MaxFail   \* bound: failures of the API server, a service or a pipeline

\* The pipeline's output for the CR itself, with its status.
CONSTANT Self

ASSUME Bounds == MaxUid \in Nat /\ MaxSpec \in Nat /\ MaxFail \in Nat
                 /\ Self \notin Child

VARIABLES
    store,    \* the CR in the API server
    event,    \* a change the watch has not delivered yet
    created,  \* how many CRs of this name were created
    applied,  \* per child: the creation and spec it was last applied for
    dirty,    \* the CR is in the queue
    delayed,  \* the CR waits to be queued again
    pc,       \* Reconcile: idle, finalizer, clients, delete, remove, run,
              \* apply or fail
    cr,       \* Reconcile's variable of that name: the version it was read at
    status,   \* the status in cr
    x,        \* the CR as it was marshalled for the pipeline
    todo,     \* output still to be applied
    cleaned,  \* creations whose delete pipeline ended after their last apply
    bad,      \* <<creation, spec>> whose apply pipeline has failed
    fails     \* failures so far

apiVars  == <<store, event, created, applied>>
workVars == <<cr, status, x, todo>>
vars == <<apiVars, dirty, delayed, pc, workVars, cleaned, bad, fails>>

None == [uid |-> 0, spec |-> 0, del |-> FALSE, fin |-> FALSE, other |-> FALSE, status |-> 0]

\* An object under deletion goes with its last finalizer.
Settle(o) == IF o.del /\ ~o.fin /\ ~o.other THEN None ELSE o

\* The API server tells the watch of every change of the CR.
Notify == event' = (event \/ store' # store)

\* Reconcile returns, and its variables are gone.
Return ==
    /\ pc' = "idle"
    /\ cr' = None /\ status' = 0 /\ x' = None /\ todo' = {}

Init ==
    /\ store = None /\ event = FALSE /\ created = 0
    /\ applied = [c \in Child |-> <<0, 0>>]
    /\ dirty = FALSE /\ delayed = FALSE
    /\ pc = "idle" /\ cr = None /\ status = 0 /\ x = None /\ todo = {}
    /\ cleaned = {} /\ bad = {} /\ fails = 0

-----------------------------------------------------------------------------
(* The environment: users, other owners of a finalizer, the watch.         *)
Create(other) ==
    /\ store = None
    /\ created < MaxUid
    /\ created' = created + 1
    /\ store' = [None EXCEPT !.uid = created', !.spec = 1, !.other = other]
    /\ Notify
    /\ UNCHANGED <<applied, dirty, delayed, pc, workVars, cleaned, bad, fails>>

Update ==
    /\ store # None
    /\ store.spec < MaxSpec
    /\ store' = [store EXCEPT !.spec = @ + 1]
    /\ Notify
    /\ UNCHANGED <<created, applied, dirty, delayed, pc, workVars, cleaned, bad, fails>>

Delete ==
    /\ store # None /\ ~store.del
    /\ store' = Settle([store EXCEPT !.del = TRUE])
    /\ Notify
    /\ UNCHANGED <<created, applied, dirty, delayed, pc, workVars, cleaned, bad, fails>>

ReleaseOther ==
    /\ store.other /\ store.del
    /\ store' = Settle([store EXCEPT !.other = FALSE])
    /\ Notify
    /\ UNCHANGED <<created, applied, dirty, delayed, pc, workVars, cleaned, bad, fails>>

(* The watch delivers what has changed, and the event queues the CR.       *)
Observe ==
    /\ event /\ event' = FALSE
    /\ dirty' = TRUE
    /\ UNCHANGED <<store, created, applied, delayed, pc, workVars, cleaned, bad, fails>>

(* Every SyncPeriod, ten hours, the informer delivers what it has again.   *)
Resync ==
    /\ store # None \/ event
    /\ dirty' = TRUE
    /\ UNCHANGED <<apiVars, delayed, pc, workVars, cleaned, bad, fails>>

DelayOver ==
    /\ delayed
    /\ delayed' = FALSE /\ dirty' = TRUE
    /\ UNCHANGED <<apiVars, pc, workVars, cleaned, bad, fails>>

-----------------------------------------------------------------------------
\* Mutant: a CR under deletion is not reconciled.
GetSkipsDeleted ==
    /\ pc = "idle" /\ dirty
    /\ dirty' = FALSE
    /\ IF store = None \/ store.del
       THEN UNCHANGED <<pc, workVars>>
       ELSE /\ pc' = "finalizer"
            /\ cr' = store /\ x' = store /\ status' = store.status
            /\ UNCHANGED todo
    /\ UNCHANGED <<apiVars, delayed, cleaned, bad, fails>>

(* Reconcile starts with a Get, which asks the API server: the manager's   *)
(* client has no cache for unstructured objects.  Without a CR it is done. *)
(* x is marshalled before anything is written.                             *)
Get ==
    /\ pc = "idle" /\ dirty
    /\ dirty' = FALSE
    /\ IF store = None
       THEN UNCHANGED <<pc, workVars>>
       ELSE /\ pc' = "finalizer"
            /\ cr' = store /\ x' = store /\ status' = store.status
            /\ UNCHANGED todo
    /\ UNCHANGED <<apiVars, delayed, cleaned, bad, fails>>

(* Get fails for another reason than NotFound: the error is returned, and  *)
(* the controller queues the CR again after a delay.                       *)
GetFails ==
    /\ pc = "idle" /\ dirty
    /\ fails < MaxFail /\ fails' = fails + 1
    /\ dirty' = FALSE /\ delayed' = TRUE
    /\ UNCHANGED <<apiVars, pc, workVars, cleaned, bad>>

(* AddFinalizer.  The API server refuses a stale version, and a new        *)
(* finalizer on an object under deletion.                                  *)
AddFinalizer ==
    /\ pc = "finalizer"
    /\ \/ /\ cr.fin
          /\ UNCHANGED <<store, cr>>
       \/ /\ ~cr.fin /\ store = cr /\ ~cr.del
          /\ store' = [store EXCEPT !.fin = TRUE]
          /\ cr' = store'
    /\ pc' = "clients"
    /\ Notify
    /\ UNCHANGED <<created, applied, dirty, delayed, status, x, todo, cleaned, bad, fails>>

\* Mutant: Reconcile goes on without the finalizer.
AddFinalizerGoesOn ==
    /\ pc = "finalizer"
    /\ ~cr.fin /\ (store # cr \/ cr.del)
    /\ pc' = "clients"
    /\ UNCHANGED <<apiVars, dirty, delayed, workVars, cleaned, bad, fails>>

AddFinalizerRefused ==
    /\ pc = "finalizer"
    /\ ~cr.fin /\ (store # cr \/ cr.del)
    /\ pc' = "fail"
    /\ UNCHANGED <<apiVars, dirty, delayed, workVars, cleaned, bad, fails>>

(* getSvcClients, and the branch on WasDeleted.                            *)
Clients ==
    /\ pc = "clients"
    /\ pc' = IF cr.del THEN "delete" ELSE "run"
    /\ UNCHANGED <<apiVars, dirty, delayed, workVars, cleaned, bad, fails>>

-----------------------------------------------------------------------------
(* The delete pipeline ends; its result is not looked at.                  *)
DeletePipeline ==
    /\ pc = "delete"
    /\ cleaned' = cleaned \cup {cr.uid}
    /\ pc' = "remove"
    /\ UNCHANGED <<apiVars, dirty, delayed, workVars, bad, fails>>

(* RemoveFinalizer: NotFound is ignored, a conflict is not.                *)
RemoveFinalizer ==
    /\ pc = "remove"
    /\ \/ store = cr /\ store' = Settle([store EXCEPT !.fin = FALSE]) /\ Return
       \/ store = None /\ UNCHANGED store /\ Return
       \/ store \notin {cr, None} /\ pc' = "fail" /\ UNCHANGED <<store, workVars>>
    /\ Notify
    /\ UNCHANGED <<created, applied, dirty, delayed, cleaned, bad, fails>>

-----------------------------------------------------------------------------
(* The apply pipeline ends with all of its output.                         *)
ApplyPipeline ==
    /\ pc = "run"
    /\ todo' = Child \cup {Self}
    /\ pc' = "apply"
    /\ UNCHANGED <<apiVars, dirty, delayed, cr, status, x, cleaned, bad, fails>>

(* It fails and leaves a part of it; the result is not looked at.          *)
ApplyPipelineFails(part) ==
    /\ pc = "run"
    /\ fails < MaxFail /\ fails' = fails + 1
    /\ part # Child \cup {Self}
    /\ todo' = part
    /\ bad' = bad \cup {<<x.uid, x.spec>>}
    /\ pc' = "apply"
    /\ UNCHANGED <<apiVars, dirty, delayed, cr, status, x, cleaned>>

(* Output of another kind is created or patched.                           *)
ApplyChild(c) ==
    /\ pc = "apply"
    /\ c \in todo
    /\ todo' = todo \ {c}
    /\ applied' = [applied EXCEPT ![c] = <<x.uid, x.spec>>]
    /\ cleaned' = cleaned \ {x.uid}
    /\ UNCHANGED <<store, event, created, dirty, delayed, pc, cr, status, x, bad, fails>>

(* Output of the CR's kind replaces cr: it was computed from x and has x's *)
(* version.                                                                *)
ApplySelf ==
    /\ pc = "apply"
    /\ Self \in todo
    /\ todo' = todo \ {Self}
    /\ cr' = x /\ status' = x.spec
    /\ UNCHANGED <<apiVars, dirty, delayed, pc, x, cleaned, bad, fails>>

(* Status().Update ends the apply branch; a conflict, or NotFound, is      *)
(* returned.                                                               *)
StatusUpdate ==
    /\ pc = "apply" /\ todo = {}
    /\ store' = IF store = cr THEN [store EXCEPT !.status = status] ELSE store
    /\ delayed' = (delayed \/ store # cr)
    /\ Return
    /\ Notify
    /\ UNCHANGED <<created, applied, dirty, cleaned, bad, fails>>

-----------------------------------------------------------------------------
(* A call of the API server or a service fails, for any other reason.      *)
CallFails ==
    /\ \/ pc \in {"clients", "remove"}
       \/ pc = "finalizer" /\ ~cr.fin
       \/ pc = "apply" /\ todo \ {Self} # {}
    /\ fails < MaxFail /\ fails' = fails + 1
    /\ pc' = "fail"
    /\ UNCHANGED <<apiVars, dirty, delayed, workVars, cleaned, bad>>

StatusUpdateFails ==
    /\ pc = "apply" /\ todo = {}
    /\ fails < MaxFail /\ fails' = fails + 1
    /\ delayed' = TRUE
    /\ Return
    /\ UNCHANGED <<apiVars, dirty, cleaned, bad>>

\* Mutant: an early return asks for no other turn.
FailForgets ==
    /\ pc = "fail"
    /\ store' = IF store = cr THEN [store EXCEPT !.status = status] ELSE store
    /\ Return
    /\ Notify
    /\ UNCHANGED <<created, applied, dirty, delayed, cleaned, bad, fails>>

(* An early return: the status is updated, or not; Requeue, RequeueAfter   *)
(* or the error of the update brings the CR back.                          *)
Fail ==
    /\ pc = "fail"
    /\ \/ UNCHANGED store
       \/ store = cr /\ store' = [store EXCEPT !.status = status]
    /\ delayed' = TRUE
    /\ Return
    /\ Notify
    /\ UNCHANGED <<created, applied, dirty, cleaned, bad, fails>>

Reconcile ==
    \/ Get \/ AddFinalizer \/ AddFinalizerRefused \/ Clients
    \/ DeletePipeline \/ RemoveFinalizer
    \/ ApplyPipeline \/ ApplySelf \/ \E c \in Child : ApplyChild(c)
    \/ StatusUpdate \/ Fail

Next ==
    \/ Reconcile
    \/ GetFails \/ CallFails \/ StatusUpdateFails
    \/ \E part \in SUBSET (Child \cup {Self}) : ApplyPipelineFails(part)
    \/ Observe \/ Resync \/ DelayOver
    \/ \E other \in BOOLEAN : Create(other)
    \/ Update \/ Delete \/ ReleaseOther

Spec == Init /\ [][Next]_vars

(* The worker runs, the watch delivers, delays end and other owners let a  *)
(* deleted CR go; the resync is not relied on.                             *)
FairSpec ==
    /\ Spec
    /\ WF_vars(Reconcile) /\ WF_vars(Observe) /\ WF_vars(DelayOver)
    /\ WF_vars(ReleaseOther)

-----------------------------------------------------------------------------
\* What the record of a CR may hold.
Object == [uid : 0 .. MaxUid, spec : 0 .. MaxSpec, del : BOOLEAN, fin : BOOLEAN,
           other : BOOLEAN, status : 0 .. MaxSpec]

(* Type correctness; while the apply branch runs the CR in the API server  *)
(* keeps its finalizer.                                                    *)
TypeOK ==
    /\ store \in Object /\ event \in BOOLEAN /\ cr \in Object /\ x \in Object
    /\ created \in 0 .. MaxUid /\ status \in 0 .. MaxSpec
    /\ applied \in [Child -> (0 .. MaxUid) \X (0 .. MaxSpec)]
    /\ dirty \in BOOLEAN /\ delayed \in BOOLEAN
    /\ pc \in {"idle", "finalizer", "clients", "delete", "remove", "run", "apply", "fail"}
    /\ pc \in {"run", "apply"} => store.uid = x.uid /\ store.fin
    /\ todo \subseteq Child \cup {Self}
    /\ cleaned \subseteq 1 .. MaxUid
    /\ bad \subseteq (1 .. MaxUid) \X (1 .. MaxSpec)
    /\ fails \in 0 .. MaxFail

(* When a CR is gone, its delete pipeline has run after everything that    *)
(* was applied for it, also when it was deleted during an apply, or        *)
(* created again before an event has told that it is gone.                 *)
CleanedBeforeGone ==
    \A c \in Child : applied[c][1] \notin {0, store.uid} => applied[c][1] \in cleaned

\* Children and status of creation u are those of spec v.
InPlace(u, v) ==
    /\ \A c \in Child : applied[c] = <<u, v>>
    /\ store.uid = u /\ store.status = v

Current(u, v) == store.uid = u /\ store.spec = v /\ ~store.del

(* Children and status follow the spec, through conflicts, failed calls    *)
(* and late events, unless the pipeline itself has failed on that spec.    *)
Converges ==
    \A u \in 1 .. MaxUid, v \in 1 .. MaxSpec :
        Current(u, v) ~> (InPlace(u, v) \/ ~Current(u, v) \/ <<u, v>> \in bad)

(* A deleted CR goes.                                                      *)
DeletionEnds ==
    \A u \in 1 .. MaxUid : (store.uid = u /\ store.del) ~> (store.uid # u)

-----------------------------------------------------------------------------
(* controller.go:49-51: Reconcile ensures that the state of the system     *)
(* matches the state specified in the object.                              *)
AlwaysConverges ==
    \A u \in 1 .. MaxUid, v \in 1 .. MaxSpec :
        Current(u, v) ~> (InPlace(u, v) \/ ~Current(u, v))
=============================================================================
