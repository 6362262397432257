-------------------------- MODULE ReconcilerProofs --------------------------
(***************************************************************************)
(* For any children and any number of creations, updates and failures: the *)
(* finalizer holds a resource until what was applied for it has been       *)
(* cleaned up.                                                             *)
(***************************************************************************)
EXTENDS Reconciler, TLAPS

Record == [uid : Nat, spec : Nat, del : BOOLEAN, fin : BOOLEAN, other : BOOLEAN, status : Nat]

\* A version of the CR: a record that is None when its uid is 0, of a
\* creation that has happened.
Version(o) == o \in Record /\ (o.uid = 0 => o = None) /\ o.uid <= created

Types ==
    /\ created \in Nat /\ status \in Nat
    /\ Version(store) /\ Version(cr) /\ Version(x)
    /\ applied \in [Child -> Nat \X Nat]
    /\ \A c \in Child : applied[c][1] <= created
    /\ pc \in {"idle", "finalizer", "clients", "delete", "remove", "run", "apply", "fail"}

\* What Reconcile knows of the CR it has read.
Knows ==
    /\ pc # "idle" => cr.uid # 0 /\ x.uid # 0
    /\ pc \in {"finalizer", "clients", "delete", "remove", "run"} => x.uid = cr.uid
    /\ pc \in {"finalizer", "clients"} /\ cr.fin /\ ~cr.del => store.uid = cr.uid /\ store.fin
    /\ pc \in {"clients", "run"} => cr.fin
    /\ pc \in {"run", "apply"} => store.uid = x.uid /\ store.fin
    /\ pc \in {"finalizer", "clients", "delete", "remove"} /\ cr.del =>
          (store.uid = cr.uid => store.del)
    /\ pc \in {"delete", "remove"} => cr.del
    /\ pc = "remove" => cr.uid \in cleaned

\* Without the finalizer there is nothing to clean up.
Guarded ==
    \A c \in Child : applied[c][1] = store.uid /\ store.uid # 0 /\ ~store.fin =>
        store.uid \in cleaned

IInv == Types /\ Knows /\ Guarded /\ CleanedBeforeGone

LEMMA InitIInv == Init => IInv
BY DEF Init, IInv, Types, Version, Record, None, Knows, Guarded, CleanedBeforeGone

\* The API server's part of a step that changes one field of the CR, or
\* lets it go; Reconcile's variables stay.
Touched ==
    /\ store' \in Record /\ store'.uid = store.uid /\ store'.uid # 0
    /\ store'.fin = store.fin
    /\ store.del => store'.del

Gone == store' = None /\ ~store.fin

LEMMA NoneRecord == None \in Record
BY DEF None, Record

\* When Reconcile has returned it knows nothing.
LEMMA Returned ==
  ASSUME IInv, Return, Version(store)', UNCHANGED <<created, applied>>
  PROVE  Types' /\ Knows'
<1>1. Version(None)'
  BY NoneRecord DEF IInv, Types, Version, None
<1>2. Types'
  BY <1>1 DEF IInv, Types, Version, Return
<1> QED
  BY <1>2 DEF Knows, Return

LEMMA TouchedOrGone ==
  ASSUME IInv, Touched \/ Gone, Return \/ UNCHANGED <<pc, workVars>>,
         UNCHANGED <<created, applied, cleaned>>
  PROVE  IInv'
<1> USE DEF workVars
<1>1. Types'
  <2>1. Version(store)'
    <3>1. CASE Touched
      BY <3>1 DEF IInv, Types, Version, Touched
    <3>2. CASE Gone
      <4>1. None.uid = 0
        BY DEF None
      <4> QED
        BY <3>2, <4>1, NoneRecord DEF IInv, Types, Version, Gone
    <3> QED
      BY <3>1, <3>2
  <2>2. CASE Return
    BY <2>1, <2>2, Returned
  <2>3. CASE UNCHANGED <<pc, workVars>>
    BY <2>1, <2>3 DEF IInv, Types, Version
  <2> QED
    BY <2>2, <2>3
<1>2. CASE Touched
  <2>1. Knows'
    BY <1>1, <1>2 DEF IInv, Types, Version, Record, Knows, Touched, Return
  <2>2. Guarded' /\ CleanedBeforeGone'
    BY <1>2 DEF IInv, Guarded, CleanedBeforeGone, Touched
  <2> QED
    BY <1>1, <2>1, <2>2 DEF IInv
<1>3. CASE Gone
  <2>1. store'.uid = 0 /\ ~store'.del /\ ~store'.fin
    BY <1>3 DEF Gone, None
  <2>2. Knows'
    BY <1>3, <2>1 DEF IInv, Types, Version, Record, None, Knows, Gone, Return
  <2>3. Guarded' /\ CleanedBeforeGone'
    BY <1>3, <2>1 DEF IInv, Guarded, CleanedBeforeGone, Gone
  <2> QED
    BY <1>1, <2>2, <2>3 DEF IInv
<1> QED
  BY <1>2, <1>3

\* Users and other owners, and the watch.
LEMMA StoreSteps ==
  ASSUME IInv, Update \/ Delete \/ ReleaseOther \/ Observe \/ Resync \/ DelayOver
                 \/ \E other \in BOOLEAN : Create(other)
  PROVE  IInv'
<1> USE DEF apiVars, workVars
<1>1. CASE Update \/ Delete \/ ReleaseOther
  <2>1. store.uid # 0 /\ store \in Record
    BY <1>1 DEF IInv, Types, Version, Record, None, Update, Delete, ReleaseOther
  <2>2. CASE Update
    BY <2>1, <2>2, TouchedOrGone DEF Update, Touched, Record
  <2>3. CASE Delete
    <3> DEFINE o == [store EXCEPT !.del = TRUE]
    <3>1. o \in Record /\ o.uid = store.uid /\ o.fin = store.fin /\ o.del
      BY <2>1 DEF Record
    <3>2. store' = o \/ (store' = None /\ ~o.fin)
      BY <2>3 DEF Delete, Settle
    <3> QED
      BY <2>1, <2>3, <3>1, <3>2, TouchedOrGone DEF Delete, Touched, Gone
  <2>4. CASE ReleaseOther
    <3> DEFINE o == [store EXCEPT !.other = FALSE]
    <3>1. o \in Record /\ o.uid = store.uid /\ o.fin = store.fin /\ o.del = store.del
      BY <2>1 DEF Record
    <3>2. store' = o \/ (store' = None /\ ~o.fin)
      BY <2>4 DEF ReleaseOther, Settle
    <3> QED
      BY <2>1, <2>4, <3>1, <3>2, TouchedOrGone DEF ReleaseOther, Touched, Gone
  <2> QED
    BY <1>1, <2>2, <2>3, <2>4
<1>2. CASE Observe
  BY <1>2 DEF Observe, IInv, Types, Version, Record, None, Knows, Guarded, CleanedBeforeGone
<1>3. CASE Resync \/ DelayOver
  BY <1>3 DEF Resync, DelayOver, IInv, Types, Version, Record, None, Knows, Guarded, CleanedBeforeGone
<1>4. ASSUME NEW other \in BOOLEAN, Create(other) PROVE IInv'
  <2>1. /\ store = None /\ created' = created + 1 /\ store'.uid = created'
        /\ ~store'.del /\ ~store'.fin /\ store' \in Record
        /\ UNCHANGED <<applied, pc, workVars, cleaned>>
    <3>1. store' = [uid |-> created', spec |-> 1, del |-> FALSE, fin |-> FALSE,
                    other |-> other, status |-> 0]
      BY <1>4 DEF Create, None
    <3>2. store = None /\ created' = created + 1 /\ created' \in Nat
          /\ UNCHANGED <<applied, pc, workVars, cleaned>>
      <4>1. created \in Nat
        BY DEF IInv, Types
      <4>2. store = None /\ created' = created + 1
            /\ UNCHANGED <<applied, pc, workVars, cleaned>>
        BY <1>4, Zenon DEF Create
      <4> QED
        BY <4>1, <4>2
    <3>3. store'.uid = created' /\ ~store'.del /\ ~store'.fin
      BY <3>1
    <3>4. store' \in Record
      BY <3>1, <3>2, Zenon DEF Record
    <3> QED
      BY <3>2, <3>3, <3>4
  <2>2. store.uid = 0 /\ ~store.fin
    BY <2>1 DEF None
  <2>3. Types'
    BY <2>1 DEF IInv, Types, Version, Record
  <2>4. Knows'
    BY <2>1, <2>2 DEF IInv, Types, Version, Record, None, Knows
  <2>5. Guarded' /\ CleanedBeforeGone'
    BY <2>1, <2>2 DEF IInv, Types, Guarded, CleanedBeforeGone
  <2> QED
    BY <2>3, <2>4, <2>5 DEF IInv
<1> QED
  BY <1>1, <1>2, <1>3, <1>4

\* The steps of Reconcile.
LEMMA ReconcileSteps ==
  ASSUME IInv, Reconcile \/ GetFails \/ CallFails \/ StatusUpdateFails
                 \/ \E part \in SUBSET (Child \cup {Self}) : ApplyPipelineFails(part)
  PROVE  IInv'
<1> USE DEF apiVars, workVars
<1>1. CASE Get \/ GetFails
  BY <1>1 DEF Get, GetFails, IInv, Types, Version, Record, None, Knows, Guarded, CleanedBeforeGone
<1>2. CASE AddFinalizer
  <2>1. CASE cr.fin
    BY <1>2, <2>1 DEF AddFinalizer, IInv, Types, Version, Knows, Guarded, CleanedBeforeGone
  <2>2. CASE ~cr.fin
    <3>1. /\ pc = "finalizer" /\ store = cr /\ ~cr.del /\ cr.uid # 0 /\ pc' = "clients"
          /\ store' = [store EXCEPT !.fin = TRUE] /\ cr' = store'
          /\ UNCHANGED <<created, applied, status, x, cleaned>>
      BY <1>2, <2>2 DEF AddFinalizer, IInv, Knows
    <3>2. store' \in Record /\ store'.uid = store.uid /\ store'.fin /\ store'.del = store.del
      BY <3>1 DEF IInv, Types, Version, Record
    <3>3. Version(store)' /\ Version(cr)'
      BY <3>1, <3>2 DEF IInv, Types, Version
    <3>4. Types'
      BY <3>1, <3>3 DEF IInv, Types, Version
    <3>5. Knows'
      BY <3>1, <3>2 DEF IInv, Knows
    <3>6. Guarded' /\ CleanedBeforeGone'
      BY <3>1, <3>2 DEF IInv, Guarded, CleanedBeforeGone
    <3> QED
      BY <3>4, <3>5, <3>6 DEF IInv
  <2> QED
    BY <2>1, <2>2
<1>3. CASE Clients
  BY <1>3 DEF Clients, IInv, Types, Version, Knows, Guarded, CleanedBeforeGone
<1>4. CASE DeletePipeline
  BY <1>4 DEF DeletePipeline, IInv, Types, Version, Knows, Guarded, CleanedBeforeGone
<1>5. CASE RemoveFinalizer
  <2>1. CASE store = cr
    <3>1. /\ pc = "remove" /\ cr.del /\ cr.uid \in cleaned /\ cr.uid # 0 /\ Return
          /\ store' = Settle([store EXCEPT !.fin = FALSE])
          /\ UNCHANGED <<created, applied, cleaned>>
      <4>1. pc = "remove" /\ cr.uid # 0 /\ cr.del /\ cr.uid \in cleaned
        BY <1>5 DEF RemoveFinalizer, IInv, Knows
      <4>2. store # None
        BY <2>1, <4>1 DEF None
      <4> QED
        BY <1>5, <2>1, <4>1, <4>2, Zenon DEF RemoveFinalizer
    <3>2. /\ store' \in Record /\ ~store'.fin
          /\ \/ store' = None
             \/ store'.uid = store.uid /\ store'.del
      BY <2>1, <3>1 DEF IInv, Types, Version, Record, Settle, None
    <3>3. Types' /\ Knows'
      <4>1. Version(store)'
        <5>1. store'.uid \in Nat /\ None.uid = 0
          BY <3>2 DEF Record, None
        <5>2. store' = None \/ (store'.uid = cr.uid /\ cr.uid # 0)
          BY <2>1, <3>1, <3>2 DEF IInv, Knows
        <5> QED
          BY <2>1, <3>1, <3>2, <5>1, <5>2 DEF IInv, Types, Version
      <4> QED
        BY <3>1, <4>1, Returned
    <3>4. Guarded' /\ CleanedBeforeGone'
      BY <2>1, <3>1, <3>2 DEF IInv, Types, None, Guarded, CleanedBeforeGone
    <3> QED
      BY <3>3, <3>4 DEF IInv
  <2>2. CASE store # cr
    <3>1. /\ store' = store /\ UNCHANGED <<created, applied, cleaned>>
          /\ Return \/ (pc' = "fail" /\ UNCHANGED workVars)
      BY <1>5, <2>2 DEF RemoveFinalizer
    <3>2. Types' /\ Knows'
      <4>1. CASE Return
        BY <3>1, <4>1, Returned DEF IInv, Types, Version
      <4>2. CASE pc' = "fail" /\ UNCHANGED workVars
        BY <1>5, <3>1, <4>2 DEF RemoveFinalizer, IInv, Types, Version, Knows
      <4> QED
        BY <3>1, <4>1, <4>2
    <3> QED
      BY <3>1, <3>2 DEF IInv, Guarded, CleanedBeforeGone
  <2> QED
    BY <2>1, <2>2
<1>6. ASSUME NEW c \in Child, ApplyChild(c) PROVE IInv'
  BY <1>6 DEF ApplyChild, IInv, Types, Version, Record, Knows, Guarded, CleanedBeforeGone
<1>7. CASE ApplySelf
  BY <1>7 DEF ApplySelf, IInv, Types, Version, Record, Knows, Guarded, CleanedBeforeGone
<1>8. CASE StatusUpdate \/ Fail
  <2>1. /\ store' = store \/ (store = cr /\ store' = [store EXCEPT !.status = status])
        /\ Return /\ UNCHANGED <<created, applied, cleaned>>
    BY <1>8, Zenon DEF StatusUpdate, Fail
  <2>2. CASE store = cr /\ store' = [store EXCEPT !.status = status]
    <3>1. store.uid # 0 /\ store \in Record /\ status \in Nat
      BY <1>8, <2>2 DEF StatusUpdate, Fail, IInv, Types, Version, Knows
    <3>2. Touched
      BY <2>2, <3>1 DEF Touched, Record
    <3> QED
      BY <2>1, <3>2, TouchedOrGone
  <2>3. CASE store' = store
    <3>1. Types' /\ Knows'
      BY <2>1, <2>3, Returned DEF IInv, Types, Version
    <3> QED
      BY <2>1, <2>3, <3>1 DEF IInv, Guarded, CleanedBeforeGone
  <2> QED
    BY <2>1, <2>2, <2>3
<1>9. CASE AddFinalizerRefused \/ ApplyPipeline \/ CallFails
           \/ \E part \in SUBSET (Child \cup {Self}) : ApplyPipelineFails(part)
  <2>1. /\ UNCHANGED <<store, created, applied, cr, status, x, cleaned>>
        /\ pc # "idle"
        /\ pc' = "fail" \/ (pc = "run" /\ pc' = "apply")
    BY <1>9 DEF AddFinalizerRefused, ApplyPipeline, CallFails, ApplyPipelineFails
  <2> QED
    BY <2>1 DEF IInv, Types, Version, Record, Knows, Guarded, CleanedBeforeGone
<1>10. CASE StatusUpdateFails
  <2>1. UNCHANGED <<store, created, applied, cleaned>> /\ Return
    BY <1>10, Zenon DEF StatusUpdateFails
  <2>2. Types' /\ Knows'
    BY <2>1, Returned DEF IInv, Types, Version
  <2> QED
    BY <2>1, <2>2 DEF IInv, Guarded, CleanedBeforeGone
<1> QED
  BY <1>1, <1>2, <1>3, <1>4, <1>5, <1>6, <1>7, <1>8, <1>9, <1>10 DEF Reconcile

LEMMA StepIInv == IInv /\ [Next]_vars => IInv'
<1>1. IInv /\ UNCHANGED vars => IInv'
  BY DEF vars, apiVars, workVars, IInv, Types, Version, Knows, Guarded, CleanedBeforeGone
<1> QED
  BY <1>1, StoreSteps, ReconcileSteps DEF Next

-----------------------------------------------------------------------------
(* A resource that is gone has had its delete pipeline run after the last  *)
(* thing applied for it (reconciler.go:99-144), however late the events    *)
(* are and whatever call of Reconcile fails.                               *)
THEOREM FinalizerHolds == Spec => []CleanedBeforeGone
<1>1. IInv => CleanedBeforeGone
  BY DEF IInv
<1> QED
  BY InitIInv, StepIInv, <1>1, PTL DEF Spec
=============================================================================
