---------------------------- MODULE SPReconciler ----------------------------
(***************************************************************************)
(* The generic reconcile loop of pkg/spruntime/spreconciler.go: one worker *)
(* that takes the object from the queue and runs Reconcile.  Each step     *)
(* makes one call to an API server or reads one shared variable, so that   *)
(* everything else may happen between two steps.                           *)
(*                                                                         *)
(* at names the call the worker makes next.  The labels resolve to hr and  *)
(* count to get belong to the domain reconciler, module KroReconciler.     *)
(***************************************************************************)
EXTENDS ControlPlanes

VARIABLES
  at,    \* where the worker is
  obj,   \* Reconcile's obj, the object in memory
  old,   \* the status of Reconcile's oldObj
  lock,  \* obj and oldObj differ in resourceVersion, so that the status
         \* patch carries it and is refused when the object has changed
  conf,  \* providerConfigCopy
  seen,  \* the managed objects found ready (create) or still there (delete)
  next,  \* Delete's loop: the index in Order of the object it is at
  retry  \* Reconcile returns an error or a positive RequeueAfter

workerVars == <<at, obj, old, lock, conf, seen, next, retry>>
vars == <<worldVars, workerVars>>

\* The labels of createOrUpdate and of delete after the config is loaded.
CreateLabels == {"finGet", "finPut", "access", "resolve", "pullSecret", "oci",
                 "imageSecrets", "kubeconfig", "crds", "hr"}
DeleteLabels == {"arCheck", "dAccess", "count", "del", "get", "arDelete",
                 "finDel"}
Labels == {"idle", "consume", "load", "status"} \cup CreateLabels
             \cup DeleteLabels

\* Delete's list of objects.
Order == [i \in 1 .. 3 |-> IF i = 1 THEN "oci" ELSE
                           IF i = 2 THEN "hr" ELSE "crds"]

WorkerTypeOK ==
  /\ at \in Labels
  /\ obj \in Kro \cup {NoKro}
  /\ old \in KroStatus
  /\ lock \in BOOLEAN
  /\ conf \in Config \cup {NoConfig}
  /\ seen \in SUBSET Managed
  /\ next \in 1 .. 3
  /\ retry \in BOOLEAN

\* The worker has nothing in hand.
Idle ==
  /\ at' = "idle"
  /\ obj' = NoKro
  /\ old' = ZeroStatus
  /\ lock' = FALSE
  /\ conf' = NoConfig
  /\ seen' = {}
  /\ next' = 1
  /\ retry' = FALSE
  /\ fresh' = FALSE

WorkerInit ==
  /\ at = "idle"
  /\ obj = NoKro
  /\ old = ZeroStatus
  /\ lock = FALSE
  /\ conf = NoConfig
  /\ seen = {}
  /\ next = 1
  /\ retry = FALSE

\* The call is answered, or fails without an effect.
Works == UNCHANGED faults

\* Continue with o in memory, or leave for the deferred status update.
GoTo(label, o) == at' = label /\ obj' = o /\ UNCHANGED retry
Return(o, again) == at' = "status" /\ obj' = o /\ retry' = again

\* Mutant: no fallback to the poll interval.
PollsNever == FALSE

\* Reconcile's fallback, when nothing else asks for a requeue.
Polls == PollInterval > 0

\* What most steps of the worker leave alone.
Others == UNCHANGED <<offer, rgds, cfg, edits>>
World == UNCHANGED <<kro, queued, timer, fresh>>
Platform == UNCHANGED <<flux, chart, have, values, live, replicas>>
Locals == UNCHANGED <<old, lock, conf, seen, next>>

-----------------------------------------------------------------------------
\* Reconcile up to oldObj, without a reconcile annotation to consume.
Begin(o) ==
  /\ obj' = o
  /\ old' = o.status
  /\ lock' = FALSE
  /\ fresh' = TRUE
  /\ at' = "load"
  /\ UNCHANGED <<conf, seen, next, retry>>

GetObject ==
  /\ at = "idle" /\ queued
  /\ queued' = FALSE
  /\ \/ /\ Fault
        /\ timer' = TRUE
        /\ UNCHANGED <<workerVars, fresh>>
     \/ /\ kro # NoKro => kro.op = "ignore"
        /\ UNCHANGED <<workerVars, timer, fresh, faults>>
     \/ /\ kro # NoKro /\ kro.op = "reconcile"
        /\ GoTo("consume", kro)
        /\ fresh' = TRUE
        /\ Locals
        /\ UNCHANGED <<timer, faults>>
     \/ /\ kro # NoKro /\ kro.op = "none"
        /\ Begin(kro)
        /\ UNCHANGED <<timer, faults>>
  /\ UNCHANGED <<kro, access>>
  /\ Platform /\ Others

\* The patch has no precondition: it removes the annotation whatever its
\* value is by now.
ConsumeAnnotation ==
  /\ at = "consume"
  /\ \/ /\ Fault \/ (kro = NoKro /\ Works)
        /\ timer' = TRUE
        /\ Idle
        /\ UNCHANGED <<kro, queued>>
     \/ /\ kro # NoKro /\ Works
        /\ LET patched == [kro EXCEPT !.op = "none"] IN
             kro' = patched /\ Begin(patched)
        /\ queued' = (queued \/ kro.op # "none")
        /\ UNCHANGED timer
  /\ UNCHANGED access
  /\ Platform /\ Others

LoadConfig ==
  /\ at = "load"
  /\ \/ /\ cfg = NoConfig
        /\ Return(StatusProgressing(obj, "ReconcileError"), TRUE)
        /\ UNCHANGED conf
     \/ /\ cfg # NoConfig
        /\ conf' = cfg
        /\ GoTo(IF obj.deleting THEN "arCheck" ELSE "finGet", obj)
  /\ UNCHANGED <<old, lock, seen, next, access, faults>>
  /\ World /\ Platform /\ Others

-----------------------------------------------------------------------------
(***************************************************************************)
(* createOrUpdate.  The finalizer is set with controllerutil's             *)
(* CreateOrUpdate: a Get, then an Update if the finalizer was missing.     *)
(* When the Get finds nothing, it is a Create of an object that carries a  *)
(* resourceVersion, which the API server refuses.                          *)
(***************************************************************************)
CreateFails == Return(StatusProgressing(obj, "ReconcileError"), TRUE)

\* Mutant: the finalizer is taken to be there.
AddFinalizerNever ==
  /\ at = "finGet"
  /\ \/ /\ Fault \/ (kro = NoKro /\ Works)
        /\ CreateFails
        /\ UNCHANGED <<lock, fresh>>
     \/ /\ kro # NoKro /\ Works
        /\ GoTo("access", kro)
        /\ lock' = ~fresh
        /\ fresh' = TRUE
  /\ UNCHANGED <<kro, queued, timer, old, conf, seen, next, access>>
  /\ Platform /\ Others

\* Mutant: an object that is not found is created from the one in memory.
AddFinalizerCreates ==
  /\ at = "finGet"
  /\ LET o == [(IF kro = NoKro THEN obj ELSE kro) EXCEPT !.finalizer = TRUE] IN
       kro' = o /\ GoTo("access", o)
  /\ queued' = TRUE
  /\ lock' = TRUE
  /\ fresh' = TRUE
  /\ UNCHANGED <<timer, faults, old, conf, seen, next, access>>
  /\ Platform /\ Others

AddFinalizerGet ==
  /\ at = "finGet"
  /\ \/ /\ Fault \/ (kro = NoKro /\ Works)
        /\ CreateFails
        /\ UNCHANGED <<lock, fresh>>
     \/ /\ kro # NoKro /\ Works
        /\ GoTo(IF kro.finalizer THEN "access" ELSE "finPut", kro)
        /\ lock' = ~fresh
        /\ fresh' = TRUE
  /\ UNCHANGED <<kro, queued, timer, old, conf, seen, next, access>>
  /\ Platform /\ Others

\* The update is refused when the object has changed or gone since the Get.
AddFinalizerPut ==
  /\ at = "finPut"
  /\ \/ /\ Fault \/ (~fresh /\ Works)
        /\ CreateFails
        /\ UNCHANGED <<kro, queued, lock>>
     \/ /\ fresh /\ Works
        /\ LET o == [kro EXCEPT !.finalizer = TRUE] IN
             kro' = o /\ GoTo("access", o)
        /\ queued' = TRUE
        /\ lock' = TRUE
  /\ UNCHANGED <<timer, fresh, old, conf, seen, next, access>>
  /\ Platform /\ Others

\* ClusterAccessProvider.Reconcile: the requests that are missing are made.
RequestAccess(S) ==
  access' = [c \in Clusters |-> IF c \in S /\ access[c] = "absent"
                                THEN "pending" ELSE access[c]]

\* clusters(requireAll = true), then the first line of CreateOrUpdate.
EnsureClusters ==
  /\ at = "access"
  /\ \/ /\ Fault
        /\ \E S \in SUBSET Clusters : RequestAccess(S)
        /\ CreateFails
     \/ /\ ~AllGranted /\ Works
        /\ RequestAccess(Clusters)
        /\ Return(obj, TRUE)
     \/ /\ AllGranted /\ Works
        /\ GoTo("resolve", StatusProgressing(obj, "Reconciling"))
        /\ UNCHANGED access
  /\ Locals /\ World /\ Platform /\ Others

-----------------------------------------------------------------------------
(***************************************************************************)
(* delete.                                                                 *)
(***************************************************************************)
TerminatingFails ==
  Return(StatusTerminatingWithReason(obj, "ReconcileError"), TRUE)

\* Mutant: without the check, access is renewed while it is being revoked.
CheckNothing ==
  /\ at = "arCheck"
  /\ Works /\ GoTo("dAccess", obj)
  /\ UNCHANGED access
  /\ Locals /\ World /\ Platform /\ Others

\* areAccessRequestsInDeletion.
CheckAccessRequests ==
  /\ at = "arCheck"
  /\ \/ Fault /\ CreateFails
     \/ ~AccessUp /\ Works /\ GoTo("arDelete", obj)
     \/ AccessUp /\ Works /\ GoTo("dAccess", obj)
  /\ UNCHANGED access
  /\ Locals /\ World /\ Platform /\ Others

\* clusters(requireAll = false), then the first line of Delete: without
\* access the RGDs are not counted.
RenewAccess ==
  /\ at = "dAccess"
  /\ \/ /\ Fault
        /\ \E S \in SUBSET Clusters : RequestAccess(S)
        /\ TerminatingFails
     \/ /\ Works
        /\ RequestAccess(Clusters)
        /\ IF AllGranted
             THEN GoTo("count", StatusTerminating(obj))
             ELSE GoTo("del", SetResources(StatusTerminating(obj),
                                           TerminatingResources))
  /\ Locals /\ World /\ Platform /\ Others

\* ClusterAccessProvider.ReconcileDelete: the requests that exist are deleted.
RevokeAccess(S) ==
  access' = [c \in Clusters |-> IF c \in S /\ access[c] # "absent"
                                THEN "deleting" ELSE access[c]]

\* Mutant: the requests are deleted, their end is not waited for.
DeleteAccessHastily ==
  /\ at = "arDelete"
  /\ Works
  /\ RevokeAccess(Clusters)
  /\ GoTo("finDel", obj)
  /\ Locals /\ World /\ Platform /\ Others

DeleteAccess ==
  /\ at = "arDelete"
  /\ \/ /\ Fault
        /\ \E S \in SUBSET Clusters : RevokeAccess(S)
        /\ TerminatingFails
     \/ /\ ~NoAccess /\ Works
        /\ RevokeAccess(Clusters)
        /\ Return(obj, TRUE)
     \/ /\ NoAccess /\ Works
        /\ GoTo("finDel", obj)
        /\ UNCHANGED access
  /\ Locals /\ World /\ Platform /\ Others

\* The update is refused when the object has changed since Reconcile read it.
\* Its answer replaces obj, the status that was computed included.
RemoveFinalizer ==
  /\ at = "finDel"
  /\ \/ /\ Fault \/ (~fresh /\ Works)
        /\ TerminatingFails
        /\ UNCHANGED <<kro, queued, fresh>>
     \/ /\ fresh /\ Works
        /\ kro' = NoKro
        /\ queued' = TRUE
        /\ fresh' = FALSE
        /\ Return([kro EXCEPT !.finalizer = FALSE], Polls)
  /\ UNCHANGED <<timer, access>>
  /\ Locals /\ Platform /\ Others

-----------------------------------------------------------------------------
(***************************************************************************)
(* The deferred updateStatus, and the return to the queue.  The patch has  *)
(* the fields that differ from oldObj, and the resourceVersion if lock.    *)
(* Setting the Ready condition to False and back to True in one reconcile  *)
(* moves its lastTransitionTime, so that the patch may be empty up to that *)
(* time and still cause an event.                                          *)
(***************************************************************************)
UpdateStatus ==
  /\ at = "status"
  /\ \/ /\ obj.status = old \/ kro = NoKro
        /\ timer' = (timer \/ retry)
        /\ queued' \in {queued, queued \/ (kro # NoKro /\ old.phase = "Ready")}
        /\ Works
        /\ UNCHANGED kro
     \/ /\ obj.status # old /\ kro # NoKro
        /\ LET patched == MergePatch(kro.status, old, obj.status) IN
             \/ /\ \/ Fault
                   \/ Works /\ lock /\ ~fresh
                   \/ Works /\ ~ValidStatus(patched)
                /\ timer' = TRUE
                /\ UNCHANGED <<kro, queued>>
             \/ /\ ValidStatus(patched) /\ (lock => fresh) /\ Works
                /\ kro' = [kro EXCEPT !.status = patched]
                /\ queued' = TRUE
                /\ timer' = (timer \/ retry)
  /\ Idle
  /\ UNCHANGED access
  /\ Platform /\ Others

-----------------------------------------------------------------------------
\* The process stops and starts again: the initial list of the informer
\* queues the object, the cached ProviderConfig and the timers are gone.
Crash ==
  /\ Fault
  /\ Idle
  /\ cfg' = NoConfig
  /\ queued' = (kro # NoKro)
  /\ timer' = FALSE
  /\ UNCHANGED <<kro, offer, clusterVars, edits>>

SPNext ==
  \/ GetObject \/ ConsumeAnnotation \/ LoadConfig
  \/ AddFinalizerGet \/ AddFinalizerPut \/ EnsureClusters
  \/ CheckAccessRequests \/ RenewAccess \/ DeleteAccess \/ RemoveFinalizer
  \/ UpdateStatus
=============================================================================
