-------------------------- MODULE KroProviderProofs --------------------------
(***************************************************************************)
(* Proofs about KroProvider, for all values of its constants.              *)
(***************************************************************************)
EXTENDS KroProvider, TLAPS

-----------------------------------------------------------------------------
(***************************************************************************)
(* The status functions keep an object an object and touch nothing of it   *)
(* but its status.                                                         *)
(***************************************************************************)
SameMeta(p, o) == /\ p.version = o.version
                  /\ p.deleting = o.deleting
                  /\ p.finalizer = o.finalizer
                  /\ p.op = o.op

\* SetStatusCondition, SetPhase and SetObservedGeneration write the status only.
LEMMA SetStatusFacts ==
  ASSUME NEW o \in Kro, NEW phase \in Phases, NEW ready \in {"False", "True"},
         NEW reason \in Reasons
  PROVE  /\ SetStatus(o, phase, ready, reason) \in Kro
         /\ SameMeta(SetStatus(o, phase, ready, reason), o)
  BY DEF SetStatus, Kro, KroStatus, Condition, SameMeta

\* The assignment to Status.Resources writes the status only.
LEMMA SetResourcesFacts ==
  ASSUME NEW o \in Kro, NEW resources \in [Managed -> ResourcePhases]
  PROVE  SetResources(o, resources) \in Kro /\ SameMeta(SetResources(o, resources), o)
  BY DEF SetResources, Kro, KroStatus, SameMeta

\* The four status functions that the reconcilers call.
LEMMA StatusFunctionFacts ==
  ASSUME NEW o \in Kro, NEW reason \in Reasons
  PROVE  /\ StatusProgressing(o, reason) \in Kro
         /\ SameMeta(StatusProgressing(o, reason), o)
         /\ StatusTerminatingWithReason(o, reason) \in Kro
         /\ SameMeta(StatusTerminatingWithReason(o, reason), o)
         /\ StatusTerminating(o) \in Kro
         /\ SameMeta(StatusTerminating(o), o)
         /\ StatusReady(o) \in Kro
         /\ SameMeta(StatusReady(o), o)
<1>1. /\ "Progressing" \in Phases /\ "Terminating" \in Phases /\ "Ready" \in Phases
      /\ "Terminating" \in Reasons /\ "ReconcileSuccess" \in Reasons
  BY DEF Phases, Reasons
<1>. QED  BY <1>1, SetStatusFacts DEF StatusProgressing, StatusReady,
             StatusTerminating, StatusTerminatingWithReason

\* The answer to a status patch is a status.
LEMMA MergePatchType ==
  ASSUME NEW cur \in KroStatus, NEW old1 \in KroStatus, NEW new1 \in KroStatus
  PROVE  MergePatch(cur, old1, new1) \in KroStatus
  BY DEF MergePatch, KroStatus

\* What the API server does to an object when one field is written.
LEMMA WriteFacts ==
  ASSUME NEW o \in Kro
  PROVE  /\ [o EXCEPT !.deleting = TRUE] \in Kro
         /\ [o EXCEPT !.finalizer = TRUE] \in Kro
         /\ [o EXCEPT !.finalizer = FALSE] \in Kro
         /\ \A v \in Versions : [o EXCEPT !.version = v] \in Kro
         /\ \A op \in Operations : [o EXCEPT !.op = op] \in Kro
         /\ \A s \in KroStatus : [o EXCEPT !.status = s] \in Kro
  BY DEF Kro

\* The status of a new object, and a new object, are well formed.
LEMMA NewKroType ==
  /\ ZeroStatus \in KroStatus
  /\ NoResources \in [Managed -> ResourcePhases]
  /\ TerminatingResources \in [Managed -> ResourcePhases]
  /\ \A v \in Versions : NewKro(v) \in Kro
<1>1. /\ NoResources \in [Managed -> ResourcePhases]
      /\ TerminatingResources \in [Managed -> ResourcePhases]
  BY DEF NoResources, TerminatingResources, ResourcePhases
<1>2. ZeroStatus \in KroStatus
  BY <1>1 DEF ZeroStatus, KroStatus, Condition, Phases, Reasons
<1>3. "none" \in Operations
  BY DEF Operations
<1>. QED  BY <1>1, <1>2, <1>3 DEF NewKro, Kro

-----------------------------------------------------------------------------
(***************************************************************************)
(* Type correctness.  It is inductive with what the worker has in hand at  *)
(* each label: an object once it is not idle, a ProviderConfig in          *)
(* createOrUpdate, and an object that exists when it is the current one.   *)
(***************************************************************************)
InHand ==
  /\ at # "idle" => obj \in Kro
  /\ at \in CreateLabels => conf \in Config
  /\ fresh => kro # NoKro

TypeInv == TypeOK /\ InHand

USE DEF Clusters, Managed, AccessStates, FluxStates

\* The budgets are kept.
LEMMA BudgetTypes ==
  /\ TypeInv /\ Edit => edits' \in 0 .. MaxEdits
  /\ TypeInv /\ Fault => faults' \in 0 .. MaxFaults
  BY BoundAssumption DEF TypeInv, TypeOK, WorldTypeOK, Edit, Fault

\* Each step of the users keeps the types.
LEMMA UserTypes == TypeInv /\ UserNext => TypeInv'
<1>. SUFFICES ASSUME TypeInv, UserNext PROVE TypeInv'
  OBVIOUS
<1>. USE DEF TypeInv, TypeOK, WorldTypeOK, WorkerTypeOK, InHand
<1>0. kro # NoKro => kro \in Kro
  OBVIOUS
<1>1. ASSUME NEW o \in Kro \cup {NoKro}, Write(o), Edit, UserRest,
             UNCHANGED workerVars
      PROVE  TypeInv'
  <2>1. edits' \in 0 .. MaxEdits
    BY <1>1, BudgetTypes
  <2>2. WorldTypeOK'
    BY <1>1, <2>1 DEF Write, UserRest, clusterVars
  <2>3. WorkerTypeOK' /\ InHand'
    BY <1>1 DEF Write, workerVars
  <2>. QED  BY <2>2, <2>3
<1>2. ASSUME NEW v \in Versions, Beside(CreateKro(v)) PROVE TypeInv'
  BY <1>1, <1>2, NewKroType DEF Beside, CreateKro
<1>3. ASSUME NEW v \in Versions, Beside(SetVersion(v)) PROVE TypeInv'
  BY <1>0, <1>1, <1>3, WriteFacts DEF Beside, SetVersion
<1>4. CASE Beside(DeleteKro)
  BY <1>0, <1>1, <1>4, WriteFacts DEF Beside, DeleteKro
<1>5. ASSUME NEW op \in Operations, Beside(Annotate(op)) PROVE TypeInv'
  BY <1>0, <1>1, <1>5, WriteFacts DEF Beside, Annotate
<1>6. CASE Beside(CreateRGD)
  BY <1>6, BoundAssumption DEF Beside, CreateRGD, Edit, RGDRest, workerVars
<1>7. CASE Beside(DeleteRGD)
  BY <1>7, BoundAssumption DEF Beside, DeleteRGD, Edit, RGDRest, workerVars
<1>8. ASSUME NEW o \in Offers \cup {NoConfig}, Beside(ApplyConfig(o))
      PROVE  TypeInv'
  BY <1>8, BoundAssumption, ConfigAssumption
     DEF Beside, ApplyConfig, Edit, clusterVars, workerVars
<1>. QED  BY <1>2, <1>3, <1>4, <1>5, <1>6, <1>7, <1>8 DEF UserNext

\* Each step of the platform and of the work queue keeps the types.
LEMMA PlatformTypes == TypeInv /\ PlatformNext => TypeInv'
<1>. SUFFICES ASSUME TypeInv, PlatformNext PROVE TypeInv'
  OBVIOUS
<1>. USE BoundAssumption
     DEF TypeInv, TypeOK, WorldTypeOK, WorkerTypeOK, InHand, workerVars,
         clusterVars, Beside, Fault
<1>1. CASE Beside(ConfigEvent)
  <2>1. queued' \in BOOLEAN
    BY <1>1, Zenon DEF ConfigEvent, EnqueueAllObjects
  <2>2. faults' \in 0 .. MaxFaults
    BY <1>1 DEF ConfigEvent, EnqueueAllObjects
  <2>. QED  BY <1>1, <2>1, <2>2 DEF ConfigEvent
<1>2. CASE Beside(ConfigReadError)
  <2>1. queued' \in BOOLEAN
    BY <1>2, Zenon DEF ConfigReadError
  <2>2. faults' \in 0 .. MaxFaults
    BY <1>2 DEF ConfigReadError
  <2>3. WorldTypeOK'
    BY <1>2, <2>1, <2>2 DEF ConfigReadError
  <2>4. WorkerTypeOK' /\ InHand'
    BY <1>2 DEF ConfigReadError
  <2>. QED  BY <2>3, <2>4
<1>3. CASE Beside(TimerFires)
  <2>1. WorldTypeOK'
    BY <1>3 DEF TimerFires
  <2>2. WorkerTypeOK' /\ InHand'
    BY <1>3 DEF TimerFires
  <2>. QED  BY <2>1, <2>2
<1>4. ASSUME NEW c \in Clusters, Beside(Grant(c)) PROVE TypeInv'
  BY <1>4 DEF Grant, AccessRest
<1>5. ASSUME NEW c \in Clusters, Beside(Lapse(c)) PROVE TypeInv'
  BY <1>5 DEF Lapse, AccessRest
<1>6. ASSUME NEW c \in Clusters, Beside(FinishRevoke(c)) PROVE TypeInv'
  BY <1>6 DEF FinishRevoke, AccessRest
<1>. QED  BY <1>1, <1>2, <1>3, <1>4, <1>5, <1>6 DEF PlatformNext

\* Each step of the Flux controllers keeps the types.
LEMMA FluxTypes == TypeInv /\ FluxNext => TypeInv'
<1>. SUFFICES ASSUME TypeInv, FluxNext PROVE TypeInv'
  OBVIOUS
<1>. USE BoundAssumption
     DEF TypeInv, TypeOK, WorldTypeOK, WorkerTypeOK, InHand, workerVars,
         Beside, Fault, FluxRest
<1>1. ASSUME NEW m \in Managed, Beside(FluxReconcile(m)) PROVE TypeInv'
  <2>1. Wanted(m) \in Charts \cup {NoChart}
    BY DEF Wanted
  <2>. QED  BY <1>1, <2>1 DEF FluxReconcile
<1>2. ASSUME NEW m \in Managed, Beside(FluxUnready(m)) PROVE TypeInv'
  BY <1>2 DEF FluxUnready
<1>3. ASSUME NEW m \in Managed, Beside(FluxFinalize(m)) PROVE TypeInv'
  BY <1>3 DEF FluxFinalize
<1>4. ASSUME NEW c \in Charts \ Private, Beside(Drift(c)) PROVE TypeInv'
  BY <1>4 DEF Drift
<1>. QED  BY <1>1, <1>2, <1>3, <1>4 DEF FluxNext

\* A poll is scheduled or it is not.
LEMMA PollsType == Polls \in BOOLEAN
  BY BoundAssumption DEF Polls

\* Where a step of the worker may leave the control and the object.
LEMMA ControlTypes ==
  ASSUME TypeInv
  PROVE  /\ \A o \in Kro, again \in BOOLEAN : Return(o, again)
              => at' = "status" /\ obj' \in Kro /\ retry' \in BOOLEAN
         /\ \A o \in Kro, label \in Labels : GoTo(label, o)
              => at' = label /\ obj' \in Kro /\ retry' \in BOOLEAN
         /\ at # "idle" /\ CreateFails
              => at' = "status" /\ obj' \in Kro /\ retry' \in BOOLEAN
         /\ at # "idle" /\ TerminatingFails
              => at' = "status" /\ obj' \in Kro /\ retry' \in BOOLEAN
         /\ Idle => /\ at' = "idle" /\ WorkerTypeOK' /\ fresh' = FALSE
         /\ \A S : RequestAccess(S) => access' \in [Clusters -> AccessStates]
         /\ \A S : RevokeAccess(S) => access' \in [Clusters -> AccessStates]
<1>. USE DEF TypeInv, TypeOK, WorkerTypeOK, InHand
<1>1. \A o \in Kro, again \in BOOLEAN : Return(o, again)
        => at' = "status" /\ obj' \in Kro /\ retry' \in BOOLEAN
  BY DEF Return
<1>2. \A o \in Kro, label \in Labels : GoTo(label, o)
        => at' = label /\ obj' \in Kro /\ retry' \in BOOLEAN
  BY DEF GoTo
<1>3. "ReconcileError" \in Reasons
  BY DEF Reasons
<1>4. at # "idle" /\ CreateFails
        => at' = "status" /\ obj' \in Kro /\ retry' \in BOOLEAN
  BY <1>1, <1>3, StatusFunctionFacts DEF CreateFails
<1>5. at # "idle" /\ TerminatingFails
        => at' = "status" /\ obj' \in Kro /\ retry' \in BOOLEAN
  BY <1>1, <1>3, StatusFunctionFacts DEF TerminatingFails
<1>6. Idle => at' = "idle" /\ WorkerTypeOK' /\ fresh' = FALSE
  <2>. SUFFICES ASSUME Idle PROVE WorkerTypeOK'
    BY Zenon DEF Idle
  <2>1. next' \in 1 .. 3
    BY DEF Idle
  <2>2. at' \in Labels /\ old' \in KroStatus
    BY NewKroType DEF Idle, Labels
  <2>. QED  BY <2>1, <2>2, Zenon DEF Idle
<1>7. \A S : RequestAccess(S) => access' \in [Clusters -> AccessStates]
  BY DEF RequestAccess, WorldTypeOK
<1>8. \A S : RevokeAccess(S) => access' \in [Clusters -> AccessStates]
  BY DEF RevokeAccess, WorldTypeOK
<1>. QED  BY <1>1, <1>2, <1>4, <1>5, <1>6, <1>7, <1>8

\* Each step of the generic reconcile loop, and a crash, keep the types.
LEMMA SPTypes == TypeInv /\ (SPNext \/ Crash) => TypeInv'
<1>. SUFFICES ASSUME TypeInv, SPNext \/ Crash PROVE TypeInv'
  OBVIOUS
<1>. USE DEF TypeInv, TypeOK, WorldTypeOK, WorkerTypeOK, InHand, Labels,
             CreateLabels, DeleteLabels, Works, Others, Locals, World, Platform
<1>0. /\ Fault => faults' \in 0 .. MaxFaults
      /\ kro # NoKro => kro \in Kro
  BY BudgetTypes
<1>a. ASSUME NEW o \in Kro, Begin(o)
      PROVE  WorkerTypeOK' /\ obj' = o /\ at' = "load" /\ fresh'
  BY <1>a DEF Begin, Kro
<1>1. CASE GetObject
  <2>1. CASE Fault /\ timer' = TRUE /\ UNCHANGED <<workerVars, fresh>>
    <3>1. faults' \in 0 .. MaxFaults
      BY <1>0, <2>1
    <3>2. WorldTypeOK'
      BY <1>1, <2>1, <3>1 DEF GetObject
    <3>3. WorkerTypeOK' /\ UNCHANGED <<kro, at, obj, conf, fresh>>
      BY <1>1, <2>1 DEF GetObject, workerVars
    <3>. QED  BY <3>2, <3>3
  <2>2. CASE UNCHANGED <<workerVars, timer, fresh, faults>>
    <3>1. /\ queued' = FALSE
          /\ UNCHANGED <<workerVars, timer, fresh, faults, kro, access, flux,
                          chart, have, values, live, replicas, offer, rgds,
                          cfg, edits>>
      BY <1>1, <2>2 DEF GetObject
    <3>2. WorldTypeOK'
      BY <3>1
    <3>3. WorkerTypeOK'
      BY <3>1 DEF workerVars
    <3>. QED  BY <3>1, <3>2, <3>3 DEF workerVars
  <2>3. CASE /\ kro # NoKro /\ GoTo("consume", kro) /\ fresh' = TRUE
             /\ Locals /\ UNCHANGED <<timer, faults>>
    <3>1. at' = "consume" /\ obj' \in Kro /\ retry' \in BOOLEAN
      BY <1>0, <2>3, ControlTypes
    <3>. QED  BY <1>1, <2>3, <3>1 DEF GetObject
  <2>4. CASE kro # NoKro /\ Begin(kro) /\ UNCHANGED <<timer, faults>>
    BY <1>0, <1>1, <1>a, <2>4 DEF GetObject
  <2>. QED  BY <1>1, <2>1, <2>2, <2>3, <2>4 DEF GetObject
<1>2. CASE ConsumeAnnotation
  <2>1. CASE /\ Fault \/ (kro = NoKro /\ Works)
             /\ timer' = TRUE /\ Idle /\ UNCHANGED <<kro, queued>>
    <3>1. at' = "idle" /\ WorkerTypeOK' /\ fresh' = FALSE
      BY <2>1, ControlTypes
    <3>2. faults' \in 0 .. MaxFaults
      BY <1>0, <2>1
    <3>3. WorldTypeOK'
      BY <1>2, <2>1, <3>1, <3>2 DEF ConsumeAnnotation
    <3>. QED  BY <3>1, <3>3
  <2>2. CASE /\ kro # NoKro /\ Works
             /\ kro' = [kro EXCEPT !.op = "none"]
             /\ Begin([kro EXCEPT !.op = "none"])
             /\ queued' = (queued \/ kro.op # "none")
             /\ UNCHANGED timer
    <3>1. kro' \in Kro
      BY <1>0, <2>2, WriteFacts DEF Operations
    <3>2. kro' # NoKro
      BY <3>1, NoKroAssumption
    <3>3. queued' \in BOOLEAN
      BY <2>2, Zenon
    <3>. QED  BY <1>2, <1>a, <2>2, <3>1, <3>2, <3>3 DEF ConsumeAnnotation
  <2>. QED  BY <1>2, <2>1, <2>2 DEF ConsumeAnnotation
<1>3. CASE LoadConfig
  <2>1. CASE Return(StatusProgressing(obj, "ReconcileError"), TRUE) /\ UNCHANGED conf
    <3>1. at' = "status" /\ obj' \in Kro /\ retry' \in BOOLEAN
      BY <1>3, <2>1, ControlTypes DEF LoadConfig, CreateFails
    <3>. QED  BY <1>3, <2>1, <3>1 DEF LoadConfig
  <2>2. CASE /\ cfg # NoConfig /\ conf' = cfg
             /\ GoTo(IF obj.deleting THEN "arCheck" ELSE "finGet", obj)
    <3>1. at' \in {"arCheck", "finGet"} /\ obj' \in Kro /\ retry' \in BOOLEAN
      BY <1>3, <2>2, ControlTypes DEF LoadConfig
    <3>. QED  BY <1>3, <2>2, <3>1 DEF LoadConfig
  <2>. QED  BY <1>3, <2>1, <2>2 DEF LoadConfig
<1>4. CASE AddFinalizerGet
  <2>1. CASE (Fault \/ Works) /\ CreateFails /\ UNCHANGED <<lock, fresh>>
    <3>1. at' = "status" /\ obj' \in Kro /\ retry' \in BOOLEAN
      BY <1>4, <2>1, ControlTypes DEF AddFinalizerGet
    <3>2. faults' \in 0 .. MaxFaults
      BY <1>0, <2>1
    <3>. QED  BY <1>4, <2>1, <3>1, <3>2 DEF AddFinalizerGet
  <2>2. CASE /\ kro # NoKro /\ Works /\ lock' = ~fresh /\ fresh' = TRUE
             /\ GoTo(IF kro.finalizer THEN "access" ELSE "finPut", kro)
    <3>1. at' \in {"access", "finPut"} /\ obj' \in Kro /\ retry' \in BOOLEAN
      BY <1>0, <2>2, ControlTypes
    <3>. QED  BY <1>4, <2>2, <3>1 DEF AddFinalizerGet
  <2>. QED  BY <1>4, <2>1, <2>2 DEF AddFinalizerGet
<1>5. CASE AddFinalizerPut
  <2>1. CASE (Fault \/ Works) /\ CreateFails /\ UNCHANGED <<kro, queued, lock>>
    <3>1. at' = "status" /\ obj' \in Kro /\ retry' \in BOOLEAN
      BY <1>5, <2>1, ControlTypes DEF AddFinalizerPut
    <3>2. faults' \in 0 .. MaxFaults
      BY <1>0, <2>1
    <3>. QED  BY <1>5, <2>1, <3>1, <3>2 DEF AddFinalizerPut
  <2>2. CASE /\ fresh /\ Works /\ queued' = TRUE /\ lock' = TRUE
             /\ kro' = [kro EXCEPT !.finalizer = TRUE]
             /\ GoTo("access", [kro EXCEPT !.finalizer = TRUE])
    <3>1. kro' \in Kro /\ kro' # NoKro
      BY <1>0, <2>2, WriteFacts, NoKroAssumption
    <3>2. at' = "access" /\ obj' \in Kro /\ retry' \in BOOLEAN
      BY <1>0, <2>2, <3>1, ControlTypes
    <3>. QED  BY <1>5, <2>2, <3>1, <3>2 DEF AddFinalizerPut
  <2>. QED  BY <1>5, <2>1, <2>2 DEF AddFinalizerPut
<1>6. CASE EnsureClusters
  <2>1. "Reconciling" \in Reasons
    BY DEF Reasons
  <2>2. access' \in [Clusters -> AccessStates] /\ faults' \in 0 .. MaxFaults
    BY <1>0, <1>6, ControlTypes DEF EnsureClusters
  <2>3. obj' \in Kro /\ at' \in {"status", "resolve"} /\ retry' \in BOOLEAN
    BY <1>6, <2>1, ControlTypes, StatusFunctionFacts DEF EnsureClusters
  <2>. QED  BY <1>6, <2>2, <2>3 DEF EnsureClusters
<1>7. CASE CheckAccessRequests
  <2>1. /\ obj' \in Kro /\ retry' \in BOOLEAN
        /\ at' \in {"status", "arDelete", "dAccess"}
    BY <1>7, ControlTypes DEF CheckAccessRequests
  <2>2. faults' \in 0 .. MaxFaults
    BY <1>0, <1>7 DEF CheckAccessRequests
  <2>. QED  BY <1>7, <2>1, <2>2 DEF CheckAccessRequests
<1>8. CASE RenewAccess
  <2>2. access' \in [Clusters -> AccessStates] /\ faults' \in 0 .. MaxFaults
    BY <1>0, <1>8, ControlTypes DEF RenewAccess
  <2>3. /\ StatusTerminating(obj) \in Kro
        /\ SetResources(StatusTerminating(obj), TerminatingResources) \in Kro
    BY <1>8, StatusFunctionFacts, SetResourcesFacts, NewKroType
       DEF RenewAccess, Reasons
  <2>4. obj' \in Kro /\ at' \in {"status", "count", "del"} /\ retry' \in BOOLEAN
    BY <1>8, <2>3, ControlTypes DEF RenewAccess
  <2>. QED  BY <1>8, <2>2, <2>4 DEF RenewAccess
<1>9. CASE DeleteAccess
  <2>2. access' \in [Clusters -> AccessStates] /\ faults' \in 0 .. MaxFaults
    BY <1>0, <1>9, ControlTypes DEF DeleteAccess
  <2>3. obj' \in Kro /\ at' \in {"status", "finDel"} /\ retry' \in BOOLEAN
    BY <1>9, ControlTypes DEF DeleteAccess
  <2>. QED  BY <1>9, <2>2, <2>3 DEF DeleteAccess
<1>10. CASE RemoveFinalizer
  <2>1. CASE (Fault \/ Works) /\ TerminatingFails /\ UNCHANGED <<kro, queued, fresh>>
    <3>1. at' = "status" /\ obj' \in Kro /\ retry' \in BOOLEAN
      BY <1>10, <2>1, ControlTypes DEF RemoveFinalizer
    <3>2. faults' \in 0 .. MaxFaults
      BY <1>0, <2>1
    <3>. QED  BY <1>10, <2>1, <3>1, <3>2 DEF RemoveFinalizer
  <2>2. CASE /\ fresh /\ Works /\ kro' = NoKro /\ queued' = TRUE /\ fresh' = FALSE
             /\ Return([kro EXCEPT !.finalizer = FALSE], Polls)
    <3>1. [kro EXCEPT !.finalizer = FALSE] \in Kro
      BY <1>0, <2>2, WriteFacts
    <3>2. at' = "status" /\ obj' \in Kro /\ retry' \in BOOLEAN
      BY <2>2, <3>1, ControlTypes, PollsType
    <3>. QED  BY <1>10, <2>2, <3>2 DEF RemoveFinalizer
  <2>. QED  BY <1>10, <2>1, <2>2 DEF RemoveFinalizer
<1>11. CASE UpdateStatus
  <2>1. kro' \in Kro \cup {NoKro}
    <3>1. ASSUME kro # NoKro
          PROVE  [kro EXCEPT !.status = MergePatch(kro.status, old, obj.status)]
                   \in Kro
      <4>1. kro.status \in KroStatus /\ obj.status \in KroStatus
        BY <1>0, <1>11, <3>1 DEF UpdateStatus, Kro
      <4>. QED  BY <1>0, <3>1, <4>1, MergePatchType, WriteFacts
    <3>. QED  BY <1>11, <3>1 DEF UpdateStatus
  <2>2. queued' \in BOOLEAN /\ timer' \in BOOLEAN
    BY <1>11, Zenon DEF UpdateStatus
  <2>3. faults' \in 0 .. MaxFaults
    BY <1>0, <1>11 DEF UpdateStatus
  <2>4. at' = "idle" /\ WorkerTypeOK' /\ fresh' = FALSE
    BY <1>11, ControlTypes DEF UpdateStatus
  <2>. QED  BY <1>11, <2>1, <2>2, <2>3, <2>4 DEF UpdateStatus
<1>12. CASE Crash
  BY <1>0, <1>12, ControlTypes DEF Crash, clusterVars
<1>. QED  BY <1>1, <1>2, <1>3, <1>4, <1>5, <1>6, <1>7, <1>8, <1>9, <1>10,
             <1>11, <1>12 DEF SPNext

\* Each step of the domain reconciler keeps the types.
LEMMA KroTypes == TypeInv /\ KroNext => TypeInv'
<1>. SUFFICES ASSUME TypeInv, KroNext PROVE TypeInv'
  OBVIOUS
<1>. USE DEF TypeInv, TypeOK, WorldTypeOK, WorkerTypeOK, InHand, Labels,
             CreateLabels, DeleteLabels, Works, Others, World, Platform, Domain
<1>0. Fault => faults' \in 0 .. MaxFaults
  BY BudgetTypes
<1>1. CASE ResolveVersion
  <2>1. /\ obj' \in Kro /\ retry' \in BOOLEAN
        /\ at' \in {"status", "pullSecret"}
    <3>1. obj \in Kro /\ StatusProgressing(obj, "ReconcileError") \in Kro
      BY <1>1, StatusFunctionFacts DEF ResolveVersion, Reasons
    <3>. QED  BY <1>1, <3>1, ControlTypes, PollsType DEF ResolveVersion
  <2>. QED  BY <1>1, <2>1 DEF ResolveVersion
<1>2. ASSUME NEW label \in CreateLabels, NEW secret, NEW needed,
             needed => secret \in Secrets,
             NEW then \in CreateLabels, Replicate(label, secret, needed, then)
      PROVE  TypeInv'
  <2>1. obj' \in Kro /\ retry' \in BOOLEAN /\ at' \in {"status", then}
    BY <1>2, ControlTypes DEF Replicate
  <2>2. faults' \in 0 .. MaxFaults
    BY <1>0, <1>2 DEF Replicate
  <2>3. replicas' \in SUBSET Secrets
    BY <1>2 DEF Replicate
  <2>. QED  BY <1>2, <2>1, <2>2, <2>3 DEF Replicate
<1>s. /\ \A e \in Private : /\ <<"chartPull", e>> \in Secrets
                            /\ <<"imagePull", e>> \in Secrets
      /\ Kubeconfig \in Secrets
  BY DEF Secrets
<1>3. CASE ReplicateChartPullSecret
  BY <1>2, <1>s, <1>3 DEF ReplicateChartPullSecret
<1>4. CASE ReplicateImagePullSecrets
  BY <1>2, <1>s, <1>4 DEF ReplicateImagePullSecrets
<1>5. CASE ReplicateMCPKubeconfig
  BY <1>2, <1>s, <1>5 DEF ReplicateMCPKubeconfig
<1>a. \A m \in Managed : Apply(m) => flux' \in [Managed -> FluxStates]
  BY DEF Apply
<1>b. \A m \in Managed : See(m) => seen' \in SUBSET Managed
  BY DEF See
<1>6. CASE CreateOrUpdateOCIRepository
  <2>1. /\ obj' \in Kro /\ retry' \in BOOLEAN
        /\ at' \in {"status", "imageSecrets"}
    BY <1>6, ControlTypes DEF CreateOrUpdateOCIRepository
  <2>2. faults' \in 0 .. MaxFaults
    BY <1>0, <1>6 DEF CreateOrUpdateOCIRepository
  <2>3. Desired("oci", chart) \in Charts \cup {NoChart}
    BY <1>6 DEF CreateOrUpdateOCIRepository, Desired, Entry, Config, Kro
  <2>4. /\ flux' \in [Managed -> FluxStates] /\ seen' \in SUBSET Managed
        /\ chart' \in Charts \cup {NoChart}
    BY <1>6, <1>a, <1>b, <2>3 DEF CreateOrUpdateOCIRepository
  <2>. QED  BY <1>6, <2>1, <2>2, <2>4 DEF CreateOrUpdateOCIRepository
<1>7. CASE CreateOrUpdateMCPCRDsHelmRelease
  <2>1. obj' \in Kro /\ retry' \in BOOLEAN /\ at' \in {"status", "hr"}
    BY <1>7, ControlTypes DEF CreateOrUpdateMCPCRDsHelmRelease
  <2>2. faults' \in 0 .. MaxFaults
    BY <1>0, <1>7 DEF CreateOrUpdateMCPCRDsHelmRelease
  <2>3. flux' \in [Managed -> FluxStates] /\ seen' \in SUBSET Managed
    BY <1>7, <1>a, <1>b DEF CreateOrUpdateMCPCRDsHelmRelease
  <2>. QED  BY <1>7, <2>1, <2>2, <2>3 DEF CreateOrUpdateMCPCRDsHelmRelease
<1>8. CASE CreateOrUpdateHelmRelease
  <2>1. ASSUME NEW ready \in SUBSET Managed PROVE Report(ready) \in Kro
    <3>1. [m \in Managed |-> IF m \in ready THEN "Ready" ELSE "Progressing"]
            \in [Managed -> ResourcePhases]
      BY DEF ResourcePhases
    <3>2. obj \in Kro
      BY <1>8 DEF CreateOrUpdateHelmRelease
    <3>3. ReportResources(ready) \in Kro
      BY <3>1, <3>2, SetResourcesFacts DEF ReportResources
    <3>. QED  BY <3>3, StatusFunctionFacts DEF Report, Reasons
  <2>2. flux' \in [Managed -> FluxStates] /\ seen' \in SUBSET Managed
    BY <1>8, <1>a, <1>b DEF CreateOrUpdateHelmRelease
  <2>3. at' = "status" /\ obj' \in Kro /\ retry' \in BOOLEAN
    BY <1>8, <2>1, <2>2, ControlTypes, PollsType DEF CreateOrUpdateHelmRelease
  <2>4. faults' \in 0 .. MaxFaults
    BY <1>0, <1>8 DEF CreateOrUpdateHelmRelease
  <2>5. Desired("hr", values) \in Charts \cup {NoChart}
    BY <1>8 DEF CreateOrUpdateHelmRelease, Desired, Entry, Config, Kro
  <2>6. values' \in Charts \cup {NoChart}
    BY <1>8, <2>5 DEF CreateOrUpdateHelmRelease
  <2>. QED  BY <1>8, <2>2, <2>3, <2>4, <2>6 DEF CreateOrUpdateHelmRelease
<1>9. CASE CountResourceGraphDefinitions
  <2>1. /\ SetResources(StatusTerminatingMessage(obj), TerminatingResources) \in Kro
        /\ SetResources(obj, TerminatingResources) \in Kro
    BY <1>9, StatusFunctionFacts, SetResourcesFacts, NewKroType
       DEF CountResourceGraphDefinitions, StatusTerminatingMessage, Reasons
  <2>2. obj' \in Kro /\ retry' \in BOOLEAN /\ at' \in {"status", "del"}
    BY <1>9, <2>1, ControlTypes DEF CountResourceGraphDefinitions
  <2>3. faults' \in 0 .. MaxFaults
    BY <1>0, <1>9 DEF CountResourceGraphDefinitions
  <2>. QED  BY <1>9, <2>2, <2>3 DEF CountResourceGraphDefinitions
<1>10. CASE DeleteObject
  <2>1. obj' \in Kro /\ retry' \in BOOLEAN /\ at' \in {"status", "get"}
    BY <1>10, ControlTypes DEF DeleteObject
  <2>2. faults' \in 0 .. MaxFaults
    BY <1>0, <1>10 DEF DeleteObject
  <2>3. flux' \in [Managed -> FluxStates]
    BY <1>10 DEF DeleteObject
  <2>. QED  BY <1>10, <2>1, <2>2, <2>3 DEF DeleteObject
<1>11. CASE GetDeletedObject
  <2>1. SetResources(obj, NoResources) \in Kro
    BY <1>11, SetResourcesFacts, NewKroType DEF GetDeletedObject
  <2>2. StatusReady(SetResources(obj, NoResources)) \in Kro
    BY <2>1, StatusFunctionFacts DEF Reasons
  <2>3. /\ obj' \in Kro /\ retry' \in BOOLEAN
        /\ at' \in {"status", "del", "arDelete"}
    BY <1>11, <2>2, ControlTypes DEF GetDeletedObject
  <2>4. faults' \in 0 .. MaxFaults
    BY <1>0, <1>11 DEF GetDeletedObject
  <2>5. next' \in 1 .. 3
    <3>1. (next < 3 /\ next' = next + 1) \/ next' = next
      BY <1>11, Zenon DEF GetDeletedObject
    <3>. QED  BY <3>1
  <2>6. seen' \in SUBSET Managed
    BY <1>11 DEF GetDeletedObject, Order
  <2>. QED  BY <1>11, <2>3, <2>4, <2>5, <2>6 DEF GetDeletedObject
<1>. QED  BY <1>1, <1>3, <1>4, <1>5, <1>6, <1>7, <1>8, <1>9, <1>10, <1>11
          DEF KroNext

\* The initial states are well typed.
LEMMA InitTypes == Init => TypeInv
<1>. SUFFICES ASSUME Init PROVE TypeInv
  OBVIOUS
<1>1. /\ rgds \in 0 .. MaxRGDs
      /\ edits \in 0 .. MaxEdits
      /\ faults \in 0 .. MaxFaults
      /\ next \in 1 .. 3
  BY BoundAssumption DEF Init, WorldInit, WorkerInit
<1>2. /\ access \in [Clusters -> AccessStates]
      /\ flux \in [Managed -> FluxStates]
      /\ have \in [Managed -> Charts \cup {NoChart}]
      /\ offer \in Config \cup {NoConfig}
  BY ConfigAssumption DEF Init, WorldInit
<1>3. WorldTypeOK
  BY <1>1, <1>2, Zenon DEF Init, WorldInit, WorldTypeOK
<1>4. at \in Labels /\ at \notin CreateLabels /\ old \in KroStatus
  BY NewKroType DEF Init, WorkerInit, Labels, CreateLabels
<1>5. WorkerTypeOK /\ InHand
  BY <1>1, <1>4, Zenon DEF Init, WorldInit, WorkerInit, WorkerTypeOK, InHand
<1>. QED  BY <1>3, <1>5 DEF TypeInv, TypeOK

\* Every step keeps the types.
LEMMA NextTypes == TypeInv /\ [Next]_vars => TypeInv'
<1>1. ASSUME TypeInv, UNCHANGED vars PROVE TypeInv'
  BY <1>1 DEF TypeInv, TypeOK, WorldTypeOK, WorkerTypeOK, InHand, vars,
              worldVars, workerVars, clusterVars
<1>. QED  BY <1>1, UserTypes, PlatformTypes, FluxTypes, SPTypes, KroTypes
          DEF Next, WorkerNext

\* Every reachable state is well typed, for any number of versions, entries,
\* edits and faults: the status functions, the API server's answers and the
\* worker's locals never leave their types at any label of the reconcilers.
THEOREM TypeCorrect == Spec => []TypeOK
<1>1. TypeInv => TypeOK
  BY DEF TypeInv
<1>. QED  BY <1>1, InitTypes, NextTypes, PTL DEF Spec

-----------------------------------------------------------------------------
(***************************************************************************)
(* Ownership.  None of NoOrphans, AccessOutlivesReleases and               *)
(* NoLeakedAccess is inductive: whether a step of the worker may create,   *)
(* revoke or release something rests on what it found out many calls ago.  *)
(* The invariant says what remains true of that at each label.             *)
(***************************************************************************)

\* The finalizer is set before createOrUpdate goes on to the clusters.
HeldLabels == {"access", "resolve", "pullSecret", "oci", "imageSecrets",
               "kubeconfig", "crds", "hr"}

\* Both access requests were there, and only the worker deletes them.
ReachLabels == {"resolve", "pullSecret", "oci", "imageSecrets", "kubeconfig",
                "crds", "hr", "dAccess", "count", "del", "get"}

\* The worker is in delete, or has read an object that takes it there.
Deleting == at \in DeleteLabels \/ (at = "load" /\ obj.deleting)

DeletingIsHeld == kro # NoKro /\ kro.deleting => kro.finalizer
CreateIsHeld   == at \in HeldLabels => Held
DeleteIsHeld   == Deleting => Held /\ kro.deleting
ReachIsUp      == at \in ReachLabels => AccessUp
TornDown       == /\ at \in {"arDelete", "finDel"} => Installed = {}
                  /\ at = "finDel" => NoAccess

\* Delete's loop starts at the first object, and an object it has passed
\* without seeing it is gone for good.
LoopStart  == at \in {"idle", "consume", "load", "arCheck", "dAccess", "count"}
                => next = 1
LoopPassed == at \in {"del", "get"}
                => \A i \in 1 .. 3 : i < next /\ Order[i] \notin seen
                                       => flux[Order[i]] = "absent"

\* What holds wherever the worker is, and what depends on its label.
Anywhere == DeletingIsHeld /\ AccessOutlivesReleases /\ NoLeakedAccess
AtLabel  == /\ CreateIsHeld /\ DeleteIsHeld /\ ReachIsUp /\ TornDown
            /\ LoopStart /\ LoopPassed

Ownership == Anywhere /\ AtLabel

\* A step of someone else keeps the ownership if it takes nothing away that
\* the worker relies on.
LEMMA OwnershipBeside ==
  ASSUME TypeInv, Ownership, UNCHANGED workerVars,
         DeletingIsHeld',
         Held => Held',
         Held /\ kro.deleting => kro'.deleting,
         AccessUp => AccessUp',
         NoAccess => NoAccess',
         \A m \in Managed : flux[m] = "absent" => flux'[m] = "absent"
  PROVE  Ownership'
<1>1. Installed' \subseteq Installed
  BY DEF Installed
<1>2. Anywhere'
  BY <1>1 DEF Ownership, Anywhere, AccessOutlivesReleases, NoLeakedAccess
<1>3. (CreateIsHeld /\ DeleteIsHeld)'
  BY DEF Ownership, AtLabel, CreateIsHeld, DeleteIsHeld, Deleting, workerVars
<1>4. (ReachIsUp /\ TornDown)'
  BY <1>1 DEF Ownership, AtLabel, ReachIsUp, TornDown, workerVars
<1>5. LoopStart'
  BY DEF Ownership, AtLabel, LoopStart, workerVars
<1>6. LoopPassed'
  <2>1. \A i \in 1 .. 3 : Order[i] \in Managed
    BY DEF Order
  <2>. QED  BY <2>1 DEF Ownership, AtLabel, LoopPassed, workerVars
<1>. QED  BY <1>2, <1>3, <1>4, <1>5, <1>6 DEF Ownership, AtLabel

\* The users' edits keep the ownership: an object is only removed at once
\* when it is not held, and a deletion mark is never taken back.
LEMMA UserOwnership == TypeInv /\ Ownership /\ UserNext => Ownership'
<1>. SUFFICES ASSUME TypeInv, Ownership, UserNext PROVE Ownership'
  OBVIOUS
<1>0. kro # NoKro => kro \in Kro
  BY DEF TypeInv, TypeOK, WorldTypeOK
<1>1. ASSUME UNCHANGED <<access, flux, workerVars>>,
             DeletingIsHeld',
             Held => Held',
             Held /\ kro.deleting => kro'.deleting
      PROVE  Ownership'
  BY <1>1, OwnershipBeside DEF AccessUp, NoAccess
<1>2. ASSUME UNCHANGED <<kro, access, flux, workerVars>> PROVE Ownership'
  BY <1>1, <1>2 DEF Ownership, Anywhere, DeletingIsHeld, Held
<1>. USE DEF Beside, Write, UserRest, clusterVars
<1>3. ASSUME NEW v \in Versions, Beside(CreateKro(v)) PROVE Ownership'
  <2>1. ~kro'.deleting
    BY <1>3 DEF CreateKro, NewKro
  <2>. QED  BY <1>1, <1>3, <2>1 DEF CreateKro, DeletingIsHeld, Held
<1>4. ASSUME NEW v \in Versions, Beside(SetVersion(v)) PROVE Ownership'
  <2>1. /\ kro' # NoKro
        /\ kro'.deleting = kro.deleting /\ kro'.finalizer = kro.finalizer
    BY <1>0, <1>4, WriteFacts, NoKroAssumption DEF SetVersion, Kro
  <2>. QED  BY <1>1, <1>4, <2>1 DEF SetVersion, DeletingIsHeld, Held,
               Ownership, Anywhere
<1>5. CASE Beside(DeleteKro)
  <2>1. CASE kro.finalizer
    <3>0. kro \in Kro /\ kro' = [kro EXCEPT !.deleting = TRUE]
      BY <1>0, <1>5, <2>1, Zenon DEF DeleteKro
    <3>1. kro' # NoKro
      BY <3>0, WriteFacts, NoKroAssumption
    <3>2. kro'.deleting /\ kro'.finalizer
      BY <2>1, <3>0 DEF Kro
    <3>. QED  BY <1>1, <1>5, <3>1, <3>2 DEF DeleteKro, DeletingIsHeld, Held
  <2>2. CASE ~kro.finalizer
    BY <1>1, <1>5, <2>2 DEF DeleteKro, DeletingIsHeld, Held
  <2>. QED  BY <2>1, <2>2
<1>6. ASSUME NEW op \in Operations, Beside(Annotate(op)) PROVE Ownership'
  <2>1. /\ kro' # NoKro
        /\ kro'.deleting = kro.deleting /\ kro'.finalizer = kro.finalizer
    BY <1>0, <1>6, WriteFacts, NoKroAssumption DEF Annotate, Kro
  <2>. QED  BY <1>1, <1>6, <2>1 DEF Annotate, DeletingIsHeld, Held,
               Ownership, Anywhere
<1>7. CASE Beside(CreateRGD)
  BY <1>2, <1>7 DEF CreateRGD, RGDRest
<1>8. CASE Beside(DeleteRGD)
  BY <1>2, <1>8 DEF DeleteRGD, RGDRest
<1>9. ASSUME NEW o \in Offers \cup {NoConfig}, Beside(ApplyConfig(o))
      PROVE  Ownership'
  BY <1>2, <1>9 DEF ApplyConfig
<1>. QED  BY <1>3, <1>4, <1>5, <1>6, <1>7, <1>8, <1>9 DEF UserNext

\* The platform and Flux keep the ownership: they grant what is requested,
\* remove only what is being deleted, and create nothing.
LEMMA WorldOwnership ==
  TypeInv /\ Ownership /\ (PlatformNext \/ FluxNext) => Ownership'
<1>. SUFFICES ASSUME TypeInv, Ownership, PlatformNext \/ FluxNext
              PROVE  Ownership'
  OBVIOUS
<1>0. /\ access \in [Clusters -> AccessStates]
      /\ flux \in [Managed -> FluxStates]
  BY DEF TypeInv, TypeOK, WorldTypeOK
<1>1. ASSUME UNCHANGED <<kro, workerVars>>,
             AccessUp => AccessUp',
             NoAccess => NoAccess',
             \A m \in Managed : flux[m] = "absent" => flux'[m] = "absent"
      PROVE  Ownership'
  BY <1>1, OwnershipBeside DEF Ownership, Anywhere, DeletingIsHeld, Held
<1>2. ASSUME UNCHANGED <<kro, access, flux, workerVars>> PROVE Ownership'
  BY <1>1, <1>2 DEF AccessUp, NoAccess
<1>. USE DEF Beside, clusterVars
<1>3. CASE Beside(ConfigEvent) \/ Beside(ConfigReadError) \/ Beside(TimerFires)
  BY <1>2, <1>3 DEF ConfigEvent, ConfigReadError, TimerFires
<1>4. ASSUME NEW c \in Clusters, Beside(Grant(c)) PROVE Ownership'
  BY <1>0, <1>1, <1>4 DEF Grant, AccessRest, AccessUp, NoAccess
<1>5. ASSUME NEW c \in Clusters, Beside(Lapse(c)) PROVE Ownership'
  BY <1>0, <1>1, <1>5 DEF Lapse, AccessRest, AccessUp, NoAccess
<1>6. ASSUME NEW c \in Clusters, Beside(FinishRevoke(c)) PROVE Ownership'
  BY <1>0, <1>1, <1>6 DEF FinishRevoke, AccessRest, AccessUp, NoAccess
<1>7. ASSUME NEW m \in Managed,
             \/ Beside(FluxReconcile(m))
             \/ Beside(FluxUnready(m))
             \/ Beside(FluxFinalize(m))
      PROVE  Ownership'
  <2>1. UNCHANGED <<kro, access, workerVars>>
    BY <1>7 DEF FluxReconcile, FluxUnready, FluxFinalize, FluxRest
  <2>2. \A n \in Managed : flux[n] = "absent" => flux'[n] = "absent"
    BY <1>0, <1>7 DEF FluxReconcile, FluxUnready, FluxFinalize
  <2>. QED  BY <1>1, <2>1, <2>2 DEF AccessUp, NoAccess
<1>8. ASSUME NEW c \in Charts \ Private, Beside(Drift(c)) PROVE Ownership'
  BY <1>2, <1>8 DEF Drift, FluxRest
<1>. QED  BY <1>3, <1>4, <1>5, <1>6, <1>7, <1>8 DEF PlatformNext, FluxNext

\* The worker relies on nothing when it leaves for the status update or has
\* come back from it.
LEMMA OwnershipAtRest ==
  at' = "status" \/ (at' = "idle" /\ next' = 1) => AtLabel'
  BY DEF AtLabel, CreateIsHeld, DeleteIsHeld, ReachIsUp, TornDown, LoopStart,
         LoopPassed, Deleting, HeldLabels, ReachLabels, DeleteLabels

\* A step that touches nothing but the worker's own state keeps Anywhere.
LEMMA AnywhereLocal ==
  Anywhere /\ UNCHANGED <<kro, access, flux>> => Anywhere'
  BY DEF Anywhere, DeletingIsHeld, AccessOutlivesReleases, NoLeakedAccess,
         Held, Installed, AccessUp, NoAccess

\* Each step of the generic reconcile loop, and a crash, keep the ownership.
LEMMA SPOwnership ==
  TypeInv /\ Ownership /\ (SPNext \/ Crash) => Ownership'
<1>. SUFFICES ASSUME TypeInv, Ownership, SPNext \/ Crash PROVE Ownership'
  OBVIOUS
<1>. USE DEF Ownership, Others, Locals, World, Platform, HeldLabels,
             ReachLabels, DeleteLabels
<1>0. /\ kro # NoKro => kro \in Kro
      /\ access \in [Clusters -> AccessStates]
  BY DEF TypeInv, TypeOK, WorldTypeOK
<1>a. ASSUME at' \in {"status", "idle"}, at' = "idle" => next' = 1,
             UNCHANGED <<kro, access, flux>>
      PROVE  Ownership'
  BY <1>a, OwnershipAtRest, AnywhereLocal
<1>b. /\ CreateFails => at' = "status"
      /\ TerminatingFails => at' = "status"
      /\ \A o, again : Return(o, again) => at' = "status"
      /\ \A label, o : GoTo(label, o) => at' = label /\ obj' = o
      /\ Idle => at' = "idle" /\ next' = 1
  BY DEF CreateFails, TerminatingFails, Return, GoTo, Idle
<1>c. \A o : Begin(o) => at' = "load" /\ obj' = o /\ next' = next
  BY DEF Begin
<1>1. CASE GetObject
  <2>1. CASE UNCHANGED workerVars
    BY <1>1, <2>1, OwnershipBeside
       DEF GetObject, Anywhere, DeletingIsHeld, Held, AccessUp, NoAccess
  <2>2. CASE kro # NoKro /\ GoTo("consume", kro) /\ Locals
    <3>1. AtLabel'
      BY <1>1, <1>b, <2>2 DEF GetObject, AtLabel, CreateIsHeld, DeleteIsHeld,
         ReachIsUp, TornDown, LoopStart, LoopPassed, Deleting
    <3>. QED  BY <1>1, <3>1, AnywhereLocal DEF GetObject
  <2>3. CASE kro # NoKro /\ Begin(kro)
    <3>1. Deleting' => Held' /\ kro'.deleting
      BY <1>1, <1>c, <2>3 DEF GetObject, Deleting, Anywhere, DeletingIsHeld,
         Held
    <3>2. AtLabel'
      BY <1>1, <1>c, <2>3, <3>1 DEF GetObject, AtLabel, CreateIsHeld,
         DeleteIsHeld, ReachIsUp, TornDown, LoopStart, LoopPassed
    <3>. QED  BY <1>1, <3>2, AnywhereLocal DEF GetObject
  <2>. QED  BY <1>1, <2>1, <2>2, <2>3 DEF GetObject, workerVars
<1>2. CASE ConsumeAnnotation
  <2>1. CASE Idle /\ UNCHANGED kro
    BY <1>2, <1>a, <1>b, <2>1 DEF ConsumeAnnotation
  <2>2. CASE /\ kro # NoKro /\ kro' = [kro EXCEPT !.op = "none"]
             /\ Begin([kro EXCEPT !.op = "none"])
    <3>1. /\ kro' # NoKro
          /\ kro'.deleting = kro.deleting /\ kro'.finalizer = kro.finalizer
      <4>1. kro \in Kro /\ kro' \in Kro
        BY <1>0, <2>2, WriteFacts DEF Operations
      <4>2. kro'.deleting = kro.deleting /\ kro'.finalizer = kro.finalizer
        BY <2>2, <4>1 DEF Kro
      <4>. QED  BY <4>1, <4>2, NoKroAssumption
    <3>2. Anywhere'
      BY <1>2, <2>2, <3>1 DEF ConsumeAnnotation, Anywhere, DeletingIsHeld,
         AccessOutlivesReleases, NoLeakedAccess, Held, Installed, AccessUp,
         NoAccess
    <3>3. Deleting' => Held' /\ kro'.deleting
      BY <1>c, <2>2, <3>1, <3>2 DEF Deleting, Anywhere, DeletingIsHeld, Held
    <3>4. AtLabel'
      BY <1>2, <1>c, <2>2, <3>3 DEF ConsumeAnnotation, AtLabel, CreateIsHeld,
         DeleteIsHeld, ReachIsUp, TornDown, LoopStart, LoopPassed
    <3>. QED  BY <3>2, <3>4
  <2>. QED  BY <1>2, <2>1, <2>2 DEF ConsumeAnnotation
<1>3. CASE LoadConfig
  <2>1. CASE at' = "status"
    BY <1>3, <1>a, <2>1 DEF LoadConfig
  <2>2. CASE GoTo(IF obj.deleting THEN "arCheck" ELSE "finGet", obj)
    <3>1. at' = "arCheck" => Held /\ kro.deleting
      BY <1>3, <1>b, <2>2 DEF LoadConfig, AtLabel, DeleteIsHeld, Deleting
    <3>2. AtLabel'
      BY <1>3, <1>b, <2>2, <3>1 DEF LoadConfig, AtLabel, CreateIsHeld, Held,
         DeleteIsHeld, ReachIsUp, TornDown, LoopStart, LoopPassed, Deleting
    <3>. QED  BY <1>3, <3>2, AnywhereLocal DEF LoadConfig
  <2>. QED  BY <1>3, <1>b, <2>1, <2>2 DEF LoadConfig
<1>4. CASE AddFinalizerGet
  <2>1. CASE at' = "status"
    BY <1>4, <1>a, <2>1 DEF AddFinalizerGet
  <2>2. CASE /\ kro # NoKro
             /\ GoTo(IF kro.finalizer THEN "access" ELSE "finPut", kro)
    <3>1. at' = "access" => Held
      BY <1>b, <2>2 DEF Held
    <3>2. AtLabel'
      BY <1>4, <1>b, <2>2, <3>1 DEF AddFinalizerGet, AtLabel, CreateIsHeld,
         Held, DeleteIsHeld, ReachIsUp, TornDown, LoopStart, LoopPassed,
         Deleting
    <3>. QED  BY <1>4, <3>2, AnywhereLocal DEF AddFinalizerGet
  <2>. QED  BY <1>4, <1>b, <2>1, <2>2 DEF AddFinalizerGet
<1>5. CASE AddFinalizerPut
  <2>1. CASE at' = "status" /\ UNCHANGED kro
    BY <1>5, <1>a, <2>1 DEF AddFinalizerPut
  <2>2. CASE /\ fresh /\ kro' = [kro EXCEPT !.finalizer = TRUE]
             /\ GoTo("access", [kro EXCEPT !.finalizer = TRUE])
    <3>0. kro \in Kro
      BY <1>0, <2>2 DEF TypeInv, InHand
    <3>1. kro' # NoKro /\ kro'.finalizer
      <4>1. kro' \in Kro
        BY <2>2, <3>0, WriteFacts
      <4>2. kro'.finalizer
        BY <2>2, <3>0 DEF Kro
      <4>. QED  BY <4>1, <4>2, NoKroAssumption
    <3>2. Anywhere'
      BY <1>5, <3>1 DEF AddFinalizerPut, Anywhere, DeletingIsHeld,
         AccessOutlivesReleases, NoLeakedAccess, Held, Installed, AccessUp,
         NoAccess
    <3>3. AtLabel'
      BY <1>b, <2>2, <3>1 DEF AtLabel, CreateIsHeld, Held, DeleteIsHeld,
         ReachIsUp, TornDown, LoopStart, LoopPassed, Deleting
    <3>. QED  BY <3>2, <3>3
  <2>. QED  BY <1>5, <1>b, <2>1, <2>2 DEF AddFinalizerPut
<1>6. CASE EnsureClusters
  <2>1. Held
    BY <1>6 DEF EnsureClusters, AtLabel, CreateIsHeld
  <2>2. \A c \in Clusters : access[c] \in {"pending", "granted"}
                              => access'[c] = access[c]
    BY <1>0, <1>6 DEF EnsureClusters, RequestAccess
  <2>3. Anywhere'
    BY <1>6, <2>1, <2>2 DEF EnsureClusters, Anywhere, DeletingIsHeld,
       AccessOutlivesReleases, NoLeakedAccess, Held, Installed, AccessUp
  <2>4. CASE at' = "status"
    BY <2>3, <2>4, OwnershipAtRest
  <2>5. CASE AllGranted /\ at' = "resolve"
    <3>1. AccessUp'
      BY <2>2, <2>5 DEF AllGranted, AccessUp
    <3>2. AtLabel'
      BY <1>6, <2>1, <2>5, <3>1 DEF EnsureClusters, AtLabel, CreateIsHeld,
         Held, DeleteIsHeld, ReachIsUp, TornDown, LoopStart, LoopPassed,
         Deleting
    <3>. QED  BY <2>3, <3>2
  <2>. QED  BY <1>6, <1>b, <2>4, <2>5 DEF EnsureClusters
<1>7. CASE CheckAccessRequests
  <2>1. Held /\ kro.deleting /\ next = 1
    BY <1>7 DEF CheckAccessRequests, AtLabel, DeleteIsHeld, Deleting, LoopStart
  <2>2. CASE at' = "status"
    BY <1>7, <1>a, <2>2 DEF CheckAccessRequests
  <2>3. CASE ~AccessUp /\ at' = "arDelete"
    <3>1. Installed = {}
      BY <2>3 DEF Anywhere, AccessOutlivesReleases
    <3>2. AtLabel'
      BY <1>7, <2>1, <2>3, <3>1 DEF CheckAccessRequests, AtLabel, Installed,
         CreateIsHeld, Held, DeleteIsHeld, ReachIsUp, TornDown, LoopStart,
         LoopPassed, Deleting
    <3>. QED  BY <1>7, <3>2, AnywhereLocal DEF CheckAccessRequests
  <2>4. CASE AccessUp /\ at' = "dAccess"
    <3>1. AtLabel'
      BY <1>7, <2>1, <2>4 DEF CheckAccessRequests, AtLabel, AccessUp,
         CreateIsHeld, Held, DeleteIsHeld, ReachIsUp, TornDown, LoopStart,
         LoopPassed, Deleting
    <3>. QED  BY <1>7, <3>1, AnywhereLocal DEF CheckAccessRequests
  <2>. QED  BY <1>7, <1>b, <2>2, <2>3, <2>4 DEF CheckAccessRequests
<1>8. CASE RenewAccess
  <2>1. Held /\ kro.deleting /\ next = 1 /\ AccessUp
    BY <1>8 DEF RenewAccess, AtLabel, DeleteIsHeld, Deleting, LoopStart,
       ReachIsUp
  <2>2. access' = access
    BY <1>0, <1>8, <2>1 DEF RenewAccess, RequestAccess, AccessUp
  <2>3. CASE at' = "status"
    BY <1>8, <1>a, <2>2, <2>3 DEF RenewAccess
  <2>4. CASE at' \in {"count", "del"}
    <3>1. AtLabel'
      BY <1>8, <2>1, <2>2, <2>4 DEF RenewAccess, AtLabel, AccessUp,
         CreateIsHeld, Held, DeleteIsHeld, ReachIsUp, TornDown, LoopStart,
         LoopPassed, Deleting
    <3>. QED  BY <1>8, <2>2, <3>1, AnywhereLocal DEF RenewAccess
  <2>. QED  BY <1>8, <1>b, <2>3, <2>4 DEF RenewAccess
<1>9. CASE DeleteAccess
  <2>1. Held /\ kro.deleting /\ Installed = {}
    BY <1>9 DEF DeleteAccess, AtLabel, DeleteIsHeld, Deleting, TornDown
  <2>2. Anywhere'
    BY <1>9, <2>1 DEF DeleteAccess, Anywhere, DeletingIsHeld,
       AccessOutlivesReleases, NoLeakedAccess, Held, Installed
  <2>3. CASE at' = "status"
    BY <2>2, <2>3, OwnershipAtRest
  <2>4. CASE NoAccess /\ at' = "finDel" /\ UNCHANGED access
    <3>1. AtLabel'
      BY <1>9, <2>1, <2>4 DEF DeleteAccess, AtLabel, NoAccess, Installed,
         CreateIsHeld, Held, DeleteIsHeld, ReachIsUp, TornDown, LoopStart,
         LoopPassed, Deleting
    <3>. QED  BY <2>2, <3>1
  <2>. QED  BY <1>9, <1>b, <2>3, <2>4 DEF DeleteAccess
<1>10. CASE RemoveFinalizer
  <2>1. Installed = {} /\ NoAccess
    BY <1>10 DEF RemoveFinalizer, AtLabel, TornDown
  <2>2. CASE kro' = NoKro
    BY <1>10, <1>b, <2>1, <2>2, OwnershipAtRest DEF RemoveFinalizer, Anywhere,
       DeletingIsHeld, AccessOutlivesReleases, NoLeakedAccess, Installed,
       NoAccess
  <2>3. CASE UNCHANGED kro
    BY <1>10, <1>a, <1>b, <2>3 DEF RemoveFinalizer
  <2>. QED  BY <1>10, <2>2, <2>3 DEF RemoveFinalizer
<1>11. CASE UpdateStatus
  <2>1. CASE UNCHANGED kro
    BY <1>11, <1>a, <1>b, <2>1 DEF UpdateStatus
  <2>2. ASSUME kro # NoKro, NEW s \in KroStatus, kro' = [kro EXCEPT !.status = s]
        PROVE  Ownership'
    <3>1. /\ kro' # NoKro
          /\ kro'.deleting = kro.deleting /\ kro'.finalizer = kro.finalizer
      BY <1>0, <2>2, WriteFacts, NoKroAssumption DEF Kro
    <3>2. Anywhere'
      BY <1>11, <2>2, <3>1 DEF UpdateStatus, Anywhere, DeletingIsHeld,
         AccessOutlivesReleases, NoLeakedAccess, Held, Installed, AccessUp,
         NoAccess
    <3>. QED  BY <1>11, <1>b, <3>2, OwnershipAtRest DEF UpdateStatus
  <2>3. kro # NoKro => MergePatch(kro.status, old, obj.status) \in KroStatus
    <3>1. kro # NoKro => kro.status \in KroStatus
      BY <1>0 DEF Kro
    <3>2. obj.status \in KroStatus /\ old \in KroStatus
      BY <1>11 DEF UpdateStatus, TypeInv, TypeOK, WorkerTypeOK, InHand, Kro
    <3>. QED  BY <3>1, <3>2, MergePatchType
  <2>. QED  BY <1>11, <2>1, <2>2, <2>3 DEF UpdateStatus
<1>12. CASE Crash
  BY <1>12, <1>a, <1>b DEF Crash, clusterVars
<1>. QED  BY <1>1, <1>2, <1>3, <1>4, <1>5, <1>6, <1>7, <1>8, <1>9, <1>10,
             <1>11, <1>12 DEF SPNext

\* Each step of the domain reconciler keeps the ownership: it creates while
\* the finalizer is set and access is up, and its loop comes to an end only
\* when every object is gone.
LEMMA KroOwnership == TypeInv /\ Ownership /\ KroNext => Ownership'
<1>. SUFFICES ASSUME TypeInv, Ownership, KroNext PROVE Ownership'
  OBVIOUS
<1>. USE DEF Ownership, Others, World, Platform, Domain, HeldLabels,
             ReachLabels, DeleteLabels
<1>0. /\ flux \in [Managed -> FluxStates] /\ next \in 1 .. 3
      /\ seen \in SUBSET Managed
      /\ \A i \in 1 .. 3 : Order[i] \in Managed
  BY DEF TypeInv, TypeOK, WorldTypeOK, WorkerTypeOK, Order
<1>a. ASSUME at' = "status", UNCHANGED <<kro, access, flux>> PROVE Ownership'
  BY <1>a, OwnershipAtRest, AnywhereLocal
<1>b. /\ CreateFails => at' = "status"
      /\ TerminatingFails => at' = "status"
      /\ \A o, again : Return(o, again) => at' = "status"
      /\ \A label, o : GoTo(label, o) => at' = label /\ obj' = o
  BY DEF CreateFails, TerminatingFails, Return, GoTo
<1>c. ASSUME at \in HeldLabels \cap ReachLabels,
             at' \in HeldLabels \cap ReachLabels,
             UNCHANGED <<kro, access>>
      PROVE  AtLabel'
  <2>1. Held /\ AccessUp /\ ~Deleting'
    BY <1>c DEF AtLabel, CreateIsHeld, ReachIsUp, Deleting
  <2>. QED  BY <1>c, <2>1 DEF AtLabel, CreateIsHeld, Held, DeleteIsHeld,
            ReachIsUp, AccessUp, TornDown, LoopStart, LoopPassed
<1>d. ASSUME at \in HeldLabels \cap ReachLabels, UNCHANGED <<kro, access>>
      PROVE  Anywhere'
  <2>1. Held /\ AccessUp
    BY <1>d DEF AtLabel, CreateIsHeld, ReachIsUp
  <2>. QED  BY <1>d, <2>1 DEF Anywhere, DeletingIsHeld, NoLeakedAccess,
            AccessOutlivesReleases, Held, AccessUp
<1>1. CASE ResolveVersion
  <2>1. at' \in {"status", "pullSecret"}
    BY <1>1, <1>b DEF ResolveVersion
  <2>. QED  BY <1>1, <1>c, <1>d, <2>1, OwnershipAtRest DEF ResolveVersion
<1>2. ASSUME NEW label \in HeldLabels \cap ReachLabels, NEW secret, NEW needed,
             NEW then \in HeldLabels \cap ReachLabels,
             Replicate(label, secret, needed, then)
      PROVE  Ownership'
  <2>1. at = label /\ at' \in {"status", then}
    BY <1>2, <1>b DEF Replicate
  <2>2. UNCHANGED <<kro, access>>
    BY <1>2 DEF Replicate
  <2>. QED  BY <1>c, <1>d, <2>1, <2>2, OwnershipAtRest
<1>3. CASE \/ ReplicateChartPullSecret
           \/ ReplicateImagePullSecrets
           \/ ReplicateMCPKubeconfig
  BY <1>2, <1>3 DEF ReplicateChartPullSecret, ReplicateImagePullSecrets,
                    ReplicateMCPKubeconfig
<1>4. CASE CreateOrUpdateOCIRepository
  <2>1. at' \in {"status", "imageSecrets"}
    BY <1>4, <1>b DEF CreateOrUpdateOCIRepository
  <2>. QED  BY <1>4, <1>c, <1>d, <2>1, OwnershipAtRest
            DEF CreateOrUpdateOCIRepository
<1>5. CASE CreateOrUpdateMCPCRDsHelmRelease
  <2>1. at' \in {"status", "hr"}
    BY <1>5, <1>b DEF CreateOrUpdateMCPCRDsHelmRelease
  <2>. QED  BY <1>5, <1>c, <1>d, <2>1, OwnershipAtRest
            DEF CreateOrUpdateMCPCRDsHelmRelease
<1>6. CASE CreateOrUpdateHelmRelease
  <2>1. at' = "status"
    BY <1>6, <1>b DEF CreateOrUpdateHelmRelease
  <2>. QED  BY <1>6, <1>d, <2>1, OwnershipAtRest DEF CreateOrUpdateHelmRelease
<1>e. ASSUME at \in {"count", "del", "get"}
      PROVE  Held /\ kro.deleting /\ AccessUp
  BY <1>e DEF AtLabel, DeleteIsHeld, Deleting, ReachIsUp
<1>7. CASE CountResourceGraphDefinitions
  <2>1. CASE at' = "status"
    BY <1>7, <1>a, <2>1 DEF CountResourceGraphDefinitions
  <2>2. CASE at' = "del"
    <3>1. next = 1
      BY <1>7 DEF CountResourceGraphDefinitions, AtLabel, LoopStart
    <3>2. AtLabel'
      BY <1>7, <1>e, <2>2, <3>1 DEF CountResourceGraphDefinitions, AtLabel,
         CreateIsHeld, Held, DeleteIsHeld, ReachIsUp, AccessUp, TornDown,
         LoopStart, LoopPassed, Deleting
    <3>. QED  BY <1>7, <3>2, AnywhereLocal DEF CountResourceGraphDefinitions
  <2>. QED  BY <1>7, <1>b, <2>1, <2>2 DEF CountResourceGraphDefinitions
<1>8. CASE DeleteObject
  <2>1. \A m \in Managed : flux[m] = "absent" => flux'[m] = "absent"
    BY <1>0, <1>8 DEF DeleteObject
  <2>2. Anywhere'
    BY <1>8, <1>e DEF DeleteObject, Anywhere, DeletingIsHeld, NoLeakedAccess,
       AccessOutlivesReleases, Held, AccessUp
  <2>3. CASE at' = "status"
    BY <2>2, <2>3, OwnershipAtRest
  <2>4. CASE at' = "get"
    <3>1. LoopPassed'
      BY <1>0, <1>8, <2>1, <2>4 DEF DeleteObject, AtLabel, LoopPassed
    <3>2. AtLabel'
      BY <1>8, <1>e, <2>4, <3>1 DEF DeleteObject, AtLabel, CreateIsHeld, Held,
         DeleteIsHeld, ReachIsUp, AccessUp, TornDown, LoopStart, Deleting
    <3>. QED  BY <2>2, <3>2
  <2>. QED  BY <1>8, <1>b, <2>3, <2>4 DEF DeleteObject
<1>9. CASE GetDeletedObject
  <2>1. /\ seen \subseteq seen'
        /\ Order[next] \notin seen' => flux[Order[next]] = "absent"
    BY <1>9 DEF GetDeletedObject
  <2>2. \A i \in 1 .. 3 : i <= next /\ Order[i] \notin seen'
                            => flux[Order[i]] = "absent"
    BY <1>0, <1>9, <2>1 DEF GetDeletedObject, AtLabel, LoopPassed
  <2>3. UNCHANGED <<kro, access, flux>>
    BY <1>9 DEF GetDeletedObject
  <2>4. Anywhere'
    BY <2>3, AnywhereLocal
  <2>5. CASE at' = "status"
    BY <2>4, <2>5, OwnershipAtRest
  <2>6. CASE next < 3 /\ next' = next + 1 /\ at' = "del"
    <3>1. LoopPassed'
      BY <1>0, <2>2, <2>3, <2>6 DEF LoopPassed
    <3>2. AtLabel'
      BY <1>9, <1>e, <2>3, <2>6, <3>1 DEF GetDeletedObject, AtLabel,
         CreateIsHeld, Held, DeleteIsHeld, ReachIsUp, AccessUp, TornDown,
         LoopStart, Deleting
    <3>. QED  BY <2>4, <3>2
  <2>7. CASE next = 3 /\ seen' = {} /\ at' = "arDelete"
    <3>1. \A i \in 1 .. 3 : flux[Order[i]] = "absent"
      BY <2>2, <2>7
    <3>2. Order[1] = "oci" /\ Order[2] = "hr" /\ Order[3] = "crds"
      BY DEF Order
    <3>3. Installed = {}
      BY <3>1, <3>2 DEF Installed
    <3>4. AtLabel'
      BY <1>9, <1>e, <2>3, <2>7, <3>3 DEF GetDeletedObject, AtLabel, Installed,
         CreateIsHeld, Held, DeleteIsHeld, ReachIsUp, TornDown, LoopStart,
         LoopPassed, Deleting
    <3>. QED  BY <2>4, <3>4
  <2>. QED  BY <1>9, <1>b, <2>5, <2>6, <2>7 DEF GetDeletedObject
<1>. QED  BY <1>1, <1>3, <1>4, <1>5, <1>6, <1>7, <1>8, <1>9 DEF KroNext

\* The types and the ownership together are an inductive invariant.
LEMMA OwnershipInvariant == Spec => [](TypeInv /\ Ownership)
<1>1. Init => TypeInv /\ Ownership
  <2>. SUFFICES ASSUME Init PROVE Ownership
    BY InitTypes
  <2>1. Installed = {} /\ NoAccess /\ kro = NoKro
    BY DEF Init, WorldInit, Installed, NoAccess
  <2>2. at = "idle" /\ next = 1
    BY DEF Init, WorkerInit
  <2>. QED  BY <2>1, <2>2 DEF Ownership, Anywhere, AtLabel, DeletingIsHeld,
            AccessOutlivesReleases, NoLeakedAccess, CreateIsHeld, DeleteIsHeld,
            ReachIsUp, TornDown, LoopStart, LoopPassed, Deleting, HeldLabels,
            ReachLabels, DeleteLabels
<1>2. TypeInv /\ Ownership /\ [Next]_vars => (TypeInv /\ Ownership)'
  <2>1. ASSUME TypeInv, Ownership, UNCHANGED vars PROVE Ownership'
    BY <2>1, OwnershipBeside DEF vars, worldVars, clusterVars, Ownership,
       Anywhere, DeletingIsHeld, Held, AccessUp, NoAccess
  <2>. QED  BY <2>1, NextTypes, UserOwnership, WorldOwnership, SPOwnership,
            KroOwnership DEF Next, WorkerNext
<1>. QED  BY <1>1, <1>2, PTL DEF Spec

\* No Flux object exists without a Kro that holds it with its finalizer,
\* whatever users, faults, crashes and the platform do in between.
THEOREM NoOrphansHolds == Spec => []NoOrphans
<1>1. Ownership => NoOrphans
  <2>. SUFFICES ASSUME Ownership, Installed # {} PROVE Held
    BY DEF NoOrphans
  <2>1. AccessUp
    BY DEF Ownership, Anywhere, AccessOutlivesReleases
  <2>2. ~NoAccess
    BY <2>1 DEF AccessUp, NoAccess
  <2>. QED  BY <2>2 DEF Ownership, Anywhere, NoLeakedAccess
<1>. QED  BY <1>1, OwnershipInvariant, PTL

\* No access request is missing or in deletion while a Flux object exists.
THEOREM AccessOutlivesReleasesHolds == Spec => []AccessOutlivesReleases
<1>1. Ownership => AccessOutlivesReleases
  BY DEF Ownership, Anywhere
<1>. QED  BY <1>1, OwnershipInvariant, PTL

\* No access request exists without a Kro that is held.
THEOREM NoLeakedAccessHolds == Spec => []NoLeakedAccess
<1>1. Ownership => NoLeakedAccess
  BY DEF Ownership, Anywhere
<1>. QED  BY <1>1, OwnershipInvariant, PTL

-----------------------------------------------------------------------------
(***************************************************************************)
(* No lost wakeup.  With a poll interval every return of Reconcile asks to *)
(* be called again, so that the worker never becomes idle without a timer, *)
(* unless it was told to ignore the object or the object is gone.          *)
(***************************************************************************)
Returning == PollInterval > 0 /\ at = "status" => retry

\* A step of someone else takes no wakeup away: whoever writes the object or
\* stops a timer queues a request.
LEMMA WakeupBeside ==
  TypeInv /\ NoLostWakeup /\ Returning
     /\ (UserNext \/ PlatformNext \/ FluxNext) => (NoLostWakeup /\ Returning)'
<1>. SUFFICES ASSUME TypeInv, NoLostWakeup, Returning,
                     UserNext \/ PlatformNext \/ FluxNext
              PROVE  (NoLostWakeup /\ Returning)'
  OBVIOUS
<1>1. ASSUME UNCHANGED workerVars, queued' = TRUE
      PROVE  (NoLostWakeup /\ Returning)'
  BY <1>1, Zenon DEF NoLostWakeup, Returning, workerVars
<1>2. ASSUME UNCHANGED <<workerVars, kro, timer>>, queued => queued'
      PROVE  (NoLostWakeup /\ Returning)'
  BY <1>2, Zenon DEF NoLostWakeup, Returning, workerVars
<1>3. CASE UserNext
  <2>1. UNCHANGED workerVars
    BY <1>3 DEF UserNext, Beside
  <2>2. queued' = TRUE \/ UNCHANGED <<kro, timer, queued>>
    BY <1>3 DEF UserNext, Beside, CreateKro, SetVersion, DeleteKro, Annotate,
       CreateRGD, DeleteRGD, ApplyConfig, Write, RGDRest
  <2>. QED  BY <1>1, <1>2, <2>1, <2>2
<1>4. CASE PlatformNext
  <2>1. UNCHANGED workerVars
    BY <1>4 DEF PlatformNext, Beside
  <2>2. queued' = TRUE \/ (UNCHANGED <<kro, timer>> /\ (queued => queued'))
    <3>1. CASE Beside(ConfigEvent)
      BY <3>1, Zenon DEF Beside, ConfigEvent, EnqueueAllObjects
    <3>2. CASE Beside(ConfigReadError)
      BY <3>2, Zenon DEF Beside, ConfigReadError
    <3>3. CASE Beside(TimerFires)
      BY <3>3, Zenon DEF Beside, TimerFires
    <3>4. ASSUME NEW c \in Clusters,
                 Beside(Grant(c)) \/ Beside(Lapse(c)) \/ Beside(FinishRevoke(c))
          PROVE  UNCHANGED <<kro, timer, queued>>
      BY <3>4 DEF Beside, Grant, Lapse, FinishRevoke, AccessRest
    <3>. QED  BY <1>4, <3>1, <3>2, <3>3, <3>4 DEF PlatformNext
  <2>. QED  BY <1>1, <1>2, <2>1, <2>2
<1>5. CASE FluxNext
  <2>1. UNCHANGED <<workerVars, kro, timer, queued>>
    BY <1>5 DEF FluxNext, Beside, FluxReconcile, FluxUnready, FluxFinalize,
       Drift, FluxRest
  <2>. QED  BY <1>2, <2>1
<1>. QED  BY <1>3, <1>4, <1>5

\* A step of the worker leaves a request or a timer when it becomes idle.
LEMMA WakeupWorker ==
  TypeInv /\ NoLostWakeup /\ Returning /\ (WorkerNext \/ Crash)
    => (NoLostWakeup /\ Returning)'
<1>. SUFFICES ASSUME TypeInv, NoLostWakeup, Returning, WorkerNext \/ Crash
              PROVE  (NoLostWakeup /\ Returning)'
  OBVIOUS
<1>1. ASSUME at' \notin {"idle", "status"} PROVE (NoLostWakeup /\ Returning)'
  BY <1>1 DEF NoLostWakeup, Returning
<1>2. ASSUME at' = "status", PollInterval > 0 => retry'
      PROVE  (NoLostWakeup /\ Returning)'
  BY <1>2 DEF NoLostWakeup, Returning
<1>3. ASSUME at' = "idle", timer' PROVE (NoLostWakeup /\ Returning)'
  BY <1>3 DEF NoLostWakeup, Returning
<1>a. /\ CreateFails => at' = "status" /\ retry'
      /\ TerminatingFails => at' = "status" /\ retry'
      /\ \A o : Return(o, TRUE) => at' = "status" /\ retry'
      /\ \A o : Return(o, Polls) => at' = "status" /\ (PollInterval > 0 => retry')
      /\ \A label, o : GoTo(label, o) => at' = label
      /\ Idle => at' = "idle"
      /\ \A o : Begin(o) => at' = "load"
  BY DEF CreateFails, TerminatingFails, Return, GoTo, Idle, Begin, Polls
<1>4. CASE GetObject
  <2>1. CASE timer' = TRUE /\ UNCHANGED workerVars
    BY <1>3, <1>4, <2>1 DEF GetObject, workerVars
  <2>2. CASE /\ kro # NoKro => kro.op = "ignore"
             /\ UNCHANGED <<workerVars, timer, fresh, faults>>
    BY <1>4, <2>2 DEF GetObject, workerVars, NoLostWakeup, Returning
  <2>3. CASE GoTo("consume", kro) \/ Begin(kro)
    BY <1>1, <1>a, <2>3
  <2>. QED  BY <1>4, <2>1, <2>2, <2>3 DEF GetObject
<1>5. CASE ConsumeAnnotation
  <2>1. (at' = "idle" /\ timer') \/ at' = "load"
    BY <1>5, <1>a DEF ConsumeAnnotation
  <2>. QED  BY <1>1, <1>3, <2>1
<1>6. CASE UpdateStatus
  <2>1. CASE UNCHANGED kro /\ timer' = (timer \/ retry)
    BY <1>6, <1>a, <2>1, Zenon DEF UpdateStatus, NoLostWakeup, Returning
  <2>2. CASE queued' = TRUE \/ timer' = TRUE
    BY <1>6, <1>a, <2>2 DEF UpdateStatus, NoLostWakeup, Returning
  <2>. QED  BY <1>6, <2>1, <2>2 DEF UpdateStatus
<1>7. CASE Crash
  BY <1>7, <1>a DEF Crash, NoLostWakeup, Returning
<1>8. CASE LoadConfig \/ AddFinalizerGet \/ AddFinalizerPut \/ EnsureClusters
  <2>1. \/ at' = "status" /\ retry'
        \/ at' \in {"arCheck", "finGet", "finPut", "access", "resolve"}
    BY <1>8, <1>a DEF LoadConfig, AddFinalizerGet, AddFinalizerPut,
       EnsureClusters
  <2>. QED  BY <1>1, <1>2, <2>1
<1>9. CASE CheckAccessRequests \/ RenewAccess \/ DeleteAccess \/ RemoveFinalizer
  <2>1. \/ at' = "status" /\ (PollInterval > 0 => retry')
        \/ at' \in {"arDelete", "dAccess", "count", "del", "finDel"}
    BY <1>9, <1>a DEF CheckAccessRequests, RenewAccess, DeleteAccess,
       RemoveFinalizer
  <2>. QED  BY <1>1, <1>2, <2>1
<1>10. CASE KroNext
  <2>1. \/ at' = "status" /\ (PollInterval > 0 => retry')
        \/ at' \in {"pullSecret", "oci", "imageSecrets", "kubeconfig", "crds",
                    "hr", "del", "get", "arDelete"}
    BY <1>10, <1>a DEF KroNext, ResolveVersion, Replicate,
       ReplicateChartPullSecret, ReplicateImagePullSecrets,
       ReplicateMCPKubeconfig, CreateOrUpdateOCIRepository,
       CreateOrUpdateMCPCRDsHelmRelease, CreateOrUpdateHelmRelease,
       CountResourceGraphDefinitions, DeleteObject, GetDeletedObject
  <2>. QED  BY <1>1, <1>2, <2>1
<1>. QED  BY <1>4, <1>5, <1>6, <1>7, <1>8, <1>9, <1>10 DEF WorkerNext, SPNext

\* With a poll interval, an idle worker always has a request or a timer for
\* an object that exists and is not to be ignored.
THEOREM NoLostWakeupHolds == Spec => []NoLostWakeup
<1>1. Init => TypeInv /\ NoLostWakeup /\ Returning
  BY InitTypes DEF Init, WorldInit, WorkerInit, NoLostWakeup, Returning
<1>2. TypeInv /\ NoLostWakeup /\ Returning /\ [Next]_vars
        => (TypeInv /\ NoLostWakeup /\ Returning)'
  <2>1. ASSUME NoLostWakeup, Returning, UNCHANGED vars
        PROVE  (NoLostWakeup /\ Returning)'
    BY <2>1 DEF NoLostWakeup, Returning, vars, worldVars, workerVars
  <2>. QED  BY <2>1, NextTypes, WakeupBeside, WakeupWorker DEF Next
<1>. QED  BY <1>1, <1>2, PTL DEF Spec
=============================================================================
