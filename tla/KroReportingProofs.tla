-------------------------- MODULE KroReportingProofs --------------------------
(***************************************************************************)
(* What createOrUpdate leaves behind, and what the status says of it.      *)
(***************************************************************************)
EXTENDS KroLifecycleProofs

USE DEF Clusters, Managed, AccessStates, FluxStates

-----------------------------------------------------------------------------
\* The controller never brings back a Kro that its user deleted: its writes
\* either find the object as it was read or are refused, and the only step
\* that puts a Kro where there is none is a user's.
THEOREM OnlyUsersCreateHolds == Spec => OnlyUsersCreate
<1>1. ASSUME TypeInv, [Next]_vars, kro = NoKro, kro' # NoKro
      PROVE  edits' # edits
  <2>0. edits \in Nat /\ ~fresh
    BY <1>1, BoundAssumption DEF TypeInv, TypeOK, WorldTypeOK, InHand
  <2>1. ~(PlatformNext \/ FluxNext)
    BY <1>1 DEF PlatformNext, FluxNext, Beside, ConfigEvent, ConfigReadError,
       TimerFires, Grant, Lapse, FinishRevoke, AccessRest, FluxReconcile,
       FluxUnready, FluxFinalize, Drift, FluxRest
  <2>2. ~(SPNext \/ Crash)
    BY <1>1, <2>0 DEF SPNext, Crash, GetObject, ConsumeAnnotation, LoadConfig,
       AddFinalizerGet, AddFinalizerPut, EnsureClusters, CheckAccessRequests,
       RenewAccess, DeleteAccess, RemoveFinalizer, UpdateStatus, World
  <2>3. ~KroNext
    BY <1>1 DEF KroNext, ResolveVersion, ReplicateChartPullSecret,
       ReplicateImagePullSecrets, ReplicateMCPKubeconfig, Replicate,
       CreateOrUpdateOCIRepository, CreateOrUpdateMCPCRDsHelmRelease,
       CreateOrUpdateHelmRelease, CountResourceGraphDefinitions, DeleteObject,
       GetDeletedObject, Domain, World
  <2>4. ~UNCHANGED vars
    BY <1>1 DEF vars, worldVars
  <2>5. \E v \in Versions : Beside(CreateKro(v))
    BY <1>1, <2>1, <2>2, <2>3, <2>4 DEF Next, WorkerNext, UserNext, Beside,
       SetVersion, DeleteKro, Annotate, CreateRGD, DeleteRGD, RGDRest,
       ApplyConfig
  <2>. QED  BY <2>0, <2>5 DEF Beside, CreateKro, Edit
<1>2. TypeInv /\ [Next]_vars
        => [kro = NoKro /\ kro' # NoKro => edits' # edits]_vars
  BY <1>1
<1>. QED  BY <1>2, OwnershipInvariant, PTL DEF Spec, OnlyUsersCreate

-----------------------------------------------------------------------------
(***************************************************************************)
(* Secrets before releases.  Copies are never taken away, so what a call   *)
(* copied is still there for the calls after it; the entry whose pull      *)
(* secrets were copied is the one the specs are written from, since        *)
(* neither obj's version nor the configuration changes in between.         *)
(***************************************************************************)
SecretsInPlace ==
  /\ at = "oci" /\ Entry \in Private => <<"chartPull", Entry>> \in replicas
  /\ at \in {"kubeconfig", "crds", "hr"} /\ Entry \in Private
       => <<"imagePull", Entry>> \in replicas
  /\ at \in {"crds", "hr"} => Kubeconfig \in replicas

Supplied == SecretsPrecedeReleases /\ SecretsInPlace

\* A step that installs nothing keeps what is installed supplied.
LEMMA SuppliedStays ==
  ASSUME SecretsPrecedeReleases, replicas \subseteq replicas',
         flux["hr"] = "absent" => flux'["hr"] = "absent",
         chart' = chart \/ chart' \notin Private,
         values' = values \/ values' \notin Private
  PROVE  SecretsPrecedeReleases'
  BY DEF SecretsPrecedeReleases, Kubeconfig

\* A step of someone else: nothing is installed, and charts only move to
\* public ones.
LEMMA SuppliedBeside ==
  ASSUME TypeInv, Supplied, UserNext \/ PlatformNext \/ FluxNext
  PROVE  Supplied'
<1>0. flux \in [Managed -> FluxStates]
  BY DEF TypeInv, TypeOK, WorldTypeOK
<1>1. ASSUME UNCHANGED <<workerVars, replicas>>,
             \A m \in Managed : flux[m] = "absent" => flux'[m] = "absent",
             chart' = chart \/ chart' \notin Private,
             values' = values \/ values' \notin Private
      PROVE  Supplied'
  <2>1. SecretsPrecedeReleases'
    BY <1>1, SuppliedStays DEF Supplied
  <2>2. SecretsInPlace'
    BY <1>1 DEF Supplied, SecretsInPlace, Entry, Kubeconfig, workerVars
  <2>. QED  BY <2>1, <2>2 DEF Supplied
<1>2. CASE UserNext
  BY <1>1, <1>2, UserFacts
<1>3. CASE PlatformNext
  <2>1. UNCHANGED <<workerVars, replicas, flux, chart, values>>
    BY <1>3 DEF PlatformNext, Beside, ConfigEvent, ConfigReadError, TimerFires,
       Grant, Lapse, FinishRevoke, AccessRest, clusterVars
  <2>. QED  BY <1>1, <2>1
<1>4. CASE FluxNext
  <2>1. UNCHANGED <<workerVars, replicas>>
    BY <1>4 DEF FluxNext, Beside, FluxReconcile, FluxUnready, FluxFinalize,
       Drift, FluxRest
  <2>2. \A m \in Managed : flux[m] = "absent" => flux'[m] = "absent"
    BY <1>0, <1>4 DEF FluxNext, Beside, FluxReconcile, FluxUnready,
       FluxFinalize, Drift
  <2>3. chart' \in {chart, NoChart} \/ chart' \in Charts \ Private
    BY <1>4 DEF FluxNext, Beside, FluxReconcile, FluxUnready, FluxFinalize,
       Drift
  <2>4. values' \in {values, NoChart}
    BY <1>4 DEF FluxNext, Beside, FluxReconcile, FluxUnready, FluxFinalize,
       Drift
  <2>. QED  BY <1>1, <2>1, <2>2, <2>3, <2>4, ChartAssumption
<1>. QED  BY <1>2, <1>3, <1>4

\* A step of the worker: the calls of CreateOrUpdate come in this order.
LEMMA SuppliedWorker ==
  ASSUME TypeInv, Supplied, WorkerNext \/ Crash
  PROVE  Supplied'
<1>0. flux \in [Managed -> FluxStates]
  BY DEF TypeInv, TypeOK, WorldTypeOK
<1>a. /\ CreateFails => at' = "status"
      /\ TerminatingFails => at' = "status"
      /\ \A o, again : Return(o, again) => at' = "status"
      /\ \A label, o : GoTo(label, o) => at' = label /\ obj' = o
      /\ Idle => at' = "idle"
      /\ \A o : Begin(o) => at' = "load"
  BY DEF CreateFails, TerminatingFails, Return, GoTo, Idle, Begin
<1>b. ASSUME UNCHANGED <<chart, values, replicas>>,
             \A m \in Managed : flux[m] = "absent" => flux'[m] = "absent",
             at' \notin {"oci", "kubeconfig", "crds", "hr"}
      PROVE  Supplied'
  BY <1>b, SuppliedStays DEF Supplied, SecretsInPlace
<1>. USE DEF Others, Locals, World, Platform, Domain
<1>1. CASE SPNext \/ Crash
  <2>1. UNCHANGED <<chart, values, replicas, flux>>
    BY <1>1 DEF SPNext, Crash, GetObject, ConsumeAnnotation, LoadConfig,
       AddFinalizerGet, AddFinalizerPut, EnsureClusters, CheckAccessRequests,
       RenewAccess, DeleteAccess, RemoveFinalizer, UpdateStatus, clusterVars
  <2>2. at' \notin {"oci", "kubeconfig", "crds", "hr"}
    <3>1. at' \in {at, "idle", "consume", "load", "status", "arCheck", "finGet",
                   "finPut", "access", "resolve", "arDelete", "dAccess",
                   "count", "del", "finDel"}
      BY <1>1, <1>a DEF SPNext, Crash, GetObject, ConsumeAnnotation, LoadConfig,
         AddFinalizerGet, AddFinalizerPut, EnsureClusters, CheckAccessRequests,
         RenewAccess, DeleteAccess, RemoveFinalizer, UpdateStatus, workerVars
    <3>2. CASE at' = at
      BY <1>1, <1>a, <3>2 DEF SPNext, Crash, GetObject, ConsumeAnnotation,
         LoadConfig, AddFinalizerGet, AddFinalizerPut, EnsureClusters,
         CheckAccessRequests, RenewAccess, DeleteAccess, RemoveFinalizer,
         UpdateStatus
    <3>. QED  BY <3>1, <3>2
  <2>. QED  BY <1>b, <2>1, <2>2
<1>2. CASE \/ ResolveVersion \/ CountResourceGraphDefinitions
           \/ DeleteObject \/ GetDeletedObject
  <2>1. /\ UNCHANGED <<chart, values, replicas>>
        /\ at' \notin {"oci", "kubeconfig", "crds", "hr"}
    <3>1. at' \in {"status", "pullSecret", "del", "get", "arDelete"}
      BY <1>2, <1>a DEF ResolveVersion, CountResourceGraphDefinitions,
         DeleteObject, GetDeletedObject
    <3>. QED  BY <1>2, <3>1 DEF ResolveVersion, CountResourceGraphDefinitions,
              DeleteObject, GetDeletedObject
  <2>2. \A m \in Managed : flux[m] = "absent" => flux'[m] = "absent"
    BY <1>0, <1>2 DEF ResolveVersion, CountResourceGraphDefinitions,
       DeleteObject, GetDeletedObject
  <2>. QED  BY <1>b, <2>1, <2>2
<1>3. ASSUME NEW label, NEW secret, NEW needed, NEW then,
             Replicate(label, secret, needed, then)
      PROVE  /\ SecretsPrecedeReleases'
             /\ replicas \subseteq replicas'
             /\ at = label
             /\ \/ at' = "status"
                \/ /\ at' = then /\ obj' = obj /\ conf' = conf
                   /\ needed => secret \in replicas'
  <2>1. UNCHANGED <<flux, chart, values>> /\ replicas \subseteq replicas'
    BY <1>3 DEF Replicate
  <2>2. SecretsPrecedeReleases'
    BY <2>1, SuppliedStays DEF Supplied
  <2>. QED  BY <1>3, <1>a, <2>1, <2>2 DEF Replicate
<1>4. CASE ReplicateChartPullSecret
  <2>1. /\ SecretsPrecedeReleases'
        /\ \/ at' = "status"
           \/ /\ at' = "oci" /\ obj' = obj /\ conf' = conf
              /\ Entry \in Private => <<"chartPull", Entry>> \in replicas'
    BY <1>3, <1>4, Zenon DEF ReplicateChartPullSecret
  <2>. QED  BY <2>1 DEF Supplied, SecretsInPlace, Entry
<1>5. CASE ReplicateImagePullSecrets
  <2>1. /\ SecretsPrecedeReleases'
        /\ \/ at' = "status"
           \/ /\ at' = "kubeconfig" /\ obj' = obj /\ conf' = conf
              /\ Entry \in Private => <<"imagePull", Entry>> \in replicas'
    BY <1>3, <1>5, Zenon DEF ReplicateImagePullSecrets
  <2>. QED  BY <2>1 DEF Supplied, SecretsInPlace, Entry
<1>6. CASE ReplicateMCPKubeconfig
  <2>1. /\ SecretsPrecedeReleases' /\ replicas \subseteq replicas'
        /\ at = "kubeconfig"
        /\ \/ at' = "status"
           \/ /\ at' = "crds" /\ obj' = obj /\ conf' = conf
              /\ Kubeconfig \in replicas'
    BY <1>3, <1>6, Zenon DEF ReplicateMCPKubeconfig
  <2>. QED  BY <2>1 DEF Supplied, SecretsInPlace, Entry, Kubeconfig
<1>7. CASE CreateOrUpdateOCIRepository
  <2>1. UNCHANGED <<values, replicas>> /\ at' \in {"status", "imageSecrets"}
    BY <1>7, <1>a DEF CreateOrUpdateOCIRepository
  <2>2. flux'["hr"] = flux["hr"]
    BY <1>0, <1>7 DEF CreateOrUpdateOCIRepository, Apply
  <2>3. chart' = chart \/ chart' = Entry
    BY <1>7 DEF CreateOrUpdateOCIRepository, Desired
  <2>4. Entry \in Private => <<"chartPull", Entry>> \in replicas
    BY <1>7 DEF CreateOrUpdateOCIRepository, Supplied, SecretsInPlace
  <2>5. SecretsPrecedeReleases'
    BY <2>1, <2>2, <2>3, <2>4 DEF Supplied, SecretsPrecedeReleases, Kubeconfig
  <2>. QED  BY <2>1, <2>5 DEF Supplied, SecretsInPlace
<1>8. CASE CreateOrUpdateMCPCRDsHelmRelease
  <2>1. /\ UNCHANGED <<chart, values, replicas, conf>> /\ at = "crds"
        /\ at' = "status" \/ (at' = "hr" /\ obj' = obj)
    BY <1>8, <1>a DEF CreateOrUpdateMCPCRDsHelmRelease
  <2>2. flux'["hr"] = flux["hr"]
    BY <1>0, <1>8 DEF CreateOrUpdateMCPCRDsHelmRelease, Apply
  <2>3. SecretsPrecedeReleases'
    BY <2>1, <2>2, SuppliedStays DEF Supplied
  <2>4. SecretsInPlace'
    BY <2>1 DEF Supplied, SecretsInPlace, Entry, Kubeconfig
  <2>. QED  BY <2>3, <2>4 DEF Supplied
<1>9. CASE CreateOrUpdateHelmRelease
  <2>1. /\ UNCHANGED <<chart, replicas>> /\ at = "hr" /\ at' = "status"
        /\ values' = values \/ values' = Entry
    BY <1>9, <1>a DEF CreateOrUpdateHelmRelease, Desired
  <2>2. /\ Kubeconfig \in replicas
        /\ Entry \in Private => <<"imagePull", Entry>> \in replicas
    BY <2>1 DEF Supplied, SecretsInPlace
  <2>3. SecretsPrecedeReleases'
    BY <2>1, <2>2 DEF Supplied, SecretsPrecedeReleases, Kubeconfig
  <2>. QED  BY <2>1, <2>3 DEF Supplied, SecretsInPlace
<1>. QED  BY <1>1, <1>2, <1>4, <1>5, <1>6, <1>7, <1>8, <1>9
          DEF WorkerNext, KroNext

\* The secrets that the specs of the Flux objects refer to, of whichever
\* entry, are copied before the specs are written, for any entries and any
\* sequence of version and configuration changes.
THEOREM SecretsPrecedeReleasesHolds == Spec => []SecretsPrecedeReleases
<1>1. Init => Supplied
  BY ChartAssumption DEF Init, WorldInit, WorkerInit, Supplied,
     SecretsPrecedeReleases, SecretsInPlace
<1>2. TypeInv /\ Supplied /\ [Next]_vars => Supplied'
  <2>1. ASSUME Supplied, UNCHANGED vars PROVE Supplied'
    BY <2>1 DEF Supplied, SecretsPrecedeReleases, SecretsInPlace, Entry,
       Kubeconfig, vars, worldVars, clusterVars, workerVars
  <2>. QED  BY <2>1, SuppliedBeside, SuppliedWorker DEF Next
<1>3. Supplied => SecretsPrecedeReleases
  BY DEF Supplied
<1>. QED  BY <1>1, <1>2, <1>3, OwnershipInvariant, PTL DEF Spec

-----------------------------------------------------------------------------
(***************************************************************************)
(* What the status may say.  The status patch carries the fields that      *)
(* differ from oldObj, so whether its answer is consistent depends on how  *)
(* the object's status relates to oldObj's by then.  Only the worker       *)
(* writes a status, so the two are equal unless the object was removed,    *)
(* and perhaps created anew, since it was read.  That takes an object that *)
(* is not held, or the removal of the finalizer: before an object is held  *)
(* its status is blank, and after the removal there is nothing to patch.   *)
(***************************************************************************)

\* A status from before the object was held: no success, no resources.
Blank(s) == /\ s.phase \in {"", "Progressing"}
            /\ s.cond.status # "True"
            /\ s.resources = NoResources

\* What a status s that reports Ready must find.
Complete(s) == /\ Held
               /\ \A m \in Managed : flux[m] \in {"progressing", "ready"}
               /\ \A m \in Managed : s.resources[m] = "Ready"
               /\ s.cond.status = "True"

UnheldIsBlank == kro # NoKro /\ ~kro.finalizer => Blank(kro.status)

\* oldObj's status is the object's, unless the object went away.
OldIsCurrent ==
  at \notin {"idle", "consume"}
    => \/ kro # NoKro /\ kro.status = old
       \/ /\ kro = NoKro \/ kro.status = ZeroStatus
          /\ Blank(old) \/ (at = "status" /\ obj.status = old)

DeletingIsCurrent == Deleting => kro.status = old

UnheldInHand ==
  /\ at \in {"load", "finGet", "finPut"} /\ ~Held
       => Blank(obj.status) /\ Blank(old)
  /\ at = "status" /\ ~Held
       => obj.status = old \/ (Blank(obj.status) /\ Blank(old))

\* What the worker has in hand for the status until it leaves CreateOrUpdate.
StatusInHand ==
  /\ at \in {"load", "finGet", "finPut", "access"}
       => obj.status \in {old, ZeroStatus}
  /\ at \in DomainLabels => obj.status.phase = "Progressing"

\* What CreateOrUpdate has written stays, as long as nobody deletes the Kro.
AppliedInHand ==
  /\ at \in {"imageSecrets", "kubeconfig", "crds", "hr"} /\ ~kro.deleting
       => flux["oci"] # "absent"
  /\ at = "hr" /\ ~kro.deleting => flux["crds"] # "absent"

\* A Ready that is about to be written is true, unless the Kro is in deletion.
ReadyInHand ==
  at = "status" /\ obj.status.phase = "Ready" /\ obj.status # old
      /\ kro # NoKro /\ ~kro.deleting
    => Complete(obj.status)

Reporting == /\ UnheldIsBlank /\ OldIsCurrent /\ DeletingIsCurrent
             /\ UnheldInHand /\ StatusInHand /\ AppliedInHand /\ ReadyInHand
             /\ ReadyMeansInstalled

\* What the status functions write, and what they leave alone.
LEMMA StatusContents ==
  ASSUME NEW o \in Kro
  PROVE  /\ \A reason \in Reasons :
              LET s == StatusProgressing(o, reason).status
              IN  /\ s.phase = "Progressing" /\ s.cond.status = "False"
                  /\ s.resources = o.status.resources
         /\ LET s == StatusReady(o).status
            IN  /\ s.phase = "Ready" /\ s.cond.status = "True"
                /\ s.resources = o.status.resources
         /\ \A r \in [Managed -> ResourcePhases] :
              SetResources(o, r).status.resources = r
  BY DEF StatusProgressing, StatusReady, SetStatus, SetResources, Kro,
         KroStatus, Condition

\* An error or a start in createOrUpdate keeps a blank status blank.
LEMMA ProgressingIsBlank ==
  ASSUME NEW o \in Kro, NEW reason \in Reasons, Blank(o.status)
  PROVE  Blank(StatusProgressing(o, reason).status)
  BY StatusContents DEF Blank

\* A new object's status is blank.
LEMMA ZeroIsBlank == Blank(ZeroStatus) /\ ZeroStatus.phase = ""
  BY DEF Blank, ZeroStatus

\* A patch onto the status it was computed from gives the new status.
LEMMA MergeOntoOld ==
  ASSUME NEW s \in KroStatus, NEW new1 \in KroStatus
  PROVE  MergePatch(s, s, new1) = new1
  BY DEF MergePatch, KroStatus

\* A patch of a blank status with a blank one is blank.
LEMMA MergeBlank ==
  ASSUME NEW cur \in KroStatus, NEW old1 \in KroStatus, NEW new1 \in KroStatus,
         Blank(cur), Blank(new1)
  PROVE  Blank(MergePatch(cur, old1, new1))
  BY DEF MergePatch, Blank, KroStatus

\* A patch onto a new object's status that makes it Ready, computed from a
\* blank one, carries the phase, the condition and the resources.
LEMMA MergeOntoNew ==
  ASSUME NEW old1 \in KroStatus, NEW new1 \in KroStatus, Blank(old1),
         MergePatch(ZeroStatus, old1, new1).phase = "Ready"
  PROVE  /\ new1.phase = "Ready" /\ new1 # old1
         /\ new1.cond.status = "True" =>
              MergePatch(ZeroStatus, old1, new1).cond = new1.cond
         /\ (\A m \in Managed : new1.resources[m] = "Ready") =>
              MergePatch(ZeroStatus, old1, new1).resources = new1.resources
<1>1. new1.phase = "Ready" /\ new1 # old1
  BY ZeroIsBlank DEF MergePatch, Blank
<1>2. new1.cond.status = "True" => new1.cond # old1.cond
  BY DEF Blank
<1>3. (\A m \in Managed : new1.resources[m] = "Ready")
        => new1.resources # old1.resources
  BY DEF Blank, NoResources
<1>. QED  BY <1>1, <1>2, <1>3 DEF MergePatch

\* What the Flux controllers do to an object: reconcile it, or end it when
\* it is in deletion.
FluxMoves == \A m \in Managed :
  \/ flux'[m] = flux[m]
  \/ {flux[m], flux'[m]} \subseteq {"progressing", "ready"}
  \/ flux[m] = "deleting" /\ flux'[m] = "absent"

\* A step of someone else keeps the reports true: users edit the object but
\* not its status, and Flux takes away only what was in deletion.
LEMMA ReportingBeside ==
  ASSUME TypeInv, Ownership, Shrinking, Reporting,
         UserNext \/ PlatformNext \/ FluxNext
  PROVE  Reporting'
<1>0. /\ kro # NoKro => kro \in Kro
      /\ flux \in [Managed -> FluxStates]
  BY DEF TypeInv, TypeOK, WorldTypeOK
<1>1. UserEdit /\ FluxMoves /\ UNCHANGED workerVars
  <2>1. CASE UserNext
    BY <2>1, UserFacts DEF FluxMoves
  <2>2. CASE PlatformNext
    <3>1. UNCHANGED <<kro, flux, workerVars>>
      BY <2>2 DEF PlatformNext, Beside, ConfigEvent, ConfigReadError,
         TimerFires, Grant, Lapse, FinishRevoke, AccessRest, clusterVars
    <3>. QED  BY <3>1 DEF UserEdit, FluxMoves
  <2>3. CASE FluxNext
    <3>1. UNCHANGED <<kro, workerVars>>
      BY <2>3 DEF FluxNext, Beside, FluxReconcile, FluxUnready, FluxFinalize,
         Drift, FluxRest
    <3>2. FluxMoves
      BY <1>0, <2>3 DEF FluxNext, Beside, FluxReconcile, FluxUnready,
         FluxFinalize, Drift, FluxMoves
    <3>. QED  BY <3>1, <3>2 DEF UserEdit
  <2>. QED  BY <2>1, <2>2, <2>3
<1>. USE DEF Reporting
\* The facts about the object that the parts of the invariant rest on.
<1>2. Held' <=> Held
  BY <1>1, NoKroAssumption DEF UserEdit, Held
<1>3. kro # NoKro /\ kro.deleting => kro' # NoKro /\ kro'.deleting
  BY <1>1, NoKroAssumption DEF UserEdit, Ownership, Anywhere, DeletingIsHeld
<1>4. /\ kro # NoKro /\ kro' # NoKro => kro'.status = kro.status
      /\ kro = NoKro /\ kro' # NoKro => kro'.status = ZeroStatus
      /\ kro # NoKro /\ kro' = NoKro => ~Held
  BY <1>1, NoKroAssumption DEF UserEdit, Held
<1>5. ASSUME kro # NoKro, kro' # NoKro, ~kro'.deleting, NEW m \in Managed
      PROVE  /\ flux[m] # "absent" => flux'[m] # "absent"
             /\ flux[m] \in {"progressing", "ready"}
                  => flux'[m] \in {"progressing", "ready"}
  <2>1. flux[m] # "deleting"
    BY <1>3, <1>5 DEF Shrinking, RemovedWhenClosing, Stage
  <2>. QED  BY <1>0, <1>1, <2>1 DEF FluxMoves
<1>6. UnheldIsBlank'
  BY <1>2, <1>4, ZeroIsBlank DEF UnheldIsBlank, Held
<1>7. OldIsCurrent'
  <2>1. kro # NoKro /\ kro' = NoKro => Blank(kro.status)
    BY <1>4 DEF UnheldIsBlank, Held
  <2>. QED  BY <1>1, <1>4, <2>1 DEF OldIsCurrent, workerVars
<1>8. DeletingIsCurrent'
  <2>1. Deleting' => Deleting
    BY <1>1 DEF Deleting, workerVars
  <2>2. Deleting => kro # NoKro /\ kro.deleting
    BY DEF Ownership, AtLabel, DeleteIsHeld, Held
  <2>. QED  BY <1>1, <1>3, <1>4, <2>1, <2>2 DEF DeletingIsCurrent, workerVars
<1>9. UnheldInHand'
  BY <1>1, <1>2 DEF UnheldInHand, workerVars
<1>10. StatusInHand'
  BY <1>1 DEF StatusInHand, workerVars
<1>11. AppliedInHand'
  <2>1. at \in {"imageSecrets", "kubeconfig", "crds", "hr"}
          => Held /\ kro # NoKro /\ kro' # NoKro
    BY <1>2 DEF Ownership, AtLabel, CreateIsHeld, HeldLabels, Held
  <2>2. at' = at
    BY <1>1 DEF workerVars
  <2>. QED  BY <1>3, <1>5, <2>1, <2>2 DEF AppliedInHand
<1>12. ReadyInHand'
  <2>. SUFFICES ASSUME at = "status", obj.status.phase = "Ready",
                       obj.status # old, kro' # NoKro, ~kro'.deleting
                PROVE  Complete(obj.status)'
    BY <1>1 DEF ReadyInHand, workerVars
  <2>1. Held /\ kro # NoKro /\ ~kro.deleting
    BY <1>3 DEF UnheldInHand, Blank, Held
  <2>2. Complete(obj.status)
    BY <2>1 DEF ReadyInHand
  <2>3. \A m \in Managed : flux'[m] \in {"progressing", "ready"}
    BY <1>5, <2>1, <2>2 DEF Complete
  <2>. QED  BY <1>1, <1>2, <2>2, <2>3 DEF Complete, workerVars
<1>13. ReadyMeansInstalled'
  <2>. SUFFICES ASSUME kro' # NoKro, ~kro'.deleting, kro'.status.phase = "Ready"
                PROVE  /\ kro'.finalizer
                       /\ \A m \in Managed : flux'[m] \in {"progressing", "ready"}
                       /\ \A m \in Managed : kro'.status.resources[m] = "Ready"
                       /\ kro'.status.cond.status = "True"
    BY DEF ReadyMeansInstalled
  <2>1. kro # NoKro /\ ~kro.deleting /\ kro'.status = kro.status
    BY <1>3, <1>4, ZeroIsBlank
  <2>2. /\ kro.finalizer
        /\ \A m \in Managed : flux[m] \in {"progressing", "ready"}
        /\ \A m \in Managed : kro.status.resources[m] = "Ready"
        /\ kro.status.cond.status = "True"
    BY <2>1 DEF ReadyMeansInstalled
  <2>3. kro'.finalizer
    BY <1>2, <2>1, <2>2 DEF Held
  <2>. QED  BY <1>5, <2>1, <2>2, <2>3
<1>. QED  BY <1>6, <1>7, <1>8, <1>9, <1>10, <1>11, <1>12, <1>13

\* Outside of createOrUpdate nothing is asked of what it wrote.
LEMMA NothingApplied ==
  ASSUME at' \in {"idle", "consume", "load", "finGet", "finPut", "access",
                 "status"} \cup DeleteLabels
  PROVE  AppliedInHand'
<1>1. at' \notin {"imageSecrets", "kubeconfig", "crds", "hr"}
  BY DEF DeleteLabels
<1>. QED  BY <1>1 DEF AppliedInHand

\* Delete and the status update after it: the Kro is held and in deletion,
\* and has the status that was read.
LEMMA ReportingInDelete ==
  ASSUME Ownership, Reporting, Deleting, UNCHANGED <<kro, old>>,
         at' \in DeleteLabels \cup {"status"}
  PROVE  Reporting'
<1>1. Held /\ kro # NoKro /\ kro.deleting /\ kro.status = old
  BY DEF Ownership, AtLabel, DeleteIsHeld, Held, Reporting, DeletingIsCurrent
<1>2. /\ at' \notin {"load", "finGet", "finPut", "access"}
      /\ at' \notin DomainLabels
  BY DEF DeleteLabels, DomainLabels
<1>3. (UnheldIsBlank /\ ReadyMeansInstalled)'
  BY <1>1 DEF UnheldIsBlank, ReadyMeansInstalled, Held
<1>4. (OldIsCurrent /\ DeletingIsCurrent /\ UnheldInHand)'
  BY <1>1, <1>2 DEF OldIsCurrent, DeletingIsCurrent, UnheldInHand, Held
<1>5. (StatusInHand /\ ReadyInHand)'
  BY <1>1, <1>2 DEF StatusInHand, ReadyInHand
<1>6. AppliedInHand'
  BY NothingApplied
<1>. QED  BY <1>3, <1>4, <1>5, <1>6 DEF Reporting

\* createOrUpdate: objects appear, and what the worker has in hand is to be
\* shown for each of its calls.
LEMMA ReportingInCreate ==
  ASSUME Ownership, Reporting, at \in CreateLabels \cup {"load"},
         at' \in CreateLabels \cup {"status"}, UNCHANGED <<kro, old>>,
         \A m \in Managed : flux'[m] = flux[m] \/ flux[m] = "absent",
         (UnheldInHand /\ StatusInHand /\ AppliedInHand /\ ReadyInHand)'
  PROVE  Reporting'
<1>1. (UnheldIsBlank /\ ReadyMeansInstalled)'
  BY DEF Reporting, UnheldIsBlank, ReadyMeansInstalled
<1>2. at \notin {"idle", "consume", "status"}
  BY DEF CreateLabels
<1>3. OldIsCurrent'
  BY <1>2 DEF Reporting, OldIsCurrent
<1>4. DeletingIsCurrent'
  BY DEF DeletingIsCurrent, Deleting, CreateLabels, DeleteLabels
<1>. QED  BY <1>1, <1>3, <1>4 DEF Reporting

\* Leaving createOrUpdate with an error: Progressing, blank if not held.
LEMMA ReportingFailure ==
  ASSUME TypeInv, Ownership, Reporting, at \in CreateLabels \cup {"load"},
         UNCHANGED <<kro, old, flux>>, NEW reason \in Reasons, NEW again,
         Return(StatusProgressing(obj, reason), again)
  PROVE  Reporting'
<1>1. obj \in Kro
  BY DEF TypeInv, InHand, CreateLabels
<1>2. at' = "status" /\ obj' = StatusProgressing(obj, reason)
  BY DEF Return
<1>3. obj'.status.phase = "Progressing"
  BY <1>1, <1>2, StatusContents
<1>4. ~Held => at \in {"load", "finGet", "finPut"}
  BY DEF Ownership, AtLabel, CreateIsHeld, HeldLabels, CreateLabels
<1>5. UnheldInHand'
  <2>1. ~Held => Blank(obj'.status) /\ Blank(old)
    BY <1>1, <1>2, <1>4, ProgressingIsBlank DEF Reporting, UnheldInHand
  <2>. QED  BY <1>2, <2>1 DEF UnheldInHand, Held
<1>6. (StatusInHand /\ ReadyInHand)'
  BY <1>2, <1>3 DEF StatusInHand, ReadyInHand, DomainLabels
<1>7. AppliedInHand'
  BY <1>2, NothingApplied
<1>. QED  BY <1>2, <1>5, <1>6, <1>7, ReportingInCreate

\* The labels of rest, where nothing is in hand.
LEMMA ReportingAtRest ==
  ASSUME at' \in {"idle", "consume"}, (UnheldIsBlank /\ ReadyMeansInstalled)'
  PROVE  Reporting'
<1>1. (OldIsCurrent /\ UnheldInHand /\ ReadyInHand)'
  BY DEF OldIsCurrent, UnheldInHand, ReadyInHand
<1>2. (DeletingIsCurrent /\ StatusInHand)'
  BY DEF DeletingIsCurrent, Deleting, DeleteLabels, StatusInHand, DomainLabels
<1>3. AppliedInHand'
  BY NothingApplied
<1>. QED  BY <1>1, <1>2, <1>3 DEF Reporting

\* Reading the object: oldObj is a copy of it.
LEMMA ReportingBegins ==
  ASSUME UnheldIsBlank', ReadyMeansInstalled', kro' # NoKro, Begin(kro')
  PROVE  Reporting'
<1>1. at' = "load" /\ obj' = kro' /\ old' = kro'.status
  BY DEF Begin
<1>2. ~Held' => Blank(kro'.status)
  BY DEF UnheldIsBlank, Held
<1>3. (OldIsCurrent /\ DeletingIsCurrent /\ UnheldInHand)'
  BY <1>1, <1>2 DEF OldIsCurrent, DeletingIsCurrent, UnheldInHand
<1>4. (StatusInHand /\ ReadyInHand)'
  BY <1>1 DEF StatusInHand, DomainLabels, ReadyInHand
<1>5. AppliedInHand'
  BY <1>1, NothingApplied
<1>. QED  BY <1>3, <1>4, <1>5 DEF Reporting

\* The domain reconciler's calls: each Flux object is there once it has been
\* applied, and Ready is reported only when all three are.
LEMMA ReportingKro ==
  ASSUME TypeInv, Ownership, Shrinking, Reporting, KroNext
  PROVE  Reporting'
<1>0. /\ flux \in [Managed -> FluxStates]
      /\ seen \in SUBSET Managed
      /\ "ReconcileError" \in Reasons /\ "Reconciling" \in Reasons
  BY DEF TypeInv, TypeOK, WorldTypeOK, WorkerTypeOK, Reasons
<1>a. /\ TerminatingFails => at' = "status"
      /\ \A o, again : Return(o, again) => at' = "status" /\ obj' = o
      /\ \A label, o : GoTo(label, o) => at' = label /\ obj' = o
  BY DEF TerminatingFails, Return, GoTo
<1>. USE DEF Others, World, Platform, Domain
<1>1. CASE CountResourceGraphDefinitions \/ DeleteObject \/ GetDeletedObject
  <2>1. Deleting /\ UNCHANGED <<kro, old>>
    BY <1>1 DEF CountResourceGraphDefinitions, DeleteObject, GetDeletedObject,
       Deleting, DeleteLabels
  <2>2. at' \in {"status", "del", "get", "arDelete"}
    BY <1>1, <1>a DEF CountResourceGraphDefinitions, DeleteObject,
       GetDeletedObject
  <2>. QED  BY <2>1, <2>2, ReportingInDelete DEF DeleteLabels
\* From here on: the calls of CreateOrUpdate.
<1>b. ASSUME at \in DomainLabels PROVE Held /\ kro # NoKro
  BY <1>b DEF DomainLabels, Ownership, AtLabel, CreateIsHeld, HeldLabels, Held
<1>c. ASSUME at \in DomainLabels, UNCHANGED <<kro, old, flux>>, CreateFails
      PROVE  Reporting'
  BY <1>0, <1>c, ReportingFailure DEF CreateFails, DomainLabels, CreateLabels
<1>d. ASSUME at \in DomainLabels, at' \in DomainLabels, UNCHANGED <<kro, old, obj>>,
             \A m \in Managed : flux'[m] = flux[m] \/ flux[m] = "absent",
             AppliedInHand'
      PROVE  Reporting'
  <2>1. (UnheldInHand /\ StatusInHand /\ ReadyInHand)'
    BY <1>d DEF Reporting, UnheldInHand, StatusInHand, ReadyInHand,
       DomainLabels
  <2>. QED  BY <1>d, <2>1, ReportingInCreate DEF DomainLabels, CreateLabels
<1>2. CASE ResolveVersion
  <2>1. at = "resolve" /\ UNCHANGED <<kro, old, flux>>
    BY <1>2 DEF ResolveVersion
  <2>2. CASE Return(StatusProgressing(obj, "ReconcileError"), Polls)
    BY <1>0, <2>1, <2>2, ReportingFailure DEF CreateLabels
  <2>3. CASE GoTo("pullSecret", obj)
    BY <1>a, <1>d, <2>1, <2>3 DEF AppliedInHand, DomainLabels
  <2>. QED  BY <1>2, <2>2, <2>3 DEF ResolveVersion
<1>3. ASSUME NEW label \in DomainLabels, NEW secret, NEW needed,
             NEW then \in DomainLabels \ {"hr"},
             Replicate(label, secret, needed, then),
             then \in {"kubeconfig", "crds"} => label \in {"imageSecrets", "kubeconfig"},
             then # "imageSecrets"
      PROVE  Reporting'
  <2>1. at = label /\ UNCHANGED <<kro, old, flux>>
    BY <1>3 DEF Replicate
  <2>2. CASE CreateFails
    BY <1>c, <2>1, <2>2
  <2>3. CASE GoTo(then, obj)
    <3>1. AppliedInHand'
      BY <1>3, <1>a, <2>1, <2>3 DEF Reporting, AppliedInHand
    <3>. QED  BY <1>3, <1>a, <1>d, <2>1, <2>3, <3>1
  <2>. QED  BY <1>3, <2>2, <2>3 DEF Replicate
<1>4. CASE \/ ReplicateChartPullSecret \/ ReplicateImagePullSecrets
           \/ ReplicateMCPKubeconfig
  BY <1>3, <1>4 DEF ReplicateChartPullSecret, ReplicateImagePullSecrets,
     ReplicateMCPKubeconfig, DomainLabels
<1>5. CASE CreateOrUpdateOCIRepository
  <2>1. at = "oci" /\ UNCHANGED <<kro, old>>
    BY <1>5 DEF CreateOrUpdateOCIRepository
  <2>2. CASE CreateFails /\ UNCHANGED flux
    BY <1>c, <2>1, <2>2 DEF DomainLabels
  <2>3. CASE Apply("oci") /\ GoTo("imageSecrets", obj)
    <3>1. /\ flux'["oci"] # "absent"
          /\ \A m \in Managed : flux'[m] = flux[m] \/ flux[m] = "absent"
      BY <1>0, <2>3 DEF Apply
    <3>2. at' = "imageSecrets" /\ obj' = obj
      BY <1>a, <2>3
    <3>. QED  BY <1>d, <2>1, <3>1, <3>2 DEF AppliedInHand, DomainLabels
  <2>. QED  BY <1>5, <2>2, <2>3 DEF CreateOrUpdateOCIRepository
<1>6. CASE CreateOrUpdateMCPCRDsHelmRelease
  <2>1. at = "crds" /\ UNCHANGED <<kro, old>>
    BY <1>6 DEF CreateOrUpdateMCPCRDsHelmRelease
  <2>2. CASE CreateFails /\ UNCHANGED flux
    BY <1>c, <2>1, <2>2 DEF DomainLabels
  <2>3. CASE Apply("crds") /\ GoTo("hr", obj)
    <3>1. /\ flux'["crds"] # "absent" /\ flux'["oci"] = flux["oci"]
          /\ \A m \in Managed : flux'[m] = flux[m] \/ flux[m] = "absent"
      BY <1>0, <2>3 DEF Apply
    <3>2. at' = "hr" /\ obj' = obj
      BY <1>a, <2>3
    <3>3. AppliedInHand'
      BY <2>1, <3>1, <3>2 DEF Reporting, AppliedInHand
    <3>. QED  BY <1>d, <2>1, <3>1, <3>2, <3>3 DEF DomainLabels
  <2>. QED  BY <1>6, <2>2, <2>3 DEF CreateOrUpdateMCPCRDsHelmRelease
<1>7. CASE CreateOrUpdateHelmRelease
  <2>1. at = "hr" /\ UNCHANGED <<kro, old>>
    BY <1>7 DEF CreateOrUpdateHelmRelease
  <2>2. Held /\ kro # NoKro /\ obj \in Kro /\ obj.status.phase = "Progressing"
    BY <1>b, <2>1 DEF DomainLabels, TypeInv, InHand, Reporting, StatusInHand
  <2>3. CASE CreateFails /\ UNCHANGED flux
    BY <1>c, <2>1, <2>3 DEF DomainLabels
  <2>a. ASSUME at' = "status", ReadyInHand',
               \A m \in Managed : flux'[m] = flux[m] \/ flux[m] = "absent"
        PROVE  Reporting'
    <3>1. (UnheldInHand /\ StatusInHand /\ AppliedInHand)'
      BY <2>1, <2>2, <2>a DEF UnheldInHand, StatusInHand, AppliedInHand,
         DomainLabels, Held
    <3>. QED  BY <2>1, <2>a, <3>1, ReportingInCreate DEF CreateLabels
  <2>4. CASE Return(obj, TRUE) /\ UNCHANGED flux
    <3>1. at' = "status" /\ obj'.status.phase = "Progressing"
      BY <1>a, <2>2, <2>4
    <3>2. ReadyInHand'
      BY <3>1 DEF ReadyInHand
    <3>. QED  BY <2>4, <2>a, <3>1, <3>2
  <2>5. CASE Apply("hr") /\ See("hr") /\ Return(Report(seen'), Polls)
    <3>1. /\ flux'["hr"] # "absent"
          /\ flux'["oci"] = flux["oci"] /\ flux'["crds"] = flux["crds"]
          /\ \A m \in Managed : flux'[m] = flux[m] \/ flux[m] = "absent"
          /\ \A m \in Managed : flux'[m] \in FluxStates
          /\ \A m \in Managed : flux'[m] = "deleting" => flux[m] = "deleting"
      BY <1>0, <2>5 DEF Apply
    <3>2. at' = "status" /\ obj' = Report(seen')
      BY <1>a, <2>5
    <3>3. ~kro.deleting => \A m \in Managed : flux'[m] \in {"progressing", "ready"}
      <4>. SUFFICES ASSUME ~kro.deleting, NEW m \in Managed
                    PROVE  flux'[m] # "absent" /\ flux'[m] # "deleting"
        BY <3>1
      <4>1. flux'[m] # "absent"
        BY <2>1, <3>1 DEF Reporting, AppliedInHand
      <4>2. flux[m] # "deleting"
        BY DEF Shrinking, RemovedWhenClosing, Stage
      <4>. QED  BY <3>1, <4>1, <4>2
    <3>4. seen' \in SUBSET Managed
      BY <1>0, <2>5 DEF See
    <3>5. LET r == [m \in Managed |-> IF m \in seen' THEN "Ready" ELSE "Progressing"]
          IN  /\ r \in [Managed -> ResourcePhases]
              /\ ReportResources(seen') \in Kro
              /\ ReportResources(seen').status.resources = r
      <4>. DEFINE r == [m \in Managed |-> IF m \in seen' THEN "Ready"
                                          ELSE "Progressing"]
      <4>1. r \in [Managed -> ResourcePhases]
        BY DEF ResourcePhases
      <4>. QED  BY <2>2, <4>1, SetResourcesFacts, StatusContents
                DEF ReportResources
    <3>6. obj'.status.phase = "Ready"
            => /\ obj'.status.cond.status = "True"
               /\ \A m \in Managed : obj'.status.resources[m] = "Ready"
      <4>1. CASE seen' = Managed
        <5>1. obj' = StatusReady(ReportResources(seen'))
          BY <3>2, <4>1 DEF Report
        <5>. QED  BY <3>5, <4>1, <5>1, StatusContents
      <4>2. CASE seen' # Managed
        <5>1. obj' = StatusProgressing(ReportResources(seen'), "Reconciling")
          BY <3>2, <4>2 DEF Report
        <5>. QED  BY <1>0, <3>5, <5>1, StatusContents
      <4>. QED  BY <4>1, <4>2
    <3>7. ReadyInHand'
      <4>. SUFFICES ASSUME obj'.status.phase = "Ready", ~kro'.deleting
                    PROVE  Complete(obj.status)'
        BY DEF ReadyInHand
      <4>1. Held' /\ ~kro.deleting
        BY <2>1, <2>2 DEF Held
      <4>2. \A m \in Managed : flux'[m] \in {"progressing", "ready"}
        BY <3>3, <4>1
      <4>. QED  BY <3>6, <4>1, <4>2 DEF Complete
    <3>. QED  BY <2>a, <3>1, <3>2, <3>7
  <2>. QED  BY <1>7, <2>3, <2>4, <2>5 DEF CreateOrUpdateHelmRelease
<1>. QED  BY <1>1, <1>2, <1>4, <1>5, <1>6, <1>7 DEF KroNext

\* The status patch: whatever became of the object since it was read, its
\* answer is what the worker had in hand, or nothing new.
LEMMA ReportingUpdate ==
  ASSUME TypeInv, Reporting, UpdateStatus
  PROVE  Reporting'
<1>1. at = "status" /\ obj \in Kro /\ at' = "idle" /\ UNCHANGED flux
  BY DEF UpdateStatus, Idle, Platform, TypeInv, InHand
<1>2. CASE UNCHANGED kro
  <2>1. (UnheldIsBlank /\ ReadyMeansInstalled)'
    BY <1>1, <1>2 DEF Reporting, UnheldIsBlank, ReadyMeansInstalled
  <2>. QED  BY <1>1, <2>1, ReportingAtRest
<1>3. CASE kro' # kro
  <2>. DEFINE patched == MergePatch(kro.status, old, obj.status)
  <2>1. /\ obj.status # old /\ kro # NoKro
        /\ kro' = [kro EXCEPT !.status = patched]
    BY <1>3 DEF UpdateStatus
  <2>2. /\ kro \in Kro /\ kro.status \in KroStatus /\ old \in KroStatus
        /\ obj.status \in KroStatus /\ ZeroStatus \in KroStatus
    BY <1>1, <2>1, NewKroType DEF TypeInv, TypeOK, WorldTypeOK, WorkerTypeOK, Kro
  <2>3. /\ kro'.status = patched
        /\ kro'.deleting = kro.deleting /\ kro'.finalizer = kro.finalizer
    BY <2>1, <2>2 DEF Kro
  <2>4. kro.status = old \/ (kro.status = ZeroStatus /\ Blank(old))
    BY <1>1, <2>1 DEF Reporting, OldIsCurrent
  <2>5. kro.status = old => patched = obj.status
    BY <2>2, MergeOntoOld
  <2>6. ASSUME ~kro.finalizer PROVE Blank(patched)
    <3>1. Blank(obj.status) /\ Blank(kro.status)
      BY <1>1, <2>1, <2>6 DEF Reporting, UnheldInHand, UnheldIsBlank, Held
    <3>. QED  BY <2>2, <3>1, MergeBlank
  <2>7. ASSUME ~kro.deleting, patched.phase = "Ready"
        PROVE  /\ Complete(obj.status)
               /\ patched.resources = obj.status.resources
               /\ patched.cond = obj.status.cond
    <3>1. CASE kro.status = old
      BY <1>1, <2>1, <2>5, <2>7, <3>1 DEF Reporting, ReadyInHand
    <3>2. CASE kro.status = ZeroStatus /\ Blank(old)
      <4>1. obj.status.phase = "Ready"
        BY <2>2, <2>7, <3>2, MergeOntoNew
      <4>2. Complete(obj.status)
        BY <1>1, <2>1, <2>7, <4>1 DEF Reporting, ReadyInHand
      <4>3. /\ obj.status.cond.status = "True"
            /\ \A m \in Managed : obj.status.resources[m] = "Ready"
        BY <4>2 DEF Complete
      <4>. QED  BY <2>2, <2>7, <3>2, <4>2, <4>3, MergeOntoNew
    <3>. QED  BY <2>4, <3>1, <3>2
  <2>8. UnheldIsBlank'
    BY <2>3, <2>6 DEF UnheldIsBlank
  <2>9. ReadyMeansInstalled'
    <3>. SUFFICES ASSUME ~kro'.deleting, kro'.status.phase = "Ready"
                  PROVE  /\ kro'.finalizer
                         /\ \A m \in Managed : flux'[m] \in {"progressing", "ready"}
                         /\ \A m \in Managed : kro'.status.resources[m] = "Ready"
                         /\ kro'.status.cond.status = "True"
      BY DEF ReadyMeansInstalled
    <3>. QED  BY <1>1, <2>3, <2>7 DEF Complete, Held
  <2>. QED  BY <1>1, <2>8, <2>9, ReportingAtRest
<1>. QED  BY <1>2, <1>3

\* The generic loop's other calls.
LEMMA ReportingSP ==
  ASSUME TypeInv, Ownership, Reporting, SPNext \/ Crash
  PROVE  Reporting'
<1>0. /\ kro # NoKro => kro \in Kro
      /\ "ReconcileError" \in Reasons /\ "Reconciling" \in Reasons
  BY DEF TypeInv, TypeOK, WorldTypeOK, Reasons
<1>a. /\ TerminatingFails => at' = "status"
      /\ CreateFails => at' = "status"
      /\ \A o, again : Return(o, again) => at' = "status" /\ obj' = o
      /\ \A label, o : GoTo(label, o) => at' = label /\ obj' = o
      /\ Idle => at' = "idle"
  BY DEF TerminatingFails, CreateFails, Return, GoTo, Idle
<1>b. ASSUME UNCHANGED <<kro, flux>>, at' \in {"idle", "consume"}
      PROVE  Reporting'
  <2>1. (UnheldIsBlank /\ ReadyMeansInstalled)'
    BY <1>b DEF Reporting, UnheldIsBlank, ReadyMeansInstalled
  <2>. QED  BY <1>b, <2>1, ReportingAtRest
<1>c. ASSUME at \in CreateLabels, UNCHANGED <<kro, old, flux>>, CreateFails
      PROVE  Reporting'
  BY <1>0, <1>c, ReportingFailure DEF CreateFails
<1>. USE DEF Others, Locals, World, Platform
<1>1. CASE GetObject
  <2>1. UNCHANGED <<kro, flux>> /\ at = "idle"
    BY <1>1 DEF GetObject
  <2>2. CASE UNCHANGED workerVars
    <3>1. at' = "idle"
      BY <2>1, <2>2 DEF workerVars
    <3>. QED  BY <1>b, <2>1, <3>1
  <2>3. CASE GoTo("consume", kro)
    BY <1>a, <1>b, <2>1, <2>3
  <2>4. CASE kro # NoKro /\ Begin(kro)
    <3>1. (UnheldIsBlank /\ ReadyMeansInstalled)'
      BY <2>1 DEF Reporting, UnheldIsBlank, ReadyMeansInstalled
    <3>2. kro' = kro
      BY <2>1
    <3>3. Begin(kro')
      BY <2>4, <3>2 DEF Begin
    <3>. QED  BY <2>4, <3>1, <3>2, <3>3, ReportingBegins
  <2>. QED  BY <1>1, <2>2, <2>3, <2>4 DEF GetObject
<1>2. CASE ConsumeAnnotation
  <2>1. CASE Idle /\ UNCHANGED <<kro, flux>>
    BY <1>a, <1>b, <2>1
  <2>2. CASE kro # NoKro /\ kro' = [kro EXCEPT !.op = "none"] /\ Begin(kro')
    <3>1. /\ kro' # NoKro /\ kro'.status = kro.status
          /\ kro'.finalizer = kro.finalizer /\ kro'.deleting = kro.deleting
      BY <1>0, <2>2, WriteFacts, NoKroAssumption DEF Kro, Operations
    <3>2. UNCHANGED flux
      BY <1>2 DEF ConsumeAnnotation
    <3>3. (UnheldIsBlank /\ ReadyMeansInstalled)'
      BY <2>2, <3>1, <3>2 DEF Reporting, UnheldIsBlank, ReadyMeansInstalled
    <3>. QED  BY <2>2, <3>1, <3>3, ReportingBegins
  <2>. QED  BY <1>2, <2>1, <2>2 DEF ConsumeAnnotation
<1>3. CASE LoadConfig
  <2>1. at = "load" /\ UNCHANGED <<kro, old, flux>>
    BY <1>3 DEF LoadConfig
  <2>2. CASE Return(StatusProgressing(obj, "ReconcileError"), TRUE)
    BY <1>0, <2>1, <2>2, ReportingFailure
  <2>3. CASE obj.deleting /\ at' = "arCheck"
    BY <2>1, <2>3, ReportingInDelete DEF Deleting, DeleteLabels
  <2>4. CASE at' = "finGet" /\ obj' = obj
    <3>1. (UnheldInHand /\ StatusInHand)'
      BY <2>1, <2>4 DEF Reporting, UnheldInHand, StatusInHand, DomainLabels, Held
    <3>2. (AppliedInHand /\ ReadyInHand)'
      BY <2>4, NothingApplied DEF ReadyInHand
    <3>. QED  BY <2>1, <2>4, <3>1, <3>2, ReportingInCreate DEF CreateLabels
  <2>. QED  BY <1>3, <1>a, <2>2, <2>3, <2>4 DEF LoadConfig
<1>4. CASE AddFinalizerGet
  <2>1. at = "finGet" /\ UNCHANGED <<kro, old, flux>>
    BY <1>4 DEF AddFinalizerGet
  <2>2. CASE CreateFails
    BY <1>c, <2>1, <2>2 DEF CreateLabels
  <2>3. CASE kro # NoKro /\ at' \in {"access", "finPut"} /\ obj' = kro
             /\ (at' = "access" <=> kro.finalizer)
    <3>1. kro.status \in {old, ZeroStatus}
      BY <2>1, <2>3 DEF Reporting, OldIsCurrent
    <3>2. ~Held => Blank(kro.status) /\ Blank(old)
      BY <2>1, <2>3 DEF Reporting, UnheldIsBlank, UnheldInHand, Held
    <3>3. UnheldInHand'
      BY <2>1, <2>3, <3>2 DEF UnheldInHand, Held
    <3>4. StatusInHand'
      BY <2>1, <2>3, <3>1 DEF StatusInHand, DomainLabels
    <3>5. (AppliedInHand /\ ReadyInHand)'
      BY <2>3, NothingApplied DEF ReadyInHand
    <3>6. at' \in CreateLabels
      BY <2>3 DEF CreateLabels
    <3>. QED  BY <2>1, <3>3, <3>4, <3>5, <3>6, ReportingInCreate DEF CreateLabels
  <2>. QED  BY <1>4, <1>a, <2>2, <2>3 DEF AddFinalizerGet
<1>5. CASE AddFinalizerPut
  <2>1. at = "finPut" /\ UNCHANGED <<old, flux>>
    BY <1>5 DEF AddFinalizerPut
  <2>2. CASE CreateFails /\ UNCHANGED kro
    BY <1>c, <2>1, <2>2 DEF CreateLabels
  <2>3. CASE /\ fresh /\ kro' = [kro EXCEPT !.finalizer = TRUE]
             /\ at' = "access" /\ obj' = kro'
    <3>1. kro # NoKro /\ kro \in Kro
      BY <1>0, <2>3 DEF TypeInv, InHand
    <3>2. /\ kro' # NoKro /\ kro'.status = kro.status
          /\ kro'.finalizer /\ kro'.deleting = kro.deleting
      <4>1. kro' # NoKro
        BY <2>3, <3>1, WriteFacts, NoKroAssumption
      <4>. QED  BY <2>3, <3>1, <4>1 DEF Kro
    <3>3. kro.status = old \/ (kro.status = ZeroStatus /\ Blank(old))
      BY <2>1, <3>1 DEF Reporting, OldIsCurrent
    <3>4. (UnheldIsBlank /\ UnheldInHand /\ ReadyInHand)'
      BY <2>3, <3>2 DEF UnheldIsBlank, UnheldInHand, ReadyInHand
    <3>5. (OldIsCurrent /\ StatusInHand)'
      BY <2>1, <2>3, <3>2, <3>3 DEF OldIsCurrent, StatusInHand, DomainLabels
    <3>6. DeletingIsCurrent' /\ AppliedInHand'
      BY <2>3, NothingApplied DEF DeletingIsCurrent, Deleting, DeleteLabels
    <3>7. ReadyMeansInstalled'
      BY <2>1, <3>1, <3>2 DEF Reporting, ReadyMeansInstalled
    <3>. QED  BY <3>4, <3>5, <3>6, <3>7 DEF Reporting
  <2>. QED  BY <1>5, <1>a, <2>2, <2>3 DEF AddFinalizerPut
<1>6. CASE EnsureClusters
  <2>1. at = "access" /\ UNCHANGED <<kro, old, flux>>
    BY <1>6 DEF EnsureClusters
  <2>2. Held /\ obj \in Kro /\ obj.status \in {old, ZeroStatus}
    BY <2>1 DEF Ownership, AtLabel, CreateIsHeld, HeldLabels, TypeInv, InHand,
       Reporting, StatusInHand
  <2>3. CASE CreateFails
    BY <1>c, <2>1, <2>3 DEF CreateLabels
  <2>4. CASE at' = "status" /\ obj' = obj
    <3>1. (UnheldInHand /\ StatusInHand)'
      BY <2>1, <2>2, <2>4 DEF UnheldInHand, StatusInHand, DomainLabels, Held
    <3>2. ReadyInHand'
      BY <2>1, <2>2, <2>4, ZeroIsBlank DEF ReadyInHand
    <3>3. AppliedInHand'
      BY <2>4, NothingApplied
    <3>. QED  BY <2>1, <2>4, <3>1, <3>2, <3>3, ReportingInCreate DEF CreateLabels
  <2>5. CASE at' = "resolve" /\ obj' = StatusProgressing(obj, "Reconciling")
    <3>1. obj'.status.phase = "Progressing"
      BY <1>0, <2>2, <2>5, StatusContents
    <3>2. (UnheldInHand /\ StatusInHand)'
      BY <2>5, <3>1 DEF UnheldInHand, StatusInHand
    <3>3. (AppliedInHand /\ ReadyInHand)'
      BY <2>5 DEF AppliedInHand, ReadyInHand
    <3>. QED  BY <2>1, <2>5, <3>2, <3>3, ReportingInCreate DEF CreateLabels
  <2>. QED  BY <1>6, <1>a, <2>3, <2>4, <2>5 DEF EnsureClusters
<1>7. CASE CheckAccessRequests \/ RenewAccess \/ DeleteAccess
  <2>1. Deleting /\ UNCHANGED <<kro, old>>
    BY <1>7 DEF CheckAccessRequests, RenewAccess, DeleteAccess, Deleting,
       DeleteLabels
  <2>2. at' \in {"status", "arDelete", "dAccess", "count", "del", "finDel"}
    BY <1>7, <1>a DEF CheckAccessRequests, RenewAccess, DeleteAccess
  <2>. QED  BY <2>1, <2>2, ReportingInDelete DEF DeleteLabels
<1>8. CASE RemoveFinalizer
  <2>1. at = "finDel" /\ UNCHANGED old
    BY <1>8 DEF RemoveFinalizer
  <2>2. Deleting
    BY <2>1 DEF Deleting, DeleteLabels
  <2>3. CASE TerminatingFails /\ UNCHANGED kro
    BY <1>a, <2>1, <2>2, <2>3, ReportingInDelete
  <2>4. CASE /\ fresh /\ kro' = NoKro /\ at' = "status"
             /\ obj' = [kro EXCEPT !.finalizer = FALSE]
    <3>1. kro \in Kro
      BY <1>0, <2>4 DEF TypeInv, InHand
    <3>2. obj'.status = old'
      BY <2>1, <2>2, <2>4, <3>1 DEF Reporting, DeletingIsCurrent, Kro
    <3>3. (UnheldIsBlank /\ ReadyInHand /\ ReadyMeansInstalled)'
      BY <2>4 DEF UnheldIsBlank, ReadyInHand, ReadyMeansInstalled
    <3>4. (OldIsCurrent /\ UnheldInHand)'
      BY <2>4, <3>2 DEF OldIsCurrent, UnheldInHand
    <3>5. (DeletingIsCurrent /\ StatusInHand)'
      BY <2>4 DEF DeletingIsCurrent, Deleting, DeleteLabels, StatusInHand,
         DomainLabels
    <3>6. AppliedInHand'
      BY <2>4, NothingApplied
    <3>. QED  BY <3>3, <3>4, <3>5, <3>6 DEF Reporting
  <2>. QED  BY <1>8, <1>a, <2>3, <2>4 DEF RemoveFinalizer
<1>9. CASE UpdateStatus
  BY <1>9, ReportingUpdate
<1>10. CASE Crash
  <2>1. UNCHANGED <<kro, flux>> /\ at' = "idle"
    BY <1>10, <1>a DEF Crash, clusterVars
  <2>. QED  BY <1>b, <2>1
<1>. QED  BY <1>1, <1>2, <1>3, <1>4, <1>5, <1>6, <1>7, <1>8, <1>9, <1>10
          DEF SPNext

\* A Kro that reports Ready and is not in deletion is held and fully
\* installed, and lists its objects as ready, whatever edits, deletions,
\* failed calls and crashes the status patches met.
THEOREM ReadyMeansInstalledHolds == Spec => []ReadyMeansInstalled
<1>1. Init => Reporting
  <2>. SUFFICES ASSUME Init PROVE Reporting
    OBVIOUS
  <2>1. at = "idle" /\ kro = NoKro
    BY DEF Init, WorldInit, WorkerInit
  <2>2. UnheldIsBlank /\ ReadyMeansInstalled /\ OldIsCurrent /\ UnheldInHand
    BY <2>1 DEF UnheldIsBlank, ReadyMeansInstalled, OldIsCurrent, UnheldInHand
  <2>3. DeletingIsCurrent /\ StatusInHand
    BY <2>1 DEF DeletingIsCurrent, Deleting, DeleteLabels, StatusInHand,
       DomainLabels
  <2>4. AppliedInHand /\ ReadyInHand
    BY <2>1 DEF AppliedInHand, ReadyInHand
  <2>. QED  BY <2>2, <2>3, <2>4 DEF Reporting
<1>2. TypeInv /\ Ownership /\ Shrinking /\ Reporting /\ [Next]_vars => Reporting'
  <2>1. ASSUME Reporting, UNCHANGED vars PROVE Reporting'
    <3>1. UNCHANGED <<kro, flux, at, obj, old>>
      BY <2>1 DEF vars, worldVars, clusterVars, workerVars
    <3>. QED  BY <2>1, <3>1 DEF Reporting, UnheldIsBlank, OldIsCurrent,
              DeletingIsCurrent, Deleting, UnheldInHand, StatusInHand,
              AppliedInHand, ReadyInHand, ReadyMeansInstalled, Complete, Held
  <2>. QED  BY <2>1, ReportingBeside, ReportingKro, ReportingSP
            DEF Next, WorkerNext
<1>3. Reporting => ReadyMeansInstalled
  BY DEF Reporting
<1>. QED  BY <1>1, <1>2, <1>3, LifecycleInvariant, PTL DEF Spec
=============================================================================
