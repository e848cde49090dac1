-------------------------- MODULE KroLifecycleProofs --------------------------
(***************************************************************************)
(* KroProvider implements InstanceLifecycle, and what follows from the     *)
(* order in which an instance is taken down.                               *)
(***************************************************************************)
EXTENDS KroProviderProofs

USE DEF Clusters, Managed, AccessStates, FluxStates

-----------------------------------------------------------------------------
(***************************************************************************)
(* What is in deletion, an access request or a Flux object, is there       *)
(* because delete put it there, and delete only runs for an object that    *)
(* stays in deletion until everything is gone.  The abstract steps that    *)
(* take something (Request) or remove something (Remove) rest on this.     *)
(***************************************************************************)
RevokedWhenClosing == LeavingClusters # {} => Stage = "closing"
RemovedWhenClosing == \A m \in Managed : flux[m] = "deleting"
                                           => Stage = "closing"

Shrinking == RevokedWhenClosing /\ RemovedWhenClosing

AbstractVars == <<Stage, HeldClusters, LeavingClusters, Installed>>

\* The stage of an instance that stays held, and is not taken up again by
\* createOrUpdate once it is in deletion, can only become closing.
LEMMA StageMoves ==
  ASSUME Held' <=> Held,
         Held /\ kro.deleting => kro'.deleting,
         Held /\ Creating' => Creating \/ ~kro'.deleting
  PROVE  Stage' = Stage \/ (Stage = "in" /\ Stage' = "closing")
  BY DEF Stage

\* The same when the step leaves the object alone.
LEMMA StageLocal ==
  ASSUME UNCHANGED kro, Creating' => Creating \/ ~kro.deleting
  PROVE  Stage' = Stage \/ (Stage = "in" /\ Stage' = "closing")
  BY StageMoves DEF Held

\* A step that changes nothing but the stage, and that only to closing, is a
\* step of the abstract specification or leaves its state alone.
LEMMA ClosesOrStutters ==
  ASSUME UNCHANGED <<HeldClusters, LeavingClusters, Installed>>,
         Stage' = Stage \/ (Stage = "in" /\ Stage' = "closing")
  PROVE  [Lifecycle!Next]_AbstractVars
  BY DEF Lifecycle!Next, Lifecycle!Close, AbstractVars

\* A step that leaves the access requests and the Flux objects alone.
LEMMA NothingMoves ==
  UNCHANGED <<access, flux>>
    => UNCHANGED <<HeldClusters, LeavingClusters, Installed>>
  BY DEF HeldClusters, LeavingClusters, Installed

\* The worker is in createOrUpdate at the labels of CreateLabels, and not at
\* those of delete or at the deferred status update.
LEMMA CreatingLabels ==
  /\ at \in CreateLabels => Creating
  /\ at' \in {"idle", "consume", "status"} \cup DeleteLabels => ~Creating'
  /\ at' = "load" => (Creating' <=> ~obj'.deleting)
  BY DEF Creating, CreateLabels, DeleteLabels

-----------------------------------------------------------------------------
(***************************************************************************)
(* Every step of the system is a step of the abstract lifecycle.           *)
(***************************************************************************)

\* What the users can do to the Kro object: create it, remove it when it is
\* not held, or write fields of it other than the finalizer and the status.
UserEdit ==
  \/ UNCHANGED kro
  \/ /\ kro = NoKro
     /\ kro' \in Kro /\ ~kro'.finalizer /\ ~kro'.deleting
     /\ kro'.status = ZeroStatus
  \/ kro # NoKro /\ ~kro.finalizer /\ kro' = NoKro
  \/ /\ kro # NoKro
     /\ kro' \in Kro /\ (kro.deleting => kro'.deleting)
     /\ kro'.finalizer = kro.finalizer /\ kro'.status = kro.status

\* The users' steps do no more than that, and touch no cluster.
LEMMA UserFacts ==
  ASSUME TypeInv, UserNext
  PROVE  UserEdit /\ UNCHANGED <<workerVars, access, flux, chart, values, replicas>>
<1>0. kro # NoKro => kro \in Kro
  BY DEF TypeInv, TypeOK, WorldTypeOK
<1>1. UNCHANGED <<workerVars, access, flux, chart, values, replicas>>
  BY DEF UserNext, Beside, CreateKro, SetVersion, DeleteKro, Annotate,
     CreateRGD, DeleteRGD, ApplyConfig, UserRest, RGDRest, clusterVars
<1>. USE DEF Beside, Write
<1>2. ASSUME NEW v \in Versions, Beside(CreateKro(v))
      PROVE  /\ kro = NoKro
             /\ kro' \in Kro /\ ~kro'.finalizer /\ ~kro'.deleting
             /\ kro'.status = ZeroStatus
  <2>1. kro = NoKro /\ kro' = NewKro(v)
    BY <1>2 DEF CreateKro
  <2>2. NewKro(v) \in Kro
    BY NewKroType
  <2>. QED  BY <2>1, <2>2 DEF NewKro
<1>3. ASSUME NEW v \in Versions, Beside(SetVersion(v))
      PROVE  /\ kro # NoKro
             /\ kro' \in Kro /\ (kro.deleting => kro'.deleting)
             /\ kro'.finalizer = kro.finalizer /\ kro'.status = kro.status
  BY <1>0, <1>3 DEF SetVersion, Kro
<1>4. ASSUME NEW op \in Operations, Beside(Annotate(op))
      PROVE  /\ kro # NoKro
             /\ kro' \in Kro /\ (kro.deleting => kro'.deleting)
             /\ kro'.finalizer = kro.finalizer /\ kro'.status = kro.status
  BY <1>0, <1>4 DEF Annotate, Kro
<1>5. ASSUME Beside(DeleteKro), kro.finalizer
      PROVE  /\ kro # NoKro
             /\ kro' \in Kro /\ (kro.deleting => kro'.deleting)
             /\ kro'.finalizer = kro.finalizer /\ kro'.status = kro.status
  BY <1>0, <1>5 DEF DeleteKro, Kro
<1>6. ASSUME Beside(DeleteKro), ~kro.finalizer
      PROVE  kro # NoKro /\ ~kro.finalizer /\ kro' = NoKro
  BY <1>6 DEF DeleteKro
<1>7. ASSUME \/ Beside(CreateRGD) \/ Beside(DeleteRGD)
             \/ \E o \in Offers \cup {NoConfig} : Beside(ApplyConfig(o))
      PROVE  UNCHANGED kro
  BY <1>7 DEF CreateRGD, DeleteRGD, ApplyConfig, RGDRest
<1>. QED  BY <1>1, <1>2, <1>3, <1>4, <1>5, <1>6, <1>7 DEF UserNext, UserEdit

\* A user's deletion request closes an instance, unless createOrUpdate is
\* still at work on it; no other edit changes the abstract state.
LEMMA UserSteps ==
  ASSUME TypeInv, Ownership, UserNext
  PROVE  [Lifecycle!Next]_AbstractVars
<1>1. UNCHANGED <<HeldClusters, LeavingClusters, Installed>>
  BY UserFacts, NothingMoves
<1>2. Creating' <=> Creating
  BY UserFacts DEF Creating, workerVars
<1>3. Held' <=> Held
  BY UserFacts, NoKroAssumption DEF UserEdit, Held
<1>4. Held /\ kro.deleting => kro'.deleting
  BY UserFacts DEF UserEdit, Held
<1>. QED  BY <1>1, <1>2, <1>3, <1>4, StageMoves, ClosesOrStutters

\* The platform ends revocations, Flux ends removals, and nothing else that
\* they do changes the abstract state.
LEMMA WorldSteps ==
  ASSUME TypeInv, Ownership, Shrinking, PlatformNext \/ FluxNext
  PROVE  [Lifecycle!Next]_AbstractVars
<1>0. /\ access \in [Clusters -> AccessStates]
      /\ flux \in [Managed -> FluxStates]
  BY DEF TypeInv, TypeOK, WorldTypeOK
<1>1. UNCHANGED <<kro, workerVars>>
  BY DEF PlatformNext, FluxNext, Beside, ConfigEvent, ConfigReadError,
     TimerFires, Grant, Lapse, FinishRevoke, AccessRest, FluxReconcile,
     FluxUnready, FluxFinalize, Drift, FluxRest
<1>2. Stage' = Stage
  BY <1>1 DEF Stage, Held, Creating, workerVars
<1>3. ASSUME UNCHANGED <<HeldClusters, LeavingClusters, Installed>>
      PROVE  [Lifecycle!Next]_AbstractVars
  BY <1>2, <1>3, ClosesOrStutters
<1>. USE DEF Beside, clusterVars
<1>4. CASE Beside(ConfigEvent) \/ Beside(ConfigReadError) \/ Beside(TimerFires)
  BY <1>3, <1>4, NothingMoves DEF ConfigEvent, ConfigReadError, TimerFires
<1>5. ASSUME NEW c \in Clusters, Beside(Grant(c)) \/ Beside(Lapse(c))
      PROVE  [Lifecycle!Next]_AbstractVars
  BY <1>0, <1>3, <1>5 DEF Grant, Lapse, AccessRest, HeldClusters,
     LeavingClusters, Installed
<1>6. ASSUME NEW c \in Clusters, Beside(FinishRevoke(c))
      PROVE  [Lifecycle!Next]_AbstractVars
  <2>1. c \in LeavingClusters
    BY <1>6 DEF FinishRevoke, LeavingClusters
  <2>2. LeavingClusters' = LeavingClusters \ {c}
    BY <1>0, <1>6 DEF FinishRevoke, LeavingClusters
  <2>3. UNCHANGED HeldClusters
    BY <1>0, <1>6 DEF FinishRevoke, HeldClusters
  <2>4. UNCHANGED Installed
    BY <1>6 DEF FinishRevoke, AccessRest, Installed
  <2>. QED  BY <1>2, <2>1, <2>2, <2>3, <2>4 DEF Lifecycle!Next,
            Lifecycle!Revoked
<1>7. ASSUME NEW m \in Managed,
             Beside(FluxReconcile(m)) \/ Beside(FluxUnready(m))
      PROVE  [Lifecycle!Next]_AbstractVars
  BY <1>0, <1>3, <1>7 DEF FluxReconcile, FluxUnready, FluxRest, HeldClusters,
     LeavingClusters, Installed
<1>8. ASSUME NEW m \in Managed, Beside(FluxFinalize(m))
      PROVE  [Lifecycle!Next]_AbstractVars
  <2>1. Stage = "closing" /\ m \in Installed
    BY <1>8 DEF FluxFinalize, Shrinking, RemovedWhenClosing, Installed
  <2>2. HeldClusters = Clusters
    BY <2>1 DEF Ownership, Anywhere, AccessOutlivesReleases, AccessUp,
       HeldClusters
  <2>3. Installed' = Installed \ {m}
    BY <1>0, <1>8 DEF FluxFinalize, Installed
  <2>4. UNCHANGED <<HeldClusters, LeavingClusters>>
    BY <1>8 DEF FluxFinalize, FluxRest, HeldClusters, LeavingClusters
  <2>5. Lifecycle!Remove(m)
    BY <1>2, <2>1, <2>2, <2>3, <2>4, Zenon DEF Lifecycle!Remove
  <2>. QED  BY <2>5 DEF Lifecycle!Next
<1>9. ASSUME NEW c \in Charts \ Private, Beside(Drift(c))
      PROVE  [Lifecycle!Next]_AbstractVars
  BY <1>3, <1>9, NothingMoves DEF Drift, FluxRest
<1>. QED  BY <1>4, <1>5, <1>6, <1>7, <1>8, <1>9 DEF PlatformNext, FluxNext

\* The generic loop claims the instance, requests and revokes access, and
\* releases the claim last.
LEMMA SPSteps ==
  ASSUME TypeInv, Ownership, Shrinking, SPNext \/ Crash
  PROVE  [Lifecycle!Next]_AbstractVars
<1>0. /\ access \in [Clusters -> AccessStates]
      /\ kro # NoKro => kro \in Kro
  BY DEF TypeInv, TypeOK, WorldTypeOK
<1>a. ASSUME UNCHANGED <<kro, access, flux>>, Creating' => Creating \/ ~kro.deleting
      PROVE  [Lifecycle!Next]_AbstractVars
  BY <1>a, StageLocal, NothingMoves, ClosesOrStutters
<1>b. /\ CreateFails => at' = "status"
      /\ TerminatingFails => at' = "status"
      /\ \A o, again : Return(o, again) => at' = "status"
      /\ \A label, o : GoTo(label, o) => at' = label /\ obj' = o
      /\ Idle => at' = "idle"
      /\ \A o : Begin(o) => at' = "load" /\ obj' = o
  BY DEF CreateFails, TerminatingFails, Return, GoTo, Idle, Begin
<1>c. ASSUME kro \in Kro, UNCHANGED <<access, flux>>, kro' \in Kro,
             kro'.finalizer = kro.finalizer, kro'.deleting = kro.deleting,
             Creating' => Creating \/ ~kro'.deleting
      PROVE  [Lifecycle!Next]_AbstractVars
  <2>1. Held' <=> Held
    BY <1>c, NoKroAssumption DEF Held
  <2>. QED  BY <1>c, <2>1, StageMoves, NothingMoves, ClosesOrStutters
<1>. USE DEF Others, Locals, World, Platform
<1>1. CASE GetObject
  <2>1. UNCHANGED <<kro, access, flux>>
    BY <1>1 DEF GetObject
  <2>2. CASE UNCHANGED workerVars
    BY <1>a, <2>1, <2>2 DEF Creating, workerVars
  <2>3. CASE at' = "consume"
    BY <1>a, <2>1, <2>3, CreatingLabels
  <2>4. CASE at' = "load" /\ obj' = kro
    BY <1>a, <2>1, <2>4, CreatingLabels
  <2>. QED  BY <1>1, <1>b, <2>2, <2>3, <2>4 DEF GetObject, workerVars
<1>2. CASE ConsumeAnnotation
  <2>1. CASE Idle /\ UNCHANGED kro
    BY <1>2, <1>a, <1>b, <2>1, CreatingLabels DEF ConsumeAnnotation
  <2>2. CASE /\ kro # NoKro /\ kro' = [kro EXCEPT !.op = "none"]
             /\ Begin([kro EXCEPT !.op = "none"])
    <3>1. /\ kro \in Kro /\ kro' \in Kro
          /\ kro'.finalizer = kro.finalizer /\ kro'.deleting = kro.deleting
      BY <1>0, <2>2 DEF Kro, Operations
    <3>2. Creating' => ~kro'.deleting
      BY <1>b, <2>2, CreatingLabels
    <3>. QED  BY <1>2, <1>c, <3>1, <3>2 DEF ConsumeAnnotation
  <2>. QED  BY <1>2, <2>1, <2>2 DEF ConsumeAnnotation
<1>3. CASE LoadConfig
  <2>1. at' = "status" \/ at' = "arCheck" \/ (at = "load" /\ ~obj.deleting)
    BY <1>3, <1>b DEF LoadConfig
  <2>2. Creating' => Creating
    BY <2>1, CreatingLabels DEF DeleteLabels, Creating
  <2>. QED  BY <1>3, <1>a, <2>2 DEF LoadConfig
<1>4. CASE AddFinalizerGet
  <2>1. Creating
    BY <1>4, CreatingLabels DEF AddFinalizerGet, CreateLabels
  <2>. QED  BY <1>4, <1>a, <2>1 DEF AddFinalizerGet
<1>5. CASE AddFinalizerPut
  <2>1. Creating
    BY <1>5, CreatingLabels DEF AddFinalizerPut, CreateLabels
  <2>2. CASE UNCHANGED kro
    BY <1>5, <1>a, <2>1, <2>2 DEF AddFinalizerPut
  <2>3. CASE fresh /\ kro' = [kro EXCEPT !.finalizer = TRUE] /\ at' = "access"
    <3>1. /\ kro # NoKro /\ kro \in Kro /\ kro' \in Kro
          /\ kro'.finalizer /\ kro'.deleting = kro.deleting
      BY <1>0, <2>3 DEF TypeInv, InHand, Kro
    <3>2. Creating'
      BY <2>3 DEF Creating, CreateLabels
    <3>3. Held' /\ Stage' = "in"
      BY <3>1, <3>2, NoKroAssumption DEF Held, Stage
    <3>4. CASE Held
      BY <1>5, <2>1, <3>3, <3>4, NothingMoves, ClosesOrStutters
         DEF AddFinalizerPut, Stage
    <3>5. CASE ~Held
      <4>1. Stage = "out"
        BY <3>5 DEF Stage
      <4>2. UNCHANGED <<HeldClusters, LeavingClusters, Installed>>
        BY <1>5, NothingMoves DEF AddFinalizerPut
      <4>. QED  BY <3>3, <4>1, <4>2 DEF Lifecycle!Next, Lifecycle!Claim
    <3>. QED  BY <3>4, <3>5
  <2>. QED  BY <1>5, <1>b, <2>2, <2>3 DEF AddFinalizerPut
<1>6. CASE EnsureClusters
  <2>1. Creating /\ Held /\ Stage = "in"
    BY <1>6, CreatingLabels DEF EnsureClusters, CreateLabels, Ownership,
       AtLabel, CreateIsHeld, HeldLabels, Stage
  <2>2. LeavingClusters = {}
    BY <2>1 DEF Shrinking, RevokedWhenClosing
  <2>3. Stage' \in {"in", "closing"}
    BY <1>6, <2>1 DEF EnsureClusters, Stage, Held
  <2>4. UNCHANGED Installed
    BY <1>6 DEF EnsureClusters, Installed
  <2>5. ASSUME NEW S \in SUBSET Clusters, RequestAccess(S)
        PROVE  Lifecycle!Request
    <3>1. LeavingClusters' = {}
      BY <1>0, <2>2, <2>5 DEF RequestAccess, LeavingClusters
    <3>2. HeldClusters' = HeldClusters \cup {c \in S : access[c] = "absent"}
      BY <1>0, <2>5 DEF RequestAccess, HeldClusters
    <3>3. {c \in S : access[c] = "absent"} \in SUBSET Clusters
      OBVIOUS
    <3>. QED  BY <2>1, <2>2, <2>3, <2>4, <3>1, <3>2, <3>3
              DEF Lifecycle!Request, Lifecycle!MayClose
  <2>6. CASE UNCHANGED access
    BY <1>6, <1>a, <2>1, <2>6 DEF EnsureClusters
  <2>. QED  BY <1>6, <2>5, <2>6 DEF EnsureClusters, Lifecycle!Next
<1>7. CASE CheckAccessRequests
  <2>1. at' \in {"status"} \cup DeleteLabels
    BY <1>7, <1>b DEF CheckAccessRequests, DeleteLabels
  <2>. QED  BY <1>7, <1>a, <2>1, CreatingLabels DEF CheckAccessRequests
<1>8. CASE RenewAccess
  <2>1. AccessUp
    BY <1>8 DEF RenewAccess, Ownership, AtLabel, ReachIsUp, ReachLabels
  <2>2. access' = access
    BY <1>0, <1>8, <2>1 DEF RenewAccess, RequestAccess, AccessUp
  <2>3. at' \in {"status"} \cup DeleteLabels
    BY <1>8, <1>b DEF RenewAccess, DeleteLabels
  <2>. QED  BY <1>8, <1>a, <2>2, <2>3, CreatingLabels DEF RenewAccess
<1>9. CASE DeleteAccess
  <2>1. at' \in {"status"} \cup DeleteLabels
    BY <1>9, <1>b DEF DeleteAccess, DeleteLabels
  <2>2. at = "arDelete" /\ Held /\ kro.deleting /\ Installed = {}
    BY <1>9 DEF DeleteAccess, Ownership, AtLabel, DeleteIsHeld, Deleting,
       DeleteLabels, TornDown
  <2>3. Stage = "closing"
    BY <2>2 DEF Stage, Creating, CreateLabels
  <2>4. Stage' = "closing"
    BY <1>9, <2>1, <2>2, CreatingLabels DEF DeleteAccess, Stage, Held
  <2>5. UNCHANGED Installed
    BY <1>9 DEF DeleteAccess, Installed
  <2>6. ASSUME NEW S \in SUBSET Clusters, RevokeAccess(S)
        PROVE  Lifecycle!Revoke
    <3>. DEFINE T == {c \in S : access[c] \in {"pending", "granted"}}
    <3>1. T \in SUBSET HeldClusters
      BY DEF HeldClusters
    <3>2. HeldClusters' = HeldClusters \ T
      BY <1>0, <2>6 DEF RevokeAccess, HeldClusters
    <3>3. LeavingClusters' = LeavingClusters \cup T
      BY <1>0, <2>6 DEF RevokeAccess, LeavingClusters
    <3>. HIDE DEF T
    <3>. QED  BY <2>2, <2>3, <2>4, <2>5, <3>1, <3>2, <3>3
              DEF Lifecycle!Revoke
  <2>7. CASE UNCHANGED access
    BY <1>9, <1>a, <2>1, <2>7, CreatingLabels DEF DeleteAccess
  <2>. QED  BY <1>9, <2>6, <2>7 DEF DeleteAccess, Lifecycle!Next
<1>10. CASE RemoveFinalizer
  <2>1. CASE UNCHANGED kro
    BY <1>10, <1>a, <1>b, <2>1, CreatingLabels DEF RemoveFinalizer
  <2>2. CASE kro' = NoKro
    <3>1. /\ at = "finDel" /\ Held /\ kro.deleting
          /\ Installed = {} /\ NoAccess
      BY <1>10 DEF RemoveFinalizer, Ownership, AtLabel, DeleteIsHeld, Deleting,
         DeleteLabels, TornDown
    <3>2. Stage = "closing" /\ Stage' = "out"
      BY <2>2, <3>1 DEF Stage, Held, Creating, CreateLabels
    <3>3. HeldClusters = {} /\ LeavingClusters = {}
      BY <3>1 DEF NoAccess, HeldClusters, LeavingClusters
    <3>4. UNCHANGED <<HeldClusters, LeavingClusters, Installed>>
      BY <1>10, NothingMoves DEF RemoveFinalizer
    <3>. QED  BY <3>1, <3>2, <3>3, <3>4 DEF Lifecycle!Next, Lifecycle!Release
  <2>. QED  BY <1>10, <2>1, <2>2 DEF RemoveFinalizer
<1>11. CASE UpdateStatus
  <2>0. ~Creating'
    BY <1>11, <1>b, CreatingLabels DEF UpdateStatus
  <2>1. CASE UNCHANGED kro
    BY <1>11, <1>a, <2>0, <2>1 DEF UpdateStatus
  <2>2. ASSUME kro # NoKro,
               kro' = [kro EXCEPT !.status = MergePatch(kro.status, old, obj.status)]
        PROVE  [Lifecycle!Next]_AbstractVars
    <3>1. kro.status \in KroStatus /\ obj.status \in KroStatus /\ old \in KroStatus
      BY <1>0, <1>11, <2>2
         DEF UpdateStatus, TypeInv, TypeOK, WorkerTypeOK, InHand, Kro
    <3>2. kro' \in Kro
      BY <1>0, <2>2, <3>1, MergePatchType, WriteFacts
    <3>3. kro'.finalizer = kro.finalizer /\ kro'.deleting = kro.deleting
      BY <1>0, <2>2 DEF Kro
    <3>. QED  BY <1>0, <1>11, <1>c, <2>0, <2>2, <3>2, <3>3 DEF UpdateStatus
  <2>. QED  BY <1>11, <2>1, <2>2 DEF UpdateStatus
<1>12. CASE Crash
  BY <1>12, <1>a, <1>b, CreatingLabels DEF Crash, clusterVars
<1>. QED  BY <1>1, <1>2, <1>3, <1>4, <1>5, <1>6, <1>7, <1>8, <1>9, <1>10,
             <1>11, <1>12 DEF SPNext

\* The domain reconciler creates objects while the instance is claimed and
\* both clusters are held, and leaves the rest of the abstract state alone.
LEMMA KroSteps ==
  ASSUME TypeInv, Ownership, KroNext
  PROVE  [Lifecycle!Next]_AbstractVars
<1>0. flux \in [Managed -> FluxStates]
  BY DEF TypeInv, TypeOK, WorldTypeOK
<1>a. UNCHANGED <<kro, access>>
  BY DEF KroNext, ResolveVersion, ReplicateChartPullSecret,
     ReplicateImagePullSecrets, ReplicateMCPKubeconfig, Replicate,
     CreateOrUpdateOCIRepository, CreateOrUpdateMCPCRDsHelmRelease,
     CreateOrUpdateHelmRelease, CountResourceGraphDefinitions, DeleteObject,
     GetDeletedObject, Domain, World
<1>b. /\ CreateFails => at' = "status"
      /\ TerminatingFails => at' = "status"
      /\ \A o, again : Return(o, again) => at' = "status"
      /\ \A label, o : GoTo(label, o) => at' = label /\ obj' = o
  BY DEF CreateFails, TerminatingFails, Return, GoTo
<1>c. ASSUME UNCHANGED Installed, Creating' => Creating
      PROVE  [Lifecycle!Next]_AbstractVars
  BY <1>a, <1>c, StageLocal, ClosesOrStutters DEF HeldClusters, LeavingClusters
<1>d. ASSUME at \in {"oci", "crds", "hr"}, NEW m \in Managed, Apply(m)
      PROVE  [Lifecycle!Next]_AbstractVars
  <2>1. Held /\ Creating /\ AccessUp
    BY <1>d, CreatingLabels DEF Ownership, AtLabel, CreateIsHeld, ReachIsUp,
       HeldLabels, ReachLabels, CreateLabels
  <2>2. Stage = "in" /\ Stage' \in {"in", "closing"}
    BY <1>a, <2>1 DEF Stage, Held
  <2>3. HeldClusters = Clusters /\ UNCHANGED <<HeldClusters, LeavingClusters>>
    BY <1>a, <2>1 DEF AccessUp, HeldClusters, LeavingClusters
  <2>4. Installed' = Installed \cup {m}
    BY <1>0, <1>d DEF Apply, Installed
  <2>5. Lifecycle!Create(m)
    BY <2>2, <2>3, <2>4, Zenon DEF Lifecycle!Create, Lifecycle!MayClose
  <2>. QED  BY <2>5 DEF Lifecycle!Next
<1>e. at \in CreateLabels => Creating
  BY CreatingLabels
<1>1. CASE \/ ResolveVersion \/ ReplicateChartPullSecret
           \/ ReplicateImagePullSecrets \/ ReplicateMCPKubeconfig
  <2>1. at \in CreateLabels /\ UNCHANGED flux
    BY <1>1 DEF ResolveVersion, ReplicateChartPullSecret,
       ReplicateImagePullSecrets, ReplicateMCPKubeconfig, Replicate, Platform,
       CreateLabels
  <2>. QED  BY <1>c, <1>e, <2>1 DEF Installed
<1>2. CASE \/ CreateOrUpdateOCIRepository \/ CreateOrUpdateMCPCRDsHelmRelease
           \/ CreateOrUpdateHelmRelease
  <2>1. at \in {"oci", "crds", "hr"}
    BY <1>2 DEF CreateOrUpdateOCIRepository, CreateOrUpdateMCPCRDsHelmRelease,
       CreateOrUpdateHelmRelease
  <2>2. UNCHANGED flux \/ Apply("oci") \/ Apply("crds") \/ Apply("hr")
    BY <1>2 DEF CreateOrUpdateOCIRepository, CreateOrUpdateMCPCRDsHelmRelease,
       CreateOrUpdateHelmRelease
  <2>. QED  BY <1>c, <1>d, <1>e, <2>1, <2>2 DEF Installed, CreateLabels
<1>3. CASE CountResourceGraphDefinitions \/ DeleteObject \/ GetDeletedObject
  <2>1. at' \in {"status"} \cup DeleteLabels
    BY <1>3, <1>b DEF CountResourceGraphDefinitions, DeleteObject,
       GetDeletedObject, DeleteLabels
  <2>2. UNCHANGED Installed
    BY <1>0, <1>3 DEF CountResourceGraphDefinitions, DeleteObject,
       GetDeletedObject, Platform, Installed
  <2>. QED  BY <1>c, <2>1, <2>2, CreatingLabels
<1>. QED  BY <1>1, <1>2, <1>3 DEF KroNext

\* Every step, or stutter, of the system is one of the abstract lifecycle.
LEMMA LifecycleSteps ==
  ASSUME TypeInv, Ownership, Shrinking, [Next]_vars
  PROVE  [Lifecycle!Next]_AbstractVars
<1>1. CASE UNCHANGED vars
  BY <1>1 DEF vars, worldVars, clusterVars, workerVars, AbstractVars, Stage,
     Held, Creating, HeldClusters, LeavingClusters, Installed
<1>. QED  BY <1>1, UserSteps, WorldSteps, SPSteps, KroSteps
          DEF Next, WorkerNext

\* Only Delete puts a Flux object in deletion, for an instance that closes.
LEMMA OnlyDeleteRemoves ==
  ASSUME TypeInv, Ownership, [Next]_vars, NEW m \in Managed,
         flux[m] # "deleting", flux'[m] = "deleting"
  PROVE  Stage' = "closing"
<1>0. flux \in [Managed -> FluxStates]
  BY DEF TypeInv, TypeOK, WorldTypeOK
<1>1. ~UNCHANGED flux
  OBVIOUS
<1>2. ~UserNext
  BY <1>1, UserFacts
<1>3. ~PlatformNext
  BY <1>1 DEF PlatformNext, Beside, ConfigEvent, ConfigReadError, TimerFires,
     Grant, Lapse, FinishRevoke, AccessRest, clusterVars
<1>4. ~FluxNext
  BY <1>0, <1>1 DEF FluxNext, Beside, FluxReconcile, FluxUnready,
     FluxFinalize, Drift
<1>5. ~SPNext /\ ~Crash
  BY <1>1 DEF SPNext, Crash, GetObject, ConsumeAnnotation, LoadConfig,
     AddFinalizerGet, AddFinalizerPut, EnsureClusters, CheckAccessRequests,
     RenewAccess, DeleteAccess, RemoveFinalizer, UpdateStatus, Platform,
     clusterVars
<1>6. ~UNCHANGED vars
  BY <1>1 DEF vars, worldVars, clusterVars
<1>7. \A n \in Managed : ~Apply(n)
  BY <1>0 DEF Apply
<1>8. DeleteObject
  BY <1>1, <1>2, <1>3, <1>4, <1>5, <1>6, <1>7 DEF Next, WorkerNext, KroNext,
     ResolveVersion, ReplicateChartPullSecret, ReplicateImagePullSecrets,
     ReplicateMCPKubeconfig, Replicate, CreateOrUpdateOCIRepository,
     CreateOrUpdateMCPCRDsHelmRelease, CreateOrUpdateHelmRelease,
     CountResourceGraphDefinitions, GetDeletedObject, Platform
<1>9. Held /\ kro.deleting
  BY <1>8 DEF DeleteObject, Ownership, AtLabel, DeleteIsHeld, Deleting,
     DeleteLabels
<1>10. at' \in {"status", "get"} /\ UNCHANGED kro
  BY <1>8 DEF DeleteObject, TerminatingFails, Return, GoTo, Domain, World
<1>. QED  BY <1>9, <1>10, CreatingLabels DEF Stage, Held, DeleteLabels

\* Shrinking is kept: the abstract lifecycle stays in closing until nothing
\* is left of the instance.
LEMMA ShrinkingKept ==
  ASSUME TypeInv, Ownership, Shrinking, [Next]_vars
  PROVE  Shrinking'
<1>1. [Lifecycle!Next]_AbstractVars
  BY LifecycleSteps
<1>2. RevokedWhenClosing'
  BY <1>1 DEF Shrinking, RevokedWhenClosing, AbstractVars, Lifecycle!Next,
     Lifecycle!Claim, Lifecycle!Close, Lifecycle!Request, Lifecycle!Create,
     Lifecycle!Remove, Lifecycle!Revoke, Lifecycle!Revoked, Lifecycle!Release,
     Lifecycle!MayClose
<1>3. Stage = "closing" /\ Installed # {} => Stage' = "closing"
  BY <1>1 DEF AbstractVars, Lifecycle!Next, Lifecycle!Claim, Lifecycle!Close,
     Lifecycle!Request, Lifecycle!Create, Lifecycle!Remove, Lifecycle!Revoke,
     Lifecycle!Revoked, Lifecycle!Release, Lifecycle!MayClose
<1>4. ASSUME NEW m \in Managed, flux'[m] = "deleting"
      PROVE  Stage' = "closing"
  <2>1. CASE flux[m] = "deleting"
    BY <1>3, <2>1 DEF Shrinking, RemovedWhenClosing, Installed
  <2>2. CASE flux[m] # "deleting"
    BY <1>4, <2>2, OnlyDeleteRemoves
  <2>. QED  BY <2>1, <2>2
<1>. QED  BY <1>2, <1>4 DEF Shrinking, RemovedWhenClosing

\* The inductive invariant of the lifecycle.
LEMMA LifecycleInvariant == Spec => [](TypeInv /\ Ownership /\ Shrinking)
<1>1. Init => Shrinking
  BY DEF Init, WorldInit, Shrinking, RevokedWhenClosing, RemovedWhenClosing,
     LeavingClusters
<1>. QED  BY <1>1, OwnershipInvariant, ShrinkingKept, PTL DEF Spec

\* The code implements the abstract lifecycle: what it takes for an instance
\* it takes in brackets, nothing is taken once closing has begun, and a
\* release is removed only while both clusters are held.
THEOREM ImplementsLifecycle == Spec => LifecycleSpec
<1>1. Init => Lifecycle!Init
  BY DEF Init, WorldInit, Lifecycle!Init, Stage, Held, HeldClusters,
     LeavingClusters, Installed
<1>2. TypeInv /\ Ownership /\ Shrinking /\ [Next]_vars
        => [Lifecycle!Next]_(Lifecycle!lifecycleVars)
  BY LifecycleSteps DEF AbstractVars, Lifecycle!lifecycleVars
<1>. QED  BY <1>1, <1>2, LifecycleInvariant, PTL
          DEF Spec, LifecycleSpec, Lifecycle!Spec

-----------------------------------------------------------------------------
(***************************************************************************)
(* The tenant's ResourceGraphDefinitions.  Delete looks for them only when *)
(* it can reach both clusters; as long as a granted access stays granted,  *)
(* it can whenever there is something to take down.                        *)
(***************************************************************************)
DomainLabels == {"resolve", "pullSecret", "oci", "imageSecrets", "kubeconfig",
                 "crds", "hr"}

GrantedWhenInstalled == Installed # {} => AllGranted
GrantedInDomain      == at \in DomainLabels => AllGranted
CountedBeforeLoop    == at \in {"del", "get"} => rgds = 0

Guarded == /\ GrantedWhenInstalled /\ GrantedInDomain /\ CountedBeforeLoop
           /\ InstallationOutlivesRGDs

\* A step of someone else keeps the tenant's definitions guarded: none is
\* created for a closing instance, and Flux ends only what is in deletion.
LEMMA GuardedBeside ==
  ASSUME ~AccessMayLapse, ~LateRGDs, TypeInv, Ownership, Shrinking, Guarded,
         UserNext \/ PlatformNext \/ FluxNext
  PROVE  Guarded'
<1>0. /\ access \in [Clusters -> AccessStates]
      /\ flux \in [Managed -> FluxStates]
      /\ rgds \in Nat
  BY BoundAssumption DEF TypeInv, TypeOK, WorldTypeOK
<1>1. ASSUME UNCHANGED workerVars,
             AllGranted => AllGranted',
             \A m \in Managed : flux[m] = "absent" => flux'[m] = "absent",
             (CountedBeforeLoop /\ InstallationOutlivesRGDs)'
      PROVE  Guarded'
  <2>1. Installed' \subseteq Installed
    BY <1>1 DEF Installed
  <2>. QED  BY <1>1, <2>1 DEF Guarded, GrantedWhenInstalled, GrantedInDomain,
            workerVars
<1>2. ASSUME UNCHANGED <<workerVars, access, flux>>,
             (CountedBeforeLoop /\ InstallationOutlivesRGDs)'
      PROVE  Guarded'
  BY <1>1, <1>2 DEF AllGranted
<1>3. ASSUME UNCHANGED <<workerVars, rgds, flux>>, AllGranted => AllGranted'
      PROVE  Guarded'
  BY <1>1, <1>3 DEF Guarded, CountedBeforeLoop, InstallationOutlivesRGDs,
     workerVars
<1>. USE DEF Beside, clusterVars
<1>4. CASE Beside(CreateRGD)
  <2>1. flux["crds"] = "ready" /\ kro # NoKro /\ ~kro.deleting
    BY <1>4 DEF CreateRGD
  <2>2. \A m \in Managed : flux[m] # "deleting"
    BY <2>1 DEF Shrinking, RemovedWhenClosing, Stage
  <2>3. at \notin {"del", "get"}
    BY <2>1 DEF Ownership, AtLabel, DeleteIsHeld, Deleting, DeleteLabels
  <2>4. UNCHANGED <<workerVars, access, flux>>
    BY <1>4 DEF CreateRGD, RGDRest
  <2>. QED  BY <1>2, <2>1, <2>2, <2>3, <2>4 DEF CountedBeforeLoop,
            InstallationOutlivesRGDs, workerVars
<1>5. CASE Beside(DeleteRGD)
  <2>1. UNCHANGED <<workerVars, access, flux>>
    BY <1>5 DEF DeleteRGD, RGDRest
  <2>2. rgds > 0 /\ rgds' = rgds - 1
    BY <1>5 DEF DeleteRGD
  <2>. QED  BY <1>0, <1>2, <2>1, <2>2 DEF Guarded, CountedBeforeLoop,
            InstallationOutlivesRGDs, workerVars
<1>6. CASE UserNext /\ ~Beside(CreateRGD) /\ ~Beside(DeleteRGD)
  <2>1. UNCHANGED <<workerVars, access, flux>>
    BY <1>6, UserFacts
  <2>2. UNCHANGED rgds
    BY <1>6 DEF UserNext, CreateKro, SetVersion, DeleteKro, Annotate,
       ApplyConfig, UserRest
  <2>. QED  BY <1>3, <2>1, <2>2 DEF AllGranted
<1>7. CASE PlatformNext
  <2>1. UNCHANGED <<workerVars, rgds, flux>>
    BY <1>7 DEF PlatformNext, ConfigEvent, ConfigReadError, TimerFires, Grant,
       Lapse, FinishRevoke, AccessRest
  <2>2. AllGranted => AllGranted'
    BY <1>0, <1>7 DEF PlatformNext, ConfigEvent, ConfigReadError, TimerFires,
       Grant, Lapse, FinishRevoke, AllGranted
  <2>. QED  BY <1>3, <2>1, <2>2
<1>8. CASE FluxNext
  <2>1. UNCHANGED <<workerVars, rgds, access>>
    BY <1>8 DEF FluxNext, FluxReconcile, FluxUnready, FluxFinalize, Drift,
       FluxRest
  <2>2. \A m \in Managed : flux'[m] # flux[m] =>
          \/ flux[m] \in {"progressing", "ready"} /\ flux'[m] \in {"progressing", "ready"}
          \/ flux[m] = "deleting" /\ flux'[m] = "absent"
    BY <1>0, <1>8 DEF FluxNext, FluxReconcile, FluxUnready, FluxFinalize, Drift
  <2>3. InstallationOutlivesRGDs'
    BY <1>0, <2>1, <2>2 DEF Guarded, InstallationOutlivesRGDs
  <2>4. CountedBeforeLoop'
    BY <2>1 DEF Guarded, CountedBeforeLoop, workerVars
  <2>. QED  BY <1>1, <2>1, <2>2, <2>3, <2>4 DEF AllGranted
<1>. QED  BY <1>4, <1>5, <1>6, <1>7, <1>8

\* A step of the worker, or a crash, keeps the tenant's definitions guarded:
\* Delete's loop begins when there are none, or when there is nothing to
\* remove.
LEMMA GuardedWorker ==
  ASSUME ~AccessMayLapse, ~LateRGDs, TypeInv, Ownership, Shrinking, Guarded,
         WorkerNext \/ Crash
  PROVE  Guarded'
<1>0. /\ access \in [Clusters -> AccessStates]
      /\ flux \in [Managed -> FluxStates]
      /\ rgds \in Nat
      /\ \A i \in 1 .. 3 : Order[i] \in Managed
      /\ next \in 1 .. 3
  BY BoundAssumption DEF TypeInv, TypeOK, WorldTypeOK, WorkerTypeOK, Order
<1>a. /\ CreateFails => at' = "status"
      /\ TerminatingFails => at' = "status"
      /\ \A o, again : Return(o, again) => at' = "status"
      /\ \A label, o : GoTo(label, o) => at' = label
      /\ Idle => at' = "idle"
      /\ \A o : Begin(o) => at' = "load"
  BY DEF CreateFails, TerminatingFails, Return, GoTo, Idle, Begin
<1>b. UNCHANGED rgds
  BY DEF WorkerNext, SPNext, KroNext, Crash, GetObject, ConsumeAnnotation,
     LoadConfig, AddFinalizerGet, AddFinalizerPut, EnsureClusters,
     CheckAccessRequests, RenewAccess, DeleteAccess, RemoveFinalizer,
     UpdateStatus, ResolveVersion, ReplicateChartPullSecret,
     ReplicateImagePullSecrets, ReplicateMCPKubeconfig, Replicate,
     CreateOrUpdateOCIRepository, CreateOrUpdateMCPCRDsHelmRelease,
     CreateOrUpdateHelmRelease, CountResourceGraphDefinitions, DeleteObject,
     GetDeletedObject, Domain, Others, clusterVars
<1>c. ASSUME UNCHANGED <<access, flux>>,
             at' \in DomainLabels => AllGranted,
             at' \in {"del", "get"} => rgds = 0
      PROVE  Guarded'
  BY <1>b, <1>c DEF Guarded, GrantedWhenInstalled, GrantedInDomain, AllGranted,
     CountedBeforeLoop, InstallationOutlivesRGDs, Installed
<1>d. ASSUME UNCHANGED <<access, flux>>,
             at' \notin DomainLabels \cup {"del", "get"}
      PROVE  Guarded'
  BY <1>c, <1>d
<1>. USE DEF DomainLabels, Others, Locals, World, Platform, Domain
<1>1. CASE GetObject \/ ConsumeAnnotation \/ LoadConfig
  <2>1. at' \in {at, "idle", "consume", "load", "status", "arCheck", "finGet"}
    BY <1>1, <1>a DEF GetObject, ConsumeAnnotation, LoadConfig, workerVars
  <2>2. UNCHANGED <<access, flux>> /\ at \in {"idle", "consume", "load"}
    BY <1>1 DEF GetObject, ConsumeAnnotation, LoadConfig
  <2>. QED  BY <1>d, <2>1, <2>2
<1>2. CASE AddFinalizerGet \/ AddFinalizerPut
  <2>1. at' \in {"status", "finPut", "access"}
    BY <1>2, <1>a DEF AddFinalizerGet, AddFinalizerPut
  <2>. QED  BY <1>2, <1>d, <2>1 DEF AddFinalizerGet, AddFinalizerPut
<1>3. CASE EnsureClusters
  <2>1. CASE UNCHANGED access /\ AllGranted /\ at' = "resolve"
    BY <1>3, <1>c, <2>1 DEF EnsureClusters
  <2>2. CASE at' = "status"
    <3>1. UNCHANGED access \/ \E S : RequestAccess(S)
      BY <1>3, Zenon DEF EnsureClusters
    <3>2. \A c \in Clusters : access[c] = "granted" => access'[c] = "granted"
      BY <1>0, <3>1 DEF RequestAccess
    <3>. QED  BY <1>3, <1>b, <2>2, <3>2 DEF EnsureClusters, Guarded, AllGranted,
              GrantedWhenInstalled, GrantedInDomain, CountedBeforeLoop,
              InstallationOutlivesRGDs, Installed
  <2>. QED  BY <1>3, <1>a, <2>1, <2>2 DEF EnsureClusters
<1>4. CASE CheckAccessRequests
  <2>1. at' \in {"status", "arDelete", "dAccess"}
    BY <1>4, <1>a DEF CheckAccessRequests
  <2>. QED  BY <1>4, <1>d, <2>1 DEF CheckAccessRequests
<1>5. CASE RenewAccess
  <2>1. AccessUp
    BY <1>5 DEF RenewAccess, Ownership, AtLabel, ReachIsUp, ReachLabels
  <2>2. access' = access
    BY <1>0, <1>5, <2>1 DEF RenewAccess, RequestAccess, AccessUp
  <2>3. at' \in {"status", "count"} \/ (at' = "del" /\ ~AllGranted)
    BY <1>5, <1>a DEF RenewAccess
  <2>4. ~AllGranted => rgds = 0
    BY <1>0 DEF Guarded, GrantedWhenInstalled, InstallationOutlivesRGDs,
       Installed
  <2>. QED  BY <1>5, <1>c, <2>2, <2>3, <2>4 DEF RenewAccess
<1>6. CASE DeleteAccess
  <2>1. Installed = {} /\ Installed' = {}
    BY <1>6 DEF DeleteAccess, Ownership, AtLabel, TornDown, Installed
  <2>2. at' \in {"status", "finDel"}
    BY <1>6, <1>a DEF DeleteAccess
  <2>. QED  BY <1>6, <1>b, <2>1, <2>2 DEF DeleteAccess, Guarded,
            GrantedWhenInstalled, GrantedInDomain, CountedBeforeLoop,
            InstallationOutlivesRGDs
<1>7. CASE RemoveFinalizer \/ UpdateStatus \/ Crash
  <2>1. at' \in {"status", "idle"}
    BY <1>7, <1>a DEF RemoveFinalizer, UpdateStatus, Crash
  <2>. QED  BY <1>7, <1>d, <2>1 DEF RemoveFinalizer, UpdateStatus, Crash,
            clusterVars
<1>8. CASE \/ ResolveVersion \/ ReplicateChartPullSecret
           \/ ReplicateImagePullSecrets \/ ReplicateMCPKubeconfig
  <2>1. at \in DomainLabels /\ at' \notin {"del", "get"}
    BY <1>8, <1>a DEF ResolveVersion, ReplicateChartPullSecret,
       ReplicateImagePullSecrets, ReplicateMCPKubeconfig, Replicate
  <2>2. UNCHANGED <<access, flux>>
    BY <1>8 DEF ResolveVersion, ReplicateChartPullSecret,
       ReplicateImagePullSecrets, ReplicateMCPKubeconfig, Replicate
  <2>. QED  BY <1>c, <2>1, <2>2 DEF Guarded, GrantedInDomain
<1>9. CASE \/ CreateOrUpdateOCIRepository \/ CreateOrUpdateMCPCRDsHelmRelease
           \/ CreateOrUpdateHelmRelease
  <2>1. /\ at \in DomainLabels /\ at' \notin {"del", "get"}
        /\ UNCHANGED access
    BY <1>9, <1>a DEF CreateOrUpdateOCIRepository,
       CreateOrUpdateMCPCRDsHelmRelease, CreateOrUpdateHelmRelease
  <2>2. AllGranted'
    BY <2>1 DEF Guarded, GrantedInDomain, AllGranted
  <2>3. UNCHANGED flux \/ Apply("oci") \/ Apply("crds") \/ Apply("hr")
    BY <1>9 DEF CreateOrUpdateOCIRepository, CreateOrUpdateMCPCRDsHelmRelease,
       CreateOrUpdateHelmRelease
  <2>4. \A m \in Managed : flux'[m] = flux[m] \/ flux'[m] = "progressing"
    BY <1>0, <2>3 DEF Apply
  <2>. QED  BY <1>b, <2>1, <2>2, <2>4 DEF Guarded, GrantedWhenInstalled,
            GrantedInDomain, CountedBeforeLoop, InstallationOutlivesRGDs
<1>10. CASE CountResourceGraphDefinitions
  <2>1. at' = "status" \/ (at' = "del" /\ rgds = 0)
    BY <1>10, <1>a DEF CountResourceGraphDefinitions, Remaining
  <2>. QED  BY <1>10, <1>c, <2>1 DEF CountResourceGraphDefinitions
<1>11. CASE DeleteObject
  <2>1. rgds = 0 /\ at' \in {"status", "get"} /\ UNCHANGED access
    BY <1>11, <1>a DEF DeleteObject, Guarded, CountedBeforeLoop
  <2>2. Installed' = Installed
    BY <1>0, <1>11 DEF DeleteObject, Installed
  <2>. QED  BY <1>b, <2>1, <2>2 DEF Guarded, GrantedWhenInstalled, AllGranted,
            GrantedInDomain, CountedBeforeLoop, InstallationOutlivesRGDs
<1>12. CASE GetDeletedObject
  <2>1. rgds = 0 /\ at' \in {"status", "del", "arDelete"}
    BY <1>12, <1>a DEF GetDeletedObject, Guarded, CountedBeforeLoop
  <2>. QED  BY <1>12, <1>c, <2>1 DEF GetDeletedObject
<1>. QED  BY <1>1, <1>2, <1>3, <1>4, <1>5, <1>6, <1>7, <1>8, <1>9, <1>10,
             <1>11, <1>12 DEF WorkerNext, SPNext, KroNext

\* Provided that granted access does not lapse and that no definition is
\* created once deletion is requested, the controller never takes an
\* installation down under the tenant's ResourceGraphDefinitions.
THEOREM InstallationOutlivesRGDsHolds ==
  ASSUME ~AccessMayLapse, ~LateRGDs
  PROVE  Spec => []InstallationOutlivesRGDs
<1>1. Init => Guarded
  BY DEF Init, WorldInit, WorkerInit, Guarded, GrantedWhenInstalled, Installed,
     GrantedInDomain, DomainLabels, CountedBeforeLoop, InstallationOutlivesRGDs
<1>2. TypeInv /\ Ownership /\ Shrinking /\ Guarded /\ [Next]_vars => Guarded'
  <2>1. ASSUME Guarded, UNCHANGED vars PROVE Guarded'
    BY <2>1 DEF Guarded, GrantedWhenInstalled, GrantedInDomain, AllGranted,
       CountedBeforeLoop, InstallationOutlivesRGDs, Installed, vars, worldVars,
       clusterVars, workerVars
  <2>. QED  BY <2>1, GuardedBeside, GuardedWorker DEF Next
<1>3. Guarded => InstallationOutlivesRGDs
  BY DEF Guarded
<1>. QED  BY <1>1, <1>2, <1>3, LifecycleInvariant, PTL DEF Spec
=============================================================================
