----------------------------- MODULE KroProvider -----------------------------
(***************************************************************************)
(* The service provider: the generic reconcile loop and the domain         *)
(* reconciler as one worker, among the users, the platform and Flux.       *)
(***************************************************************************)
EXTENDS KroReconciler

Init == WorldInit /\ WorkerInit

WorkerNext == SPNext \/ KroNext

\* A step of someone else, whatever the worker is doing.
Beside(A) == A /\ UNCHANGED workerVars

UserNext ==
  \/ \E v \in Versions : Beside(CreateKro(v)) \/ Beside(SetVersion(v))
  \/ Beside(DeleteKro)
  \/ \E op \in Operations : Beside(Annotate(op))
  \/ Beside(CreateRGD)
  \/ Beside(DeleteRGD)
  \/ \E o \in Offers \cup {NoConfig} : Beside(ApplyConfig(o))

PlatformNext ==
  \/ Beside(ConfigEvent)
  \/ Beside(ConfigReadError)
  \/ Beside(TimerFires)
  \/ \E c \in Clusters :
       Beside(Grant(c)) \/ Beside(Lapse(c)) \/ Beside(FinishRevoke(c))

FluxNext ==
  \/ \E m \in Managed : \/ Beside(FluxReconcile(m))
                        \/ Beside(FluxUnready(m))
                        \/ Beside(FluxFinalize(m))
  \/ \E c \in Charts \ Private : Beside(Drift(c))

Next == WorkerNext \/ Crash \/ UserNext \/ PlatformNext \/ FluxNext

(***************************************************************************)
(* The worker takes what is queued and goes on until it returns, timers    *)
(* fire, the ProviderConfig controller delivers, and the platform and Flux *)
(* do what they are asked for.  Users and faults owe nothing.              *)
(***************************************************************************)
Fairness ==
  /\ WF_vars(WorkerNext)
  /\ WF_vars(Beside(TimerFires))
  /\ WF_vars(Beside(ConfigEvent))
  /\ \A c \in Clusters : WF_vars(Beside(Grant(c)))
                       /\ WF_vars(Beside(FinishRevoke(c)))
  /\ \A m \in Managed : WF_vars(Beside(FluxReconcile(m)))
                      /\ WF_vars(Beside(FluxFinalize(m)))

Spec == Init /\ [][Next]_vars
FairSpec == Spec /\ Fairness

TypeOK == WorldTypeOK /\ WorkerTypeOK

-----------------------------------------------------------------------------
(***************************************************************************)
(* Safety.                                                                 *)
(***************************************************************************)

\* No Flux object outlives its Kro: as long as one exists in the tenant
\* namespace, the Kro exists and carries the finalizer (createOrUpdate sets
\* it before anything is created, delete drops it after everything is gone).
NoOrphans == Installed # {} => Held

\* The access requests go last: while a Flux object is still there, neither
\* access request is missing or in deletion, so that Flux can always reach
\* the clusters to uninstall (SPReconciler.delete, also after a crash
\* between any two of its calls).
AccessOutlivesReleases == Installed # {} => AccessUp

\* No access request is left behind: as long as one exists, in deletion or
\* not, the Kro is held, so that delete comes back to it.
NoLeakedAccess == ~NoAccess => Held

\* What the spec of a Flux object refers to was copied first, also when the
\* object is moved from one entry to another: the chart pull secret of the
\* entry in the OCIRepository, the image pull secrets of the entry whose
\* values are in the HelmRelease, and the MCP kubeconfig that its pods mount
\* (the order of the calls in CreateOrUpdate).  The two specs are written one
\* after the other, so a new chart may run with old values in between.
SecretsPrecedeReleases ==
  /\ chart \in Private => <<"chartPull", chart>> \in replicas
  /\ values \in Private => <<"imagePull", values>> \in replicas
  /\ flux["hr"] # "absent" => Kubeconfig \in replicas

\* A Kro that is not being deleted and reports Ready is held, has all of its
\* Flux objects, none of them in deletion, and lists all of them as Ready: no
\* status patch, which carries only the fields that changed since a read
\* that an edit, a deletion or a crash may have overtaken, says otherwise.
ReadyMeansInstalled ==
  kro # NoKro /\ ~kro.deleting /\ kro.status.phase = "Ready"
    => /\ kro.finalizer
       /\ \A m \in Managed : flux[m] \in {"progressing", "ready"}
       /\ \A m \in Managed : kro.status.resources[m] = "Ready"
       /\ kro.status.cond.status = "True"

\* No wakeup is lost: an idle worker has a request queued or a timer pending
\* for every object it is not told to ignore, also when calls failed, the
\* ProviderConfig could not be read or listed for, or the process restarted
\* (given a poll interval).
NoLostWakeup ==
  PollInterval > 0 /\ at = "idle" /\ kro # NoKro /\ kro.op # "ignore"
    => queued \/ timer

\* The controller never tears an installation down under the tenant's
\* ResourceGraphDefinitions (the check at the head of Delete).
InstallationOutlivesRGDs ==
  rgds > 0 => /\ \A m \in Managed : flux[m] # "deleting"
              /\ flux["crds"] # "absent"

\* The controller never brings back a Kro that its user deleted, although
\* createOrUpdate goes through a call that creates what it does not find.
OnlyUsersCreate == [][kro = NoKro /\ kro' # NoKro => edits' # edits]_vars

-----------------------------------------------------------------------------
(***************************************************************************)
(* The abstract lifecycle.  An instance is closing once its deletion is    *)
(* requested and the worker is past every reconcile that began before.     *)
(***************************************************************************)
Creating == at \in CreateLabels \/ (at = "load" /\ ~obj.deleting)

Stage == IF ~Held THEN "out"
         ELSE IF kro.deleting /\ ~Creating THEN "closing" ELSE "in"

HeldClusters == {c \in Clusters : access[c] \in {"pending", "granted"}}
LeavingClusters == {c \in Clusters : access[c] = "deleting"}

Lifecycle == INSTANCE InstanceLifecycle WITH
  Objects <- Managed,
  stage   <- Stage,
  held    <- HeldClusters,
  leaving <- LeavingClusters,
  objects <- Installed

\* The code implements the abstract lifecycle: claim, access and releases are
\* taken and given back in brackets, nothing is taken once closing has begun,
\* and nothing is removed while access to a cluster is missing or being given
\* up.
LifecycleSpec == Lifecycle!Spec

-----------------------------------------------------------------------------
(***************************************************************************)
(* Liveness: when users stop editing and faults stop, the system comes to  *)
(* rest in the state the last edits ask for.                               *)
(***************************************************************************)
Reports(phase, ready, reason) ==
  /\ kro.status.phase = phase
  /\ kro.status.cond = [status |-> ready, reason |-> reason]
  /\ kro.status.obs = kro.version

Gone == kro = NoKro /\ Installed = {} /\ NoAccess

Paused == kro # NoKro /\ kro.op = "ignore"

Unconfigured ==
  /\ kro # NoKro /\ offer = NoConfig
  /\ Reports("Progressing", "False", "ReconcileError")

NotOffered ==
  /\ kro # NoKro /\ ~kro.deleting /\ offer # NoConfig
  /\ offer[kro.version] = NoChart
  /\ Reports("Progressing", "False", "ReconcileError")

Blocked ==
  /\ kro # NoKro /\ kro.deleting /\ rgds > 0
  /\ Reports("Terminating", "False", "Terminating")

Serving ==
  /\ kro # NoKro /\ ~kro.deleting /\ kro.op = "none" /\ offer # NoConfig
  /\ \A m \in Managed : flux[m] = "ready" /\ have[m] = offer[kro.version]
  /\ live = offer[kro.version]
  /\ Reports("Ready", "True", "ReconcileSuccess")

\* Whatever happened before, lost events, stale configs, crashes and drift
\* included, the instance ends up gone without a trace, or deployed with the
\* chart and the values of the entry the current ProviderConfig has for the
\* current version, or waiting for a user with a status that says so.
Settles == <>[](\/ Gone \/ Paused \/ Unconfigured \/ NotOffered \/ Blocked
                \/ Serving)

-----------------------------------------------------------------------------
(***************************************************************************)
(* What the documentation says and the code does not do.                   *)
(***************************************************************************)

\* README, Operation annotations: "ignore (skip reconciliation)".  Only the
\* user takes the annotation away.
IgnoreIsKept ==
  [][kro # NoKro /\ kro.op = "ignore" /\ kro' # NoKro /\ kro'.op # "ignore"
       => edits' # edits]_vars

\* The API: Ready for the observed generation.  When the status says that
\* the current version is Ready, this version is what Flux deployed.
ReadyMeansDeployed ==
  kro # NoKro /\ ~kro.deleting /\ at = "idle" /\ ~queued
     /\ Reports("Ready", "True", "ReconcileSuccess") /\ cfg # NoConfig
    => have["hr"] = cfg[kro.version]
=============================================================================
