--------------------------- MODULE ControlPlanes ---------------------------
(***************************************************************************)
(* The world around the controller, for one Kro object: the object on the  *)
(* onboarding cluster and its user, the ProviderConfig and its operator,   *)
(* the access requests and the platform that grants them, the Flux objects *)
(* in the tenant namespace and the Flux controllers, the tenant's          *)
(* ResourceGraphDefinitions, and the work queue that turns events into     *)
(* reconcile requests.                                                     *)
(*                                                                         *)
(* Whatever has no code in this repository (API server, Flux, openmcp      *)
(* platform, controller-runtime) is modelled by what the code relies on.   *)
(***************************************************************************)
EXTENDS Naturals, Status

CONSTANTS
  Charts,         \* the entries a ProviderConfig may list (type KroVersion)
  NoChart,        \* "no entry": not offered, not fetched, not deployed
  Private,        \* the entries that name pull secrets
  Offers,         \* the ProviderConfigs an operator may apply
  NoConfig,       \* "no ProviderConfig"
  PollInterval,   \* ProviderConfig.PollInterval(); 0 stands for "do not poll"
  MaxEdits,       \* bound on what users and operators do
  MaxFaults,      \* bound on failed calls, crashes and other disturbances
  MaxRGDs,        \* bound on the tenant's ResourceGraphDefinitions
  AccessMayLapse, \* whether a granted access may fall back to pending
  LateRGDs        \* whether RGDs are created once deletion is requested

\* spec.versions: which entry, if any, serves a tenant facing version.
Config == [Versions -> Charts \cup {NoChart}]

ASSUME ChartAssumption == NoChart \notin Charts /\ Private \subseteq Charts
ASSUME ConfigAssumption == Offers \subseteq Config /\ NoConfig \notin Config
ASSUME BoundAssumption ==
  /\ {PollInterval, MaxEdits, MaxFaults, MaxRGDs} \subseteq Nat
  /\ {AccessMayLapse, LateRGDs} \subseteq BOOLEAN

Clusters == {"mcp", "workload"}

\* The secrets the controller copies: the pull secrets that a private entry
\* names, to the tenant namespace (chartPull) and to the workload cluster
\* (imagePull), and the MCP kubeconfig to the workload cluster.
Kubeconfig == <<"kubeconfig", NoChart>>
Secrets == ({"chartPull", "imagePull"} \X Private) \cup {Kubeconfig}

VARIABLES
  kro,      \* the Kro object, or NoKro
  offer,    \* the ProviderConfig on the platform cluster, or NoConfig
  access,   \* the AccessRequest of each cluster
  flux,     \* the OCIRepository (oci) and the HelmReleases (hr, crds)
  chart,    \* the entry the OCIRepository's spec names
  have,     \* the chart each Flux object last fetched or deployed
  values,   \* the entry whose Helm values are in the spec of hr
  live,     \* the entry whose Helm values hr was last deployed with
  replicas, \* the secrets that have been copied
  rgds,     \* the number of ResourceGraphDefinitions on the control plane
  cfg,      \* SPReconciler.providerConfig, the cached ProviderConfig
  queued,   \* a reconcile request is in the work queue
  timer,    \* a delayed reconcile request is pending
  fresh,    \* the object the worker holds has the current resourceVersion
  edits,    \* what users and operators did so far
  faults    \* what went wrong so far

clusterVars == <<access, flux, chart, have, values, live, replicas, rgds>>
worldVars == <<kro, offer, clusterVars, cfg, queued, timer, fresh, edits,
               faults>>

AccessStates == {"absent", "pending", "granted", "deleting"}
FluxStates == {"absent", "progressing", "ready", "deleting"}

WorldTypeOK ==
  /\ kro \in Kro \cup {NoKro}
  /\ offer \in Config \cup {NoConfig}
  /\ access \in [Clusters -> AccessStates]
  /\ flux \in [Managed -> FluxStates]
  /\ chart \in Charts \cup {NoChart}
  /\ have \in [Managed -> Charts \cup {NoChart}]
  /\ values \in Charts \cup {NoChart}
  /\ live \in Charts \cup {NoChart}
  /\ replicas \in SUBSET Secrets
  /\ rgds \in 0 .. MaxRGDs
  /\ cfg \in Config \cup {NoConfig}
  /\ queued \in BOOLEAN
  /\ timer \in BOOLEAN
  /\ fresh \in BOOLEAN
  /\ edits \in 0 .. MaxEdits
  /\ faults \in 0 .. MaxFaults

WorldInit ==
  /\ kro = NoKro
  /\ offer \in Offers
  /\ access = [c \in Clusters |-> "absent"]
  /\ flux = [m \in Managed |-> "absent"]
  /\ chart = NoChart
  /\ have = [m \in Managed |-> NoChart]
  /\ values = NoChart
  /\ live = NoChart
  /\ replicas = {}
  /\ rgds = 0
  /\ cfg = NoConfig
  /\ queued = FALSE
  /\ timer = FALSE
  /\ fresh = FALSE
  /\ edits = 0
  /\ faults = 0

\* The Kro object carries the controller's finalizer.
Held == kro # NoKro /\ kro.finalizer

\* The Flux objects that exist, those being deleted included.
Installed == {m \in Managed : flux[m] # "absent"}

AllGranted == \A c \in Clusters : access[c] = "granted"
AccessUp == \A c \in Clusters : access[c] \in {"pending", "granted"}
NoAccess == \A c \in Clusters : access[c] = "absent"

Edit == edits < MaxEdits /\ edits' = edits + 1
Fault == faults < MaxFaults /\ faults' = faults + 1

-----------------------------------------------------------------------------
(***************************************************************************)
(* The user of the Kro object.  Every write gives the object a new         *)
(* resourceVersion and an event: For(Kro) is watched without predicates.   *)
(***************************************************************************)
Write(o) ==
  /\ kro' = o
  /\ queued' = TRUE
  /\ fresh' = FALSE

UserRest == UNCHANGED <<offer, clusterVars, cfg, timer, faults>>

CreateKro(v) ==
  /\ kro = NoKro
  /\ Edit
  /\ Write(NewKro(v))
  /\ UserRest

\* The API server removes an object at once when it has no finalizer.
DeleteKro ==
  /\ kro # NoKro /\ ~kro.deleting
  /\ Edit
  /\ Write(IF kro.finalizer THEN [kro EXCEPT !.deleting = TRUE] ELSE NoKro)
  /\ UserRest

SetVersion(v) ==
  /\ kro # NoKro /\ kro.version # v
  /\ Edit
  /\ Write([kro EXCEPT !.version = v])
  /\ UserRest

Annotate(op) ==
  /\ kro # NoKro /\ kro.op # op
  /\ Edit
  /\ Write([kro EXCEPT !.op = op])
  /\ UserRest

-----------------------------------------------------------------------------
(***************************************************************************)
(* The tenant's ResourceGraphDefinitions on the control plane.  Their kind *)
(* is there once the CRD release is installed.                             *)
(***************************************************************************)
RGDRest == UNCHANGED <<kro, offer, access, flux, chart, have, values, live,
                       replicas, cfg, queued, timer, fresh, faults>>

CreateRGD ==
  /\ flux["crds"] = "ready" \/ (LateRGDs /\ have["crds"] # NoChart)
  /\ LateRGDs \/ (kro # NoKro /\ ~kro.deleting)
  /\ rgds < MaxRGDs
  /\ Edit
  /\ rgds' = rgds + 1
  /\ RGDRest

DeleteRGD ==
  /\ rgds > 0
  /\ Edit
  /\ rgds' = rgds - 1
  /\ RGDRest

-----------------------------------------------------------------------------
\* The platform operator creates, changes or deletes the ProviderConfig.
ApplyConfig(o) ==
  /\ offer # o
  /\ Edit
  /\ offer' = o
  /\ UNCHANGED <<kro, clusterVars, cfg, queued, timer, fresh, faults>>

\* enqueueAllObjects: a request for the object, if the list call finds it.
EnqueueAllObjects ==
  \/ queued' = (queued \/ kro # NoKro) /\ UNCHANGED faults
  \/ Fault /\ UNCHANGED queued

(***************************************************************************)
(* PCReconciler.Reconcile sends the ProviderConfig, and the map function   *)
(* of SPReconciler stores it and enqueues every object.                    *)
(***************************************************************************)
ConfigEvent ==
  /\ cfg # offer
  /\ cfg' = offer
  /\ EnqueueAllObjects
  /\ UNCHANGED <<kro, offer, clusterVars, timer, fresh, edits>>

\* Any error of the Get, not only NotFound, sends an empty event.
ConfigReadError ==
  /\ cfg # NoConfig
  /\ Fault
  /\ cfg' = NoConfig
  /\ queued' = (queued \/ kro # NoKro)
  /\ UNCHANGED <<kro, offer, clusterVars, timer, fresh, edits>>

\* The delay of AddAfter or AddRateLimited is over.
TimerFires ==
  /\ timer
  /\ timer' = FALSE
  /\ queued' = TRUE
  /\ UNCHANGED <<kro, offer, clusterVars, cfg, fresh, edits, faults>>

-----------------------------------------------------------------------------
\* The openmcp platform grants and revokes access.
AccessRest == UNCHANGED <<kro, offer, flux, chart, have, values, live,
                          replicas, rgds, cfg, queued, timer, fresh, edits>>

Grant(c) ==
  /\ access[c] = "pending"
  /\ access' = [access EXCEPT ![c] = "granted"]
  /\ UNCHANGED faults
  /\ AccessRest

Lapse(c) ==
  /\ AccessMayLapse
  /\ access[c] = "granted"
  /\ Fault
  /\ access' = [access EXCEPT ![c] = "pending"]
  /\ AccessRest

FinishRevoke(c) ==
  /\ access[c] = "deleting"
  /\ access' = [access EXCEPT ![c] = "absent"]
  /\ UNCHANGED faults
  /\ AccessRest

-----------------------------------------------------------------------------
(***************************************************************************)
(* The Flux controllers.  The releases take their chart from the artifact  *)
(* of the OCIRepository, hr takes its values from its own spec, and both   *)
(* reach their target through the kubeconfig of an access request.         *)
(***************************************************************************)
FluxRest == UNCHANGED <<kro, offer, access, replicas, rgds, cfg, queued,
                        timer, fresh, edits>>

Reachable(m) == \/ m = "oci"
                \/ m = "hr" /\ access["workload"] = "granted"
                \/ m = "crds" /\ access["mcp"] = "granted"

Wanted(m) == IF m = "oci" THEN chart ELSE have["oci"]

\* What m has is what its spec and its source ask for.
Deployed(m) == have[m] = Wanted(m) /\ (m = "hr" => live = values)

FluxReconcile(m) ==
  /\ flux[m] \in {"progressing", "ready"}
  /\ flux[m] = "ready" => ~Deployed(m)
  /\ Wanted(m) # NoChart
  /\ Reachable(m)
  /\ flux' = [flux EXCEPT ![m] = "ready"]
  /\ have' = [have EXCEPT ![m] = Wanted(m)]
  /\ live' = IF m = "hr" THEN values ELSE live
  /\ UNCHANGED <<chart, values, faults>>
  /\ FluxRest

\* A fetch, an upgrade or a health check fails.
FluxUnready(m) ==
  /\ flux[m] = "ready"
  /\ Fault
  /\ flux' = [flux EXCEPT ![m] = "progressing"]
  /\ UNCHANGED <<chart, have, values, live>>
  /\ FluxRest

\* The finalizer of Flux: what was installed is uninstalled first.
FluxFinalize(m) ==
  /\ flux[m] = "deleting"
  /\ have[m] = NoChart \/ Reachable(m)
  /\ flux' = [flux EXCEPT ![m] = "absent"]
  /\ have' = [have EXCEPT ![m] = NoChart]
  /\ chart' = IF m = "oci" THEN NoChart ELSE chart
  /\ values' = IF m = "hr" THEN NoChart ELSE values
  /\ live' = IF m = "hr" THEN NoChart ELSE live
  /\ UNCHANGED faults
  /\ FluxRest

\* Someone points the OCIRepository to another, public, chart by hand.
Drift(c) ==
  /\ flux["oci"] \in {"progressing", "ready"} /\ chart # c
  /\ Fault
  /\ chart' = c
  /\ UNCHANGED <<flux, have, values, live>>
  /\ FluxRest

=============================================================================
