--------------------------- MODULE KroReconciler ---------------------------
(***************************************************************************)
(* The domain reconciler of internal/controller/kro_controller.go:         *)
(* CreateOrUpdate and Delete, one step for each object they write or read. *)
(***************************************************************************)
EXTENDS SPReconciler

\* The entry of the ProviderConfig that serves the object.
Entry == conf[obj.version]

\* CreateOrUpdate of the secrets, the namespaces and the Flux objects only
\* touches these.
Domain == World /\ Others /\ UNCHANGED <<old, lock, conf, next, access>>

-----------------------------------------------------------------------------
\* ProviderConfig.ResolveVersion: an unknown version is the user's mistake,
\* and not retried as an error.
ResolveVersion ==
  /\ at = "resolve"
  /\ \/ /\ Entry = NoChart
        /\ Return(StatusProgressing(obj, "ReconcileError"), Polls)
     \/ Entry # NoChart /\ GoTo("pullSecret", obj)
  /\ Works
  /\ UNCHANGED seen
  /\ Platform /\ Domain

\* A step that copies a secret, if there is one to copy.
Replicate(label, secret, needed, then) ==
  /\ at = label
  /\ \/ Fault /\ needed /\ CreateFails /\ UNCHANGED replicas
     \/ Works /\ ~needed /\ GoTo(then, obj) /\ UNCHANGED replicas
     \/ Works /\ needed /\ GoTo(then, obj)
          /\ replicas' = replicas \cup {secret}
  /\ UNCHANGED <<flux, chart, have, values, live, seen>>
  /\ Domain

ReplicateChartPullSecret ==
  Replicate("pullSecret", <<"chartPull", Entry>>, Entry \in Private, "oci")

\* Mutant: the secrets are only copied for a release that is yet to be made.
ReplicateAtInstall ==
  Replicate("imageSecrets", <<"imagePull", Entry>>,
            Entry \in Private /\ flux["hr"] = "absent", "kubeconfig")

ReplicateImagePullSecrets ==
  Replicate("imageSecrets", <<"imagePull", Entry>>, Entry \in Private,
            "kubeconfig")

ReplicateMCPKubeconfig == Replicate("kubeconfig", Kubeconfig, TRUE, "crds")

\* CreateOrUpdate of a Flux object: a new one has no conditions yet, the
\* conditions of an existing one are left as they are.
Apply(m) ==
  flux' = [flux EXCEPT ![m] = IF @ = "absent" THEN "progressing" ELSE @]

\* resourceStatus: the Ready condition alone decides.
See(m) == seen' = IF flux'[m] = "ready" THEN seen \cup {m} ELSE seen

\* Mutant: the values are only written when the release is created.
CreateOnlyValues(m, current) ==
  IF m = "hr" /\ flux[m] # "absent" THEN current ELSE Entry

\* createOciRepository and createHelmRelease: the spec is built from the
\* entry and replaces the current one, of a new object or an old one.
Desired(m, current) == Entry

CreateOrUpdateOCIRepository ==
  /\ at = "oci"
  /\ \/ Fault /\ CreateFails /\ UNCHANGED <<flux, chart, seen>>
     \/ /\ Works
        /\ Apply("oci") /\ See("oci")
        /\ chart' = Desired("oci", chart)
        /\ GoTo("imageSecrets", obj)
  /\ UNCHANGED <<have, values, live, replicas>>
  /\ Domain

CreateOrUpdateMCPCRDsHelmRelease ==
  /\ at = "crds"
  /\ \/ Fault /\ CreateFails /\ UNCHANGED <<flux, seen>>
     \/ Works /\ Apply("crds") /\ See("crds") /\ GoTo("hr", obj)
  /\ UNCHANGED <<chart, have, values, live, replicas>>
  /\ Domain

ReportResources(ready) ==
  SetResources(obj, [m \in Managed |-> IF m \in ready THEN "Ready"
                                       ELSE "Progressing"])

\* Mutant: the CRD release is left out.
ReportTwo(ready) ==
  IF {"oci", "hr"} \subseteq ready
    THEN StatusReady(ReportResources(ready))
    ELSE StatusProgressing(ReportResources(ready), "Reconciling")

\* What CreateOrUpdate reports once all three objects are written.
Report(ready) ==
  IF ready = Managed
    THEN StatusReady(ReportResources(ready))
    ELSE StatusProgressing(ReportResources(ready), "Reconciling")

\* getWorkloadFluxConfig dereferences the secret reference of the access
\* request; without one it panics, and the deferred update still runs.
CreateOrUpdateHelmRelease ==
  /\ at = "hr"
  /\ \/ Fault /\ CreateFails /\ UNCHANGED <<flux, values, seen>>
     \/ /\ Works /\ access["workload"] # "granted"
        /\ Return(obj, TRUE)
        /\ UNCHANGED <<flux, values, seen>>
     \/ /\ Works /\ access["workload"] = "granted"
        /\ Apply("hr") /\ See("hr")
        /\ values' = Desired("hr", values)
        /\ Return(Report(seen'), Polls)
  /\ UNCHANGED <<chart, have, live, replicas>>
  /\ Domain

-----------------------------------------------------------------------------
\* Mutant: the kind is misspelt, and a kind that is not known counts as none.
CountNone == 0

\* countResourceGraphDefinitions, when the list call is answered.
Remaining == rgds

\* Delete waits while the tenant has ResourceGraphDefinitions.
CountResourceGraphDefinitions ==
  /\ at = "count"
  /\ \/ Fault /\ TerminatingFails
     \/ /\ Works /\ Remaining > 0
        /\ Return(SetResources(StatusTerminatingMessage(obj),
                               TerminatingResources), TRUE)
     \/ /\ Works /\ Remaining = 0
        /\ GoTo("del", SetResources(obj, TerminatingResources))
  /\ UNCHANGED seen
  /\ Platform /\ Domain

\* Delete's loop, the Delete call: Flux holds the object with a finalizer.
DeleteObject ==
  /\ at = "del"
  /\ \/ Fault /\ TerminatingFails /\ UNCHANGED flux
     \/ /\ Works
        /\ flux' = [flux EXCEPT ![Order[next]] = IF @ = "absent" THEN @
                                                 ELSE "deleting"]
        /\ GoTo("get", obj)
  /\ UNCHANGED <<chart, have, values, live, replicas, seen>>
  /\ Domain

\* Mutant: the flag of the last object overwrites those of the others.
GetDeletedObjectLast ==
  /\ at = "get"
  /\ \/ Fault /\ seen' = {Order[next]}
     \/ Works /\ flux[Order[next]] # "absent" /\ seen' = {Order[next]}
     \/ Works /\ flux[Order[next]] = "absent" /\ seen' = {}
  /\ \/ next < 3 /\ next' = next + 1 /\ GoTo("del", obj)
     \/ next = 3 /\ UNCHANGED next /\ seen' # {} /\ Return(obj, TRUE)
     \/ /\ next = 3 /\ UNCHANGED next /\ seen' = {}
        /\ GoTo("arDelete", StatusReady(SetResources(obj, NoResources)))
  /\ UNCHANGED <<old, lock, conf, access>>
  /\ World /\ Platform /\ Others

\* Delete's loop, the Get call: any answer but NotFound counts as "there".
\* After the last object Delete returns to SPReconciler.delete.
GetDeletedObject ==
  /\ at = "get"
  /\ \/ Fault /\ seen' = seen \cup {Order[next]}
     \/ Works /\ flux[Order[next]] # "absent" /\ seen' = seen \cup {Order[next]}
     \/ Works /\ flux[Order[next]] = "absent" /\ UNCHANGED seen
  /\ \/ next < 3 /\ next' = next + 1 /\ GoTo("del", obj)
     \/ next = 3 /\ UNCHANGED next /\ seen' # {} /\ Return(obj, TRUE)
     \/ /\ next = 3 /\ UNCHANGED next /\ seen' = {}
        /\ GoTo("arDelete", StatusReady(SetResources(obj, NoResources)))
  /\ UNCHANGED <<old, lock, conf, access>>
  /\ World /\ Platform /\ Others

KroNext ==
  \/ ResolveVersion
  \/ ReplicateChartPullSecret \/ CreateOrUpdateOCIRepository
  \/ ReplicateImagePullSecrets \/ ReplicateMCPKubeconfig
  \/ CreateOrUpdateMCPCRDsHelmRelease \/ CreateOrUpdateHelmRelease
  \/ CountResourceGraphDefinitions \/ DeleteObject \/ GetDeletedObject
=============================================================================
