# Verification of service-provider-kro

TLA+ models of the kro service provider: a Kubernetes controller that installs
[kro](https://kro.run) for a tenant's control plane whenever a `Kro` object
exists on the onboarding cluster, and takes it down when the object is deleted.
Paths below are relative to the repository root, `src/`.

## 1. Inventory

| Component | Source | State it keeps | Operations |
|---|---|---|---|
| Kro API type | `api/v1alpha1/kro_types.go` | version, deletion timestamp, finalizer, operation annotation, status | accessors used by the status functions |
| Status functions | `pkg/spruntime/status.go` | none | `StatusProgressing`, `StatusReady`, `StatusTerminating`, `StatusTerminatingMessage`, `StatusTerminatingWithReason` |
| Generic reconcile loop | `pkg/spruntime/spreconciler.go` | cached ProviderConfig (an atomic pointer); per reconcile `obj`, `oldObj` | `Reconcile`, `createOrUpdate`, `delete`, `clusters`, `areAccessRequestsInDeletion`, `updateStatus`, `enqueueAllObjects`, `mapSecretToRequests` |
| Domain reconciler | `internal/controller/kro_controller.go` | none; writes secrets, one `OCIRepository`, two `HelmRelease`s | `CreateOrUpdate`, `Delete` |
| ProviderConfig controller | `pkg/spruntime/pcreconciler.go` | none | `Reconcile`: sends the config through a channel |
| ProviderConfig API type | `api/v1alpha1/providerconfig_types.go` | versions on offer, poll interval | `ResolveVersion`, `GetChartURL`, `PollInterval` |
| Helm values | `internal/controller/helm_values.go` | none | `ExtractHelmValues`, post renderers |
| Command | `cmd/service-provider-kro/main.go` | none | `init` job (CRDs), `run` (manager) |
| External: cluster access | openmcp library and platform | one `AccessRequest` per cluster | grant, revoke |
| External: Flux | source and helm controllers | conditions, fetched artifact, deployed release | reconcile, finalize |
| External: API server, controller-runtime | | resourceVersions, work queue, timers | |

How they interact.  Events of `Kro` objects, timers and config events feed one
work queue.  One worker runs `SPReconciler.Reconcile`, which reads the object,
consumes a `reconcile` annotation, loads the cached config and goes to
`createOrUpdate` or `delete`; these take or give back access to the control
plane (MCP) and the workload cluster and call the domain reconciler, which
writes Flux objects on the platform cluster.  Flux does the installation
asynchronously; the controller only sees its Ready conditions at the next
reconcile.  A deferred `updateStatus` patches the status.  A second controller
reads the ProviderConfig and sends it through a channel to a map function, which
stores it in the cached pointer, lists all objects and enqueues them.  The init
job and the controller are two commands of one binary.  Users, operators,
tenants, the platform and Flux act at any moment between two calls.

What is hard.  Every reconcile is a sequence of a dozen remote calls, each of
which may fail; the process may stop between any two; the object, the config
and the access may change between a read and its use; the status is written by
partial patches; wakeups must survive all of this; and the order of taking
things down matters because Flux needs the access that is revoked last.  The
complete list, at the lines where it bites, is under `hazards` in
`PROJECT.json`.

What makes each part correct:

* status functions and patches: what is reported fits what exists;
* generic loop: claim, access and releases are taken and given back in
  brackets, also across crashes; no wakeup is lost; a deleted object is not
  brought back;
* domain reconciler: secrets before the specs that refer to them, nothing reported gone that is
  there, the tenant's ResourceGraphDefinitions protected;
* config propagation: no config is lost or overtaken by an older one on its way
  to the cached pointer, and every object hears of the last one;
* secret replication: a Ready instance has the secrets it was configured with,
  and copies follow their sources;
* status conditions: a poll does not cause reconciles without end, and the
  condition ends up as what Flux reports;
* startup: in the end both controllers serve;
* all together: when everyone stops interfering the instance settles.

## 2. Modules

| Module | Models | Contents |
|---|---|---|
| `Status` | the Kro object, the status functions, the merge patch | types and pure operators |
| `ControlPlanes` | the world: users, operator, tenant, config events, queue and timer, platform, Flux | 16 variables, 18 actions |
| `SPReconciler` | the generic loop; extends `ControlPlanes` | 8 variables, 12 actions |
| `KroReconciler` | the domain reconciler; extends `SPReconciler` | 10 actions |
| `KroProvider` | the composition, its properties and the refinement mapping | |
| `InstanceLifecycle` | the abstract specification: what is promised about resources | |
| `ConfigPropagation` | `PCReconciler`, the channel, the map functions, `SecretWatcher`, several objects | 16 variables, 12 actions |
| `SecretReplication` | the three replicate functions, `ResolveVersion` on lists and `ExtractHelmValues`, several instances | 10 variables, 14 actions |
| `StatusConditions` | the Ready condition, `lastTransitionTime` and the events it causes | 9 variables, 6 actions |
| `Startup` | the `init` and `run` commands of `main.go` | 8 variables, 10 actions |
| `MC...` | instances of the module of that name for TLC | |
| `KroProviderProofs` | types, ownership and wakeups of `KroProvider` | 5 theorems |
| `KroLifecycleProofs` | the refinement of `InstanceLifecycle`, the tenant's definitions; extends `KroProviderProofs` | 2 theorems |
| `KroReportingProofs` | deleted objects, secrets and the Ready status of `KroProvider`; extends `KroLifecycleProofs` | 3 theorems |
| `ConfigPropagationProofs`, `SecretReplicationProofs` | the module of that name | 4 and 2 theorems |

State and code.  The worker's `at` names the remote call it makes next;
everything else may happen between two calls.  `obj` and `old` are `obj` and
the status of `oldObj` in `Reconcile`.  `fresh` stands for resourceVersions: it
is true while the object the worker holds has the current one, so an update
succeeds exactly when `fresh`.  `lock` says that `obj` and `oldObj` differ in
resourceVersion, in which case the merge patch of the status contains it and is
refused when stale; without it the patch has no precondition and applies its
changed fields to whatever is there (`MergePatch`).  `conf` is the copy of the
config that a reconcile works with, `cfg` the cached pointer, `offer` the
object on the platform cluster.  `seen` collects the resources found ready, or,
in `Delete`, found still there (`objectsStillExist`).  `retry` is whether
`Reconcile` returns an error or a positive `RequeueAfter`.

Correspondence of the steps of one reconcile:

| Code | Actions |
|---|---|
| `Reconcile`: Get, annotations, config | `GetObject`, `ConsumeAnnotation`, `LoadConfig` |
| `createOrUpdate`: finalizer, access | `AddFinalizerGet`, `AddFinalizerPut`, `EnsureClusters` |
| `KroReconciler.CreateOrUpdate` | `ResolveVersion`, `ReplicateChartPullSecret`, `CreateOrUpdateOCIRepository`, `ReplicateImagePullSecrets`, `ReplicateMCPKubeconfig`, `CreateOrUpdateMCPCRDsHelmRelease`, `CreateOrUpdateHelmRelease` |
| `delete`: access | `CheckAccessRequests`, `RenewAccess` |
| `KroReconciler.Delete` | `CountResourceGraphDefinitions`, then `DeleteObject` and `GetDeletedObject` for each object |
| `delete`: revoke, finalizer | `DeleteAccess`, `RemoveFinalizer` |
| deferred `updateStatus`, requeue | `UpdateStatus` |
| process restart | `Crash` |

The four other modules look at one mechanism each, in the detail that
`KroProvider` abstracts from:

* `ConfigPropagation`.  `Read` and `Send` are `PCReconciler.Reconcile` up to and
  from the send, which blocks while `pipe` is full; `pipe` is what the goroutine
  behind `source.Channel` holds: its buffer and the one event in its hand.
  `Store` and `MapConfig` are the map function before and after its list call,
  `MapSecretToRequests` is the watch of secrets, `Take`, `Load` and `Finish` a
  reconcile reduced to when it loads the config.  An object that is enqueued
  while it is in hand is queued again, as in the work queue.  It justifies the
  one-step `ConfigEvent` of `ControlPlanes`: nothing but this controller reads
  `offer`, the order is kept and the last one arrives.
* `SecretReplication`.  `Begin` resolves the version; `GetSource` and `PutTarget`
  run once per secret that the entry names, `ExtractHelmValues` is where Helm
  values that cannot be parsed stop a reconcile, `GetKubeconfig` and
  `PutKubeconfig` are `replicateMCPKubeconfig`.  A secret is its revision.  The key
  that `retrieveSecretKey` returns is kept in the reconcile: it is empty while the
  access request has no secret reference, and access may lapse after it was read;
  either way the Get fails.  `Delete` is the end of a deletion, which leaves the
  copies where they are for an instance that is created again.
* `StatusConditions`.  `Begin` is the `StatusProgressing` at the head of
  `CreateOrUpdate`, `Calls` everything up to its result, `UpdateStatus` the
  deferred patch.  A panic in `getWorkloadFluxConfig` leaves the InProgress of that
  first line to be patched.
* `Startup`.  One action per call that can fail; what follows from an error (log
  and go on, return, `os.Exit(1)`, a nil dereference) is read off the code.
  `SetupManager` sets up two controllers, and `StartController` starts each as soon
  as its own type is there; one that waits for too long ends the process
  (`StartManager`).

### Abstractions

* One `Kro` in `KroProvider`.  Instances share the queue and the config
  (`ConfigPropagation`) and, when they are placed on the same workload cluster,
  fixed names there (`SecretReplication`).
* The clients of both clusters read from the API server, not from a cache
  (`clusters.Cluster.Client()`), so a Get returns the current object.
* A generation is the version it carries.  Messages and timestamps are left
  out; changing `lastTransitionTime` by going to False and back to True in one
  reconcile still causes a patch and an event, which `UpdateStatus` keeps as a
  choice (`StatusConditions` has the times).  A message that changes alone would add one more event of this kind.
* An entry of the config is a model value; `Private` are those that name a
  chart pull secret and image pull secrets.  `replicas` has the copied pull
  secrets by entry.  `chart` is the entry the spec of the `OCIRepository` is built
  from, `values` the one whose Helm values are in the spec of the `HelmRelease`;
  `have` and `live` are what was deployed of the two.  The CRD release has no
  values.
* `clusters` is one step: the calls of the access library after its `Reconcile`
  only read what this call has just established.  On an error any subset of the
  requests may have been made.
* Each `CreateOrUpdate` on a Flux object or secret is one step; nobody but the
  user named in `Drift` writes their specs.
* `StableMCPNamespace` fails for empty names only; `StatusConditions` has its
  return, which leaves the status as it is, and the other modules do not.
* Without a secret reference `getWorkloadFluxConfig` panics; controller-runtime
  recovers, the deferred update runs and the request is retried, as on an error.
* Access requests of an instance are `absent`, `pending`, `granted` or
  `deleting`; whether a granted one may fall back is the constant
  `AccessMayLapse`.
* Polling is not modelled in time: a timer is pending or not.  The resync of the
  informers (ten hours) is not modelled; it would be a very long poll.
* `StatusConditions` knows of a time only whether it is of the current second,
  which is all that survives in the object: `metav1.Time` is written in seconds.
  `Fast` is how many reconciles fit into a second.  A burst of reconciles may begin
  anywhere in a second (`TimerFires` chooses where), so the first `Tick` may come
  after any of them; every later second of the burst lasts for at least `Fast`.
* In `SecretReplication` the releases become ready at once, and `kro-system` exists
  as soon as something is written to it: Flux is in `KroProvider`.
* In `Startup` the CRD library, handed a nil cluster, may install the CRD of the
  platform cluster or not, and report an error or panic: every outcome is a
  choice.  A container that ends with an error is started again; the job ends
  with exit code 0.

## 3. Runs

Where polling goes on forever (`replication`, `quiets_down`) deadlock is checked; the
other passing runs allow the system to come to rest (no object, an ignored one,
no polling, or a controller that is up).

| Run | Shows | Instance | Distinct states |
|---|---|---|---|
| `safety` | `TypeOK`, `NoOrphans`, `AccessOutlivesReleases`, `NoLeakedAccess`, `SecretsPrecedeReleases`, `ReadyMeansInstalled`, `NoLostWakeup`, `OnlyUsersCreate` | 2 versions, 1 public and 1 private entry, 3 edits, 1 fault, access may lapse, late RGDs | 4.8 million |
| `lifecycle` | `LifecycleSpec`, `InstallationOutlivesRGDs` | 1 version, 4 edits, 1 fault | 1.5 million |
| `settles_after_faults` | `Settles` | 1 version, 3 edits, 1 fault, access may lapse | 0.7 million |
| `settles_after_edits` | `Settles` | 2 versions, 2 configs, 3 edits | 0.6 million |
| `propagation` | `TypeOK`, `NothingLost`, `NobodyIsLeftOut`, `AppliedNeverGoesBack`, `EveryoneHears` | 2 objects, 2 edits, 1 fault, a buffer of 1; polling without a `SecretWatcher` (as deployed), or events alone | 638 000 |
| `replication` | `TypeOK`, `ReadyHasPullSecrets`, `CopiesFollow` | 2 instances on 2 workload clusters, 2 secrets, 4 lists, 2 edits, 1 fault | 177 000 |
| `quiets_down` | `QuietsDown`, `ReportsLast` | 2 reconciles in a second, 3 changes of Flux, 2 faults | 1 708 |
| `startup` | `Serves` | 3 faults | 504 |
| `lapsed_access`, `stale_ready`, `lost_ignore`, `shared_workload` | what the documentation says and the code does not do | small | until violated |

Bounds.  `MaxEdits` bounds what users, tenants and operators do, `MaxFaults`
failed calls, crashes, read and list errors, lapses, unready releases and
drift, `MaxRGDs` the tenant's definitions.  Three edits are enough for create,
change, delete, each at any step of the worker, or create, delete, create
again; the fourth in `lifecycle` is for a definition that appears in between.
The worker itself is unbounded: it reconciles forever.  One fault hits every
call there is; what is proved (below) holds for any number.  In `propagation` two
edits and a read error put more events under way than the pipe holds,
so that the sender blocks, and the second object is enqueued while the first is
in hand.  In `replication` two edits are a rotation, a removal, a lapse or a deletion together with a
list that moves, withdraws or breaks an entry, between any two calls for either
instance.  `quiets_down` needs two reconciles in a second, the one of the poll and
the one it causes; with one, see below.  Every property has
a mutant, a plausible change of the code that breaks it, in `PROJECT.json`.

Fairness (`FairSpec`).  Weak fairness of the worker (a queued request is taken
and a reconcile goes on until it returns: each call is answered, at worst with
an error), of the timer (`AddAfter` and `AddRateLimited` are delays), of the
delivery of a config event, of granting and revoking access, and of Flux doing
what its objects ask for.  Users and faults owe nothing, so `Settles` says
where the system ends when they stop.  Weak fairness of the worker as a whole is
enough: it is one goroutine (`MaxConcurrentReconciles` is left at 1).
Grant and revoke are the platform's promise, not this repository's; without
them nothing could be installed or removed.

In `ConfigPropagation` each goroutine has weak fairness and taking an object from
the queue strong fairness per object: the queue is first in, first out.  In
`SecretReplication` the same holds for `Begin`.  In `StatusConditions` the worker and
the poll have weak fairness, the clock has none.  In `Startup` the kubelet starts
containers again.

Findings.  Four runs show that the code does something else than its
documentation says; `findings` in `PROJECT.json` quotes the lines.

1. `lapsed_access`: with access not granted, `Delete` skips the check for
   ResourceGraphDefinitions and takes kro down under them.
2. `stale_ready`: a version change is reported Ready for the new generation
   from Flux conditions of the old one.
3. `lost_ignore`: an `ignore` set while a `reconcile` is consumed is removed.
4. `shared_workload`: two instances on one workload cluster overwrite each
   other's kubeconfig, and the kro of a Ready instance connects to the other
   control plane.

Limits of what the passing runs show, to be known by whoever relies on them:

* `NobodyIsLeftOut` and, without polling, `EveryoneHears` need the list of the
  objects to succeed: `enqueueAllObjects` logs an error and enqueues nobody.
* `QuietsDown` needs `Fast >= 2`.  If every reconcile takes a second or more, each
  one of a ready object moves `lastTransitionTime` and so causes the next, and the
  poll interval is never waited for (set `Fast = 1` to see it).  In any case a poll
  moves `lastTransitionTime` of a condition that is True before and after.
* `Serves` leaves out a job that ended without the CRDs: `main.go` only logs that
  failure, and the job exits with 0.
* An object in deletion rests in phase Ready while its access requests go, and
  the copied secrets outlive the instance: `Delete` does both.
* Image pull secrets go to the workload cluster; the API documentation says the
  control plane.
* One process.  Without leader election, which is off by default, two processes
  may overlap, and `NoOrphans` does not hold for two workers in one world: the one
  that is still creating is not stopped by the other's deletion.

## 4. The abstract specification

`InstanceLifecycle` has a stage (out, in, closing), the clusters to which access
is held or leaving, and the objects that exist.  It says: access only inside
the claim, objects only while all access is held, nothing grows once closing
has begun, objects are removed only while both clusters can be reached, access
goes after the objects and the claim after the access.  The mapping in
`KroProvider` computes the stage: `closing` begins when the object is deleted
and the worker is past any `createOrUpdate` that began before, which is why the
code's late creations are allowed.  The refinement is checked by TLC
(`lifecycle`) and proved (`ImplementsLifecycle`).

## 5. Proofs

Every safety property of the passing runs, the refinement included, is also a
theorem, for every value of the constants that satisfies the named assumptions.
These say that the values for "nothing" are no versions, objects, configs,
messages or jobs, that bounds are numbers, and that a list of versions is one
the API server admits (`ListAssumption`: no version twice, as the list's map key
demands).  One theorem has a hypothesis of its own, given below.  Each strengthening was an invariant of a
TLC run before it was proved.

`KroProviderProofs`:

* `TypeCorrect`: `Spec => []TypeOK`.  `TypeOK` is not inductive: that an action
  may use `obj` and `conf` depends on where the worker is.  `TypeInv` adds
  `InHand`: off idle there is an object in memory, in `createOrUpdate` there is
  a config, and an object that is current exists.
* `NoOrphansHolds`, `AccessOutlivesReleasesHolds`, `NoLeakedAccessHolds`.  The
  three are proved together by `Ownership`.  Its first part, `Anywhere`, holds
  in every state: an object in deletion carries the finalizer, releases imply
  access, access implies the claim.  Its second part, `AtLabel`, is what each
  label of the worker may rely on: that the claim is there from the access step
  on although the user may have asked for deletion meanwhile, that the access
  of `CreateOrUpdate` cannot be revoked under it since only this worker revokes
  it, that the delete loop has really passed the objects it says it has (an
  object, once gone, is not created again by a worker that is deleting), and
  that none is left when access is revoked.
* `NoLostWakeupHolds`, by `Returning`: with a poll interval, whoever reaches the
  deferred update will be requeued.

`KroLifecycleProofs`:

* `ImplementsLifecycle`: `Spec => LifecycleSpec`, action by action.  `Ownership`
  gives the brackets.  What it lacks is `Shrinking`: an access request or a Flux
  object that is in deletion belongs to an instance that is closing
  (`RevokedWhenClosing`, `RemovedWhenClosing`), because only `delete` puts it there
  and the object stays in deletion until everything is gone.  So nothing is
  taken again that is on its way out, and nothing is removed from an instance
  that is in use.
* `InstallationOutlivesRGDsHolds`, for `~AccessMayLapse` and `~LateRGDs`; without
  the first it is false (`lapsed_access`), and without the second a tenant may
  create a definition after the count.  `Guarded` carries the argument: an
  installation implies granted access, so the count is not skipped, and the
  count was zero when the loop began.

`KroReportingProofs`:

* `OnlyUsersCreateHolds`: the action property, for every step of the worker.
* `SecretsPrecedeReleasesHolds`, by `Supplied`: behind each replicate call the
  secret of the entry is in place, copies are never taken away, and the entry is
  still the same when the spec that refers to the secret is written.  It is about
  the chart pull secret and the `OCIRepository`, and about the image pull secrets
  and the kubeconfig and the `HelmRelease`, also when these are moved from one
  entry to another.  The chart of a new entry may run with the values, and so
  with the image pull secrets, of the old one until the second spec is written:
  the code writes the one before it copies what the other needs.
* `ReadyMeansInstalledHolds`, by `Reporting`.  A status patch sends the fields in
  which the worker's status differs from the one it read, so a Ready phase may
  be joined with fields somebody else wrote, or fall on an object created again
  meanwhile.  That this does no harm needs: only the worker writes status, so
  what it read is what is there (`OldIsCurrent`, `DeletingIsCurrent`), unless the
  object went away, and then the status is blank (`UnheldIsBlank`,
  `UnheldInHand`); and what the worker knows of its own status at each label
  (`StatusInHand`, `AppliedInHand`, `ReadyInHand`).

`ConfigPropagationProofs`, for any number of objects, edits and faults and any
buffer:

* `TypeCorrect`, which includes that the pipe never holds more than the buffer
  and one event.
* `NothingLostHolds`, by `Arriving`: either the ProviderConfig controller has a
  request, or the message in its hand makes it read again, or the last word
  that is under way (in hand, else the end of the pipe, else the cache) is the
  config on the platform cluster.
* `NobodyIsLeftOutHolds`, by `Told`: once the objects have been listed for the
  cached config, each is queued or has a timer, or is in hand and has loaded
  nothing, no config or this one, or has applied it (`UpToDate`).
* `AppliedNeverGoesBackHolds`, by `InOrder`: revisions do not increase from the
  platform cluster over hand, pipe, cache and worker to what was applied; each
  place has its bound (`OfferBound` ... `WorkBound`), which every step keeps
  (`BoundsKept`): what enters a place comes from the one before it.

`SecretReplicationProofs`, for any instances, lists, names and workload clusters:

* `TypeCorrect`.  `ResolveVersionFacts` is what the first match in a list is: the
  one entry that offers the version, since a list has at most one.
* `ReadyHasPullSecretsHolds`, by `Copied`: what is left to copy and what is copied
  already make up the secrets of the entry, for the chart and for the images.

Only model-checked: `Settles`, `EveryoneHears`, `CopiesFollow`, `QuietsDown`,
`ReportsLast` and `Serves`, which need fairness and are out of the prover's
reach, and the four violations, which are single behaviours.

## 6. Plan

Done: the modules, runs and proofs above.  Next, in this order:

1. Facts the proofs found useful, stated as results of their own: that a status
   is written by the worker only, and that an object created again after a
   deletion starts from a blank one; that copies of secrets never get newer than
   their sources.
2. The one-step `ConfigEvent` of `ControlPlanes` as an abstraction of
   `ConfigPropagation`, stated as a refinement and proved, so that the two modules
   are tied together by more than the argument in section 2.
3. Two workers in one world, to see what a precondition on the calls of
   `CreateOrUpdate` would have to be without leader election.

## 7. Not modelled

Flags, schemes, TLS and metrics options, logging and messages (`main.go`);
generated deep copies; CRD manifests but for the required status fields;
`GetChartURL`, which adds a prefix to one string; the YAML of the post renderers
(`crdOnlyPostRenderers` names five kinds to strip, which is right as long as the
chart has no others); the order of the two releases, which Flux installs
independently because neither has a `dependsOn`; the leader election library; the
end to end tests.
