------------------------- MODULE SecretReplication -------------------------
(***************************************************************************)
(* The secrets that CreateOrUpdate copies, for several instances: the      *)
(* chart pull secret into the tenant namespace, the image pull secrets and *)
(* the kubeconfig of the control plane (MCP) into kro-system on the        *)
(* workload cluster of the instance.  Each copy is a Get and then a        *)
(* CreateOrUpdate; sources are rotated, removed and brought back between   *)
(* any two calls.  Which secrets an instance gets is up to the entry that  *)
(* ResolveVersion finds for its version.  Every instance is reconciled     *)
(* again and again (module KroProvider, NoLostWakeup), with the            *)
(* ProviderConfig of that time.  Instances are deleted and created again,  *)
(* and find the copies that are left.                                      *)
(***************************************************************************)
EXTENDS Naturals, Sequences, SequencesExt

CONSTANTS
  Instances,  \* the Kro objects
  Versions,   \* what they may request
  Wants,      \* the version that each requests
  Workloads,  \* the workload clusters
  Place,      \* the workload cluster that each instance has access to
  Names,      \* names of pull secrets in the controller's namespace
  NoName,     \* no chartPullSecret
  Malformed,  \* Helm values whose imagePullSecrets cannot be parsed
  NoEntry,    \* no version entry
  Lists,      \* the lists of version entries an operator may apply
  NotReady,   \* the phase of an instance that is not Ready
  NoOne,      \* whose kubeconfig a secret or a key stands for: nobody's
  Idle,       \* the worker has nothing in hand
  MaxEdits,   \* bound on edits and rotations
  MaxFaults   \* bound on failed calls and crashes

\* KroVersion: the version it offers, and the secrets it names.
KroVersion == [version : Versions, chart : Names \cup {NoName},
               images : Seq(Names) \cup {Malformed}]

\* spec.versions: at least one entry, and one for each version at most, which
\* the API server sees to (MinItems, listMapKey).
IsList(l) ==
  /\ l \in Seq(KroVersion) /\ l # <<>>
  /\ \A i, j \in DOMAIN l : l[i].version = l[j].version => i = j

ASSUME PlaceAssumption == Place \in [Instances -> Workloads]
ASSUME WantsAssumption == Wants \in [Instances -> Versions]
ASSUME ListAssumption == \A l \in Lists : IsList(l)
ASSUME BoundAssumption == {MaxEdits, MaxFaults} \subseteq Nat

Entries == UNION {Range(l) : l \in Lists}

\* Where pull secrets may be: a tenant namespace on the platform cluster, or
\* kro-system on a workload cluster.
Tenant(i) == <<"tenant", i>>
Workload(i) == <<"workload", Place[i]>>
Places == ({"tenant"} \X Instances) \cup ({"workload"} \X Workloads)

VARIABLES
  list,       \* spec.versions of the ProviderConfig
  alive,      \* the instances that exist
  source,     \* the revision of each pull secret, 0 if there is none
  access,     \* the revision of the MCP kubeconfig of each instance, 0 while
              \* the status of its AccessRequest has no SecretRef
  copies,     \* the revision of each pull secret in each place
  kubeconfig, \* whose kubeconfig is on each workload cluster, and which
  ready,      \* the entry that an instance is Ready with, or NotReady
  work,       \* the reconcile in progress, or Idle
  edits, faults

vars == <<list, alive, source, access, copies, kubeconfig, ready, work,
          edits, faults>>

Revisions == 0 .. MaxEdits + 1

\* A reconcile in progress: its entry, its MCPAccessSecretKey, the call it is
\* at, the secrets it has yet to copy, and the revision it has read.
Job == [inst : Instances, entry : Entries, key : Instances \cup {NoOne},
        at : {"chart", "images", "kubeconfig"},
        todo : Seq(Names), got : Revisions]

TypeOK ==
  /\ list \in Lists
  /\ alive \in SUBSET Instances
  /\ source \in [Names -> Revisions]
  /\ access \in [Instances -> Revisions]
  /\ copies \in [Places -> [Names -> Revisions]]
  /\ kubeconfig \in [Workloads -> [of : Instances \cup {NoOne}, rev : Revisions]]
  /\ ready \in [Instances -> Entries \cup {NotReady}]
  /\ work \in Job \cup {Idle}
  /\ edits \in 0 .. MaxEdits
  /\ faults \in 0 .. MaxFaults

Init ==
  /\ list \in Lists
  /\ alive = Instances
  /\ source = [n \in Names |-> 1]
  /\ access = [i \in Instances |-> 1]
  /\ copies = [p \in Places |-> [n \in Names |-> 0]]
  /\ kubeconfig = [w \in Workloads |-> [of |-> NoOne, rev |-> 0]]
  /\ ready = [i \in Instances |-> NotReady]
  /\ work = Idle
  /\ edits = 0
  /\ faults = 0

Edit == edits < MaxEdits /\ edits' = edits + 1
Fault == faults < MaxFaults /\ faults' = faults + 1
Works == UNCHANGED faults

-----------------------------------------------------------------------------
(***************************************************************************)
(* The platform operator, the platform that grants access and renews       *)
(* kubeconfigs, and the users of the instances.                            *)
(***************************************************************************)
ApplyList(l) ==
  /\ l # list /\ Edit
  /\ list' = l
  /\ UNCHANGED <<alive, source, access, copies, kubeconfig, ready, work, faults>>

RotateSource(n) ==
  /\ Edit
  /\ source' = [source EXCEPT ![n] = edits' + 1]
  /\ UNCHANGED <<list, alive, access, copies, kubeconfig, ready, work, faults>>

DeleteSource(n) ==
  /\ source[n] > 0 /\ Edit
  /\ source' = [source EXCEPT ![n] = 0]
  /\ UNCHANGED <<list, alive, access, copies, kubeconfig, ready, work, faults>>

RotateAccess(i) ==
  /\ Edit
  /\ access' = [access EXCEPT ![i] = edits' + 1]
  /\ UNCHANGED <<list, alive, source, copies, kubeconfig, ready, work, faults>>

\* The access request falls back, and its status has no SecretRef any more.
LapseAccess(i) ==
  /\ access[i] > 0 /\ Edit
  /\ access' = [access EXCEPT ![i] = 0]
  /\ UNCHANGED <<list, alive, source, copies, kubeconfig, ready, work, faults>>

\* The worker, which does nothing else meanwhile, ends the deletion of an
\* instance.  Delete's list of objects has no secrets: the copies stay.
Delete(i) ==
  /\ i \in alive /\ work = Idle /\ Edit
  /\ alive' = alive \ {i}
  /\ ready' = [ready EXCEPT ![i] = NotReady]
  /\ UNCHANGED <<list, source, access, copies, kubeconfig, work, faults>>

Create(i) ==
  /\ i \notin alive
  /\ alive' = alive \cup {i}
  /\ UNCHANGED <<list, source, access, copies, kubeconfig, ready, work, edits,
                 faults>>

-----------------------------------------------------------------------------
(***************************************************************************)
(* CreateOrUpdate.                                                         *)
(***************************************************************************)
Env == UNCHANGED <<list, alive, source, access, edits>>
Return(i, phase) == work' = Idle /\ ready' = [ready EXCEPT ![i] = phase]

\* Every error: Progressing with ReconcileError, and a retry.
Error == Return(work.inst, NotReady)

\* ResolveVersion: the first entry of the list that offers the version.
ResolveVersion(versions, version) ==
  LET Matches(candidate) == candidate.version = version
      i == SelectInSeq(versions, Matches)
  IN IF i = 0 THEN NoEntry ELSE versions[i]

\* retrieveSecretKey: without a SecretRef the key is empty, and no error.
retrieveSecretKey(i) == IF access[i] = 0 THEN NoOne ELSE i

\* clusters and the head of CreateOrUpdate.  (A clusters that waits for access
\* changes nothing here.)  A version that is not on offer is reported as an
\* error, and not retried before the next poll.
Begin(i) ==
  /\ work = Idle /\ i \in alive
  /\ LET e == ResolveVersion(list, Wants[i]) IN
       \/ e = NoEntry /\ Return(i, NotReady)
       \/ /\ e # NoEntry
          /\ work' = [inst |-> i, entry |-> e, key |-> retrieveSecretKey(i),
                      at |-> "chart", got |-> 0,
                      todo |-> IF e.chart = NoName THEN <<>> ELSE <<e.chart>>]
          /\ UNCHANGED ready
  /\ UNCHANGED <<copies, kubeconfig, faults>>
  /\ Env

\* Where replicateChartPullSecret and replicateImagePullSecrets write to.
Target == IF work.at = "chart" THEN Tenant(work.inst) ELSE Workload(work.inst)

Copying == work # Idle /\ work.at \in {"chart", "images"} /\ work.todo # <<>>

\* Mutant: a missing secret is skipped.
MissingSkipped ==
  /\ source[Head(work.todo)] = 0 /\ Works
  /\ work' = [work EXCEPT !.todo = Tail(@)]
  /\ UNCHANGED ready

\* A source secret that does not exist fails the whole reconcile.
Missing == source[Head(work.todo)] = 0 /\ Works /\ Error

GetSource ==
  /\ Copying /\ work.got = 0
  /\ \/ Missing
     \/ Fault /\ Error
     \/ /\ source[Head(work.todo)] > 0 /\ Works
        /\ work' = [work EXCEPT !.got = source[Head(work.todo)]]
        /\ UNCHANGED ready
  /\ UNCHANGED <<copies, kubeconfig>>
  /\ Env

\* Mutant: a copy is created and never updated.
WriteOnce(old, new) == IF old = 0 THEN new ELSE old

\* Mutant: the new data is added to the old.
WriteAdded(old, new) == old + new

\* CreateOrUpdate of the target: the data is replaced.
Write(old, new) == new

PutTarget ==
  /\ Copying /\ work.got > 0
  /\ \/ /\ Works
        /\ copies' = [copies EXCEPT ![Target][Head(work.todo)] =
                        Write(@, work.got)]
        /\ work' = [work EXCEPT !.todo = Tail(@), !.got = 0]
        /\ UNCHANGED ready
     \/ Fault /\ Error /\ UNCHANGED copies
  /\ UNCHANGED kubeconfig
  /\ Env

\* After the OCIRepository: values that cannot be parsed are an error, none
\* are no secrets.
ExtractHelmValues ==
  /\ work # Idle /\ work.at = "chart" /\ work.todo = <<>>
  /\ \/ work.entry.images = Malformed /\ Error
     \/ /\ work.entry.images # Malformed
        /\ work' = [work EXCEPT !.at = "images", !.todo = work.entry.images]
        /\ UNCHANGED ready
  /\ UNCHANGED <<copies, kubeconfig, faults>>
  /\ Env

\* The secret that clusters found is there: the key is not empty, and access
\* has not lapsed since.
HasKubeconfig == work.key # NoOne /\ access[work.key] > 0

\* replicateMCPKubeconfig; the Get.
GetKubeconfig ==
  /\ work # Idle /\ work.at = "images" /\ work.todo = <<>>
  /\ \/ /\ HasKubeconfig /\ Works
        /\ work' = [work EXCEPT !.at = "kubeconfig", !.got = access[work.key]]
        /\ UNCHANGED ready
     \/ ~HasKubeconfig /\ Works /\ Error
     \/ Fault /\ Error
  /\ UNCHANGED <<copies, kubeconfig>>
  /\ Env

\* replicateMCPKubeconfig; the CreateOrUpdate.  The releases follow and, in
\* this module, become ready at once.
PutKubeconfig ==
  /\ work # Idle /\ work.at = "kubeconfig"
  /\ \/ /\ Works
        /\ kubeconfig' = [kubeconfig EXCEPT ![Place[work.inst]] =
                            [of |-> work.key, rev |-> work.got]]
        /\ Return(work.inst, work.entry)
     \/ Fault /\ Error /\ UNCHANGED kubeconfig
  /\ UNCHANGED copies
  /\ Env

\* kubeconfigPostRenderers: kro on a workload cluster mounts the one secret
\* of that name in kro-system and connects to whatever it holds.
KroConnectsTo(w) == kubeconfig[w].of

Crash ==
  /\ work # Idle /\ Fault
  /\ work' = Idle
  /\ UNCHANGED <<copies, kubeconfig, ready>>
  /\ Env

-----------------------------------------------------------------------------
Step == GetSource \/ PutTarget \/ ExtractHelmValues \/ GetKubeconfig
          \/ PutKubeconfig

Next ==
  \/ \E l \in Lists : ApplyList(l)
  \/ \E n \in Names : RotateSource(n) \/ DeleteSource(n)
  \/ \E i \in Instances : \/ RotateAccess(i) \/ LapseAccess(i)
                          \/ Delete(i) \/ Create(i) \/ Begin(i)
  \/ Step
  \/ Crash

Spec == Init /\ [][Next]_vars

\* A reconcile goes on until it returns, and the queue is fair among the
\* instances that poll.
FairSpec == Spec /\ WF_vars(Step) /\ \A i \in Instances : SF_vars(Begin(i))

-----------------------------------------------------------------------------
\* The pull secrets that an entry needs in a place.
ChartSecret(e) == {e.chart} \ {NoName}
ImageSecrets(e) == IF e.images = Malformed THEN {} ELSE Range(e.images)

\* A Ready instance has every secret it was configured with: its chart pull
\* secret in its namespace and all of its image pull secrets on its workload
\* cluster, whichever call failed or source was missing on the way (the
\* order and the early returns of CreateOrUpdate).
ReadyHasPullSecrets ==
  \A i \in Instances : ready[i] # NotReady =>
    /\ \A n \in ChartSecret(ready[i]) : copies[Tenant(i)][n] > 0
    /\ ready[i].images # Malformed
    /\ \A n \in ImageSecrets(ready[i]) : copies[Workload(i)][n] > 0

\* "This allows kro (running on the workload cluster) to connect to the MCP
\* API server" (replicateMCPKubeconfig): the kro of a Ready instance connects
\* to this instance's control plane.
OwnKubeconfig ==
  \A i \in Instances : ready[i] # NotReady => KroConnectsTo(Place[i]) = i

\* What a list offers for a version, whatever its order.
Offered(l, v) == {e \in Range(l) : e.version = v}

\* Every secret that an entry names exists, and so does the kubeconfig.
Available(i, e) ==
  /\ access[i] > 0
  /\ e.images # Malformed
  /\ \A n \in ChartSecret(e) \cup ImageSecrets(e) : source[n] > 0

UpToDate(i, e) ==
  /\ \A n \in ChartSecret(e) : copies[Tenant(i)][n] = source[n]
  /\ \A n \in ImageSecrets(e) : copies[Workload(i)][n] = source[n]
  /\ kubeconfig[Place[i]] = [of |-> i, rev |-> access[i]]

\* Copies follow their sources: when nobody edits or rotates any more, an
\* instance whose version is on offer, at whatever place of the list, with
\* secrets that all exist, is Ready with this entry and has their last
\* revision and that of its kubeconfig, although no source is watched, a Get
\* may be overtaken by a rotation before its write, access may lapse behind a
\* reconcile that has its key, other instances fail, and an instance that is
\* created again starts from the copies of the one before it.
CopiesFollow ==
  <>[](\A i \in alive : \A e \in Offered(list, Wants[i]) :
         Available(i, e) => ready[i] = e /\ UpToDate(i, e))
=============================================================================
