----------------------- MODULE SecretReplicationProofs -----------------------
(***************************************************************************)
(* Proofs about SecretReplication, for all instances, lists and secrets.   *)
(***************************************************************************)
EXTENDS SecretReplication, SequenceTheorems, TLAPS

-----------------------------------------------------------------------------
\* ResolveVersion returns what the list offers for a version, whatever the
\* order of the list, and nothing if it offers nothing.
LEMMA ResolveVersionFacts ==
  ASSUME NEW l, IsList(l), NEW v
  PROVE  \/ ResolveVersion(l, v) = NoEntry /\ Offered(l, v) = {}
         \/ Offered(l, v) = {ResolveVersion(l, v)}
<1>. DEFINE I == {i \in 1 .. Len(l) : l[i].version = v}
<1>1. /\ l \in Seq(KroVersion) /\ Len(l) \in Nat /\ DOMAIN l = 1 .. Len(l)
      /\ \A i, j \in I : i = j
  BY DEF IsList
<1>2. ResolveVersion(l, v) = LET i == IF I # {} THEN Min(I) ELSE 0
                             IN  IF i = 0 THEN NoEntry ELSE l[i]
  BY DEF ResolveVersion, SelectInSeq
<1>3. Offered(l, v) = {l[i] : i \in I}
  BY <1>1 DEF Offered, Range
<1>4. CASE I = {}
  BY <1>2, <1>3, <1>4
<1>5. CASE I # {}
  <2>1. PICK i \in I : I = {i}
    BY <1>1, <1>5
  <2>2. Min({i}) = i
    <3>1. i <= i
      BY <1>1
    <3>2. \E x \in {i} : \A y \in {i} : x <= y
      BY <3>1
    <3>3. Min({i}) \in {i}
      BY <3>2 DEF Min
    <3>. QED  BY <3>3
  <2>3. ResolveVersion(l, v) = l[i]
    <3>1. i # 0
      BY <1>1
    <3>. QED  BY <1>2, <2>1, <2>2, <3>1
  <2>. QED  BY <1>3, <2>1, <2>3
<1>. QED  BY <1>4, <1>5

\* What ResolveVersion finds is an entry of the list.
LEMMA ResolvedIsEntry ==
  ASSUME NEW l \in Lists, NEW v, ResolveVersion(l, v) # NoEntry
  PROVE  /\ ResolveVersion(l, v) \in Entries
         /\ ResolveVersion(l, v) \in KroVersion
<1>1. IsList(l)
  BY ListAssumption
<1>2. ResolveVersion(l, v) \in Offered(l, v)
  BY <1>1, ResolveVersionFacts
<1>3. ResolveVersion(l, v) \in Range(l)
  BY <1>2 DEF Offered
<1>4. ResolveVersion(l, v) \in Entries
  BY <1>3 DEF Entries
<1>5. Range(l) \subseteq KroVersion
  BY <1>1 DEF IsList, Range
<1>. QED  BY <1>3, <1>4, <1>5

\* The entries of the lists are version entries.
LEMMA EntriesAreVersions == Entries \subseteq KroVersion
<1>1. ASSUME NEW l \in Lists PROVE Range(l) \subseteq KroVersion
  BY <1>1, ListAssumption DEF IsList, Range
<1>. QED  BY <1>1 DEF Entries

-----------------------------------------------------------------------------
(***************************************************************************)
(* Type correctness.                                                       *)
(***************************************************************************)

\* Where the secrets of an instance go is a place.
LEMMA PlaceTypes ==
  ASSUME NEW i \in Instances
  PROVE  Place[i] \in Workloads /\ Tenant(i) \in Places /\ Workload(i) \in Places
<1>1. Place[i] \in Workloads
  BY PlaceAssumption
<1>. QED  BY <1>1 DEF Tenant, Workload, Places

\* What a returning or failing reconcile leaves in memory.
LEMMA ReturnTypes ==
  ASSUME TypeOK, NEW i \in Instances, NEW phase \in Entries \cup {NotReady},
         Return(i, phase)
  PROVE  /\ work' = Idle
         /\ ready' \in [Instances -> Entries \cup {NotReady}]
         /\ ready'[i] = phase
         /\ \A j \in Instances : j # i => ready'[j] = ready[j]
  BY DEF TypeOK, Return

\* Every step keeps the types.
LEMMA NextTypes == TypeOK /\ [Next]_vars => TypeOK'
<1>. SUFFICES ASSUME TypeOK, [Next]_vars PROVE TypeOK'
  OBVIOUS
<1>0. /\ edits \in Nat /\ MaxEdits \in Nat /\ MaxFaults \in Nat
      /\ 0 \in Revisions
      /\ Fault \/ Works => faults' \in 0 .. MaxFaults
      /\ Edit => edits' \in 0 .. MaxEdits /\ edits' + 1 \in Revisions
  BY BoundAssumption DEF TypeOK, Fault, Works, Edit, Revisions
<1>a. ASSUME work # Idle
      PROVE  /\ work \in Job /\ work.inst \in Instances
             /\ work.entry \in Entries /\ work.entry \in KroVersion
             /\ work.key \in Instances \cup {NoOne}
             /\ work.todo \in Seq(Names) /\ work.got \in Revisions
  BY <1>a, EntriesAreVersions DEF TypeOK, Job
<1>b. ASSUME work # Idle, Error
      PROVE  work' = Idle /\ ready' \in [Instances -> Entries \cup {NotReady}]
  BY <1>a, <1>b, ReturnTypes DEF Error
<1>1. ASSUME NEW l \in Lists, ApplyList(l) PROVE TypeOK'
  BY <1>0, <1>1 DEF ApplyList, TypeOK
<1>2. ASSUME NEW n \in Names, RotateSource(n) \/ DeleteSource(n) PROVE TypeOK'
  <2>1. source' \in [Names -> Revisions]
    BY <1>0, <1>2 DEF RotateSource, DeleteSource, TypeOK
  <2>. QED  BY <1>0, <1>2, <2>1 DEF RotateSource, DeleteSource, TypeOK
<1>3. ASSUME NEW i \in Instances, RotateAccess(i) \/ LapseAccess(i) PROVE TypeOK'
  <2>1. access' \in [Instances -> Revisions]
    BY <1>0, <1>3 DEF RotateAccess, LapseAccess, TypeOK
  <2>. QED  BY <1>0, <1>3, <2>1 DEF RotateAccess, LapseAccess, TypeOK
<1>c. ASSUME NEW i \in Instances, Delete(i) PROVE TypeOK'
  <2>1. /\ alive' \in SUBSET Instances
        /\ ready' \in [Instances -> Entries \cup {NotReady}]
    BY <1>c DEF Delete, TypeOK
  <2>. QED  BY <1>0, <1>c, <2>1 DEF Delete, TypeOK
<1>d. ASSUME NEW i \in Instances, Create(i) PROVE TypeOK'
  <2>1. alive' \in SUBSET Instances
    BY <1>d DEF Create, TypeOK
  <2>. QED  BY <1>d, <2>1 DEF Create, TypeOK
<1>4. ASSUME NEW i \in Instances, Begin(i) PROVE TypeOK'
  <2>. DEFINE e == ResolveVersion(list, Wants[i])
  <2>1. UNCHANGED <<list, alive, source, access, edits, copies, kubeconfig, faults>>
    BY <1>4 DEF Begin, Env
  <2>2. /\ work' \in Job \cup {Idle}
        /\ ready' \in [Instances -> Entries \cup {NotReady}]
    <3>1. CASE Return(i, NotReady)
      BY <3>1, ReturnTypes
    <3>2. CASE /\ e # NoEntry /\ UNCHANGED ready
               /\ work' = [inst |-> i, entry |-> e, key |-> retrieveSecretKey(i),
                           at |-> "chart", got |-> 0,
                           todo |-> IF e.chart = NoName THEN <<>> ELSE <<e.chart>>]
      <4>1. e \in Entries /\ e \in KroVersion
        BY <3>2, ResolvedIsEntry DEF TypeOK
      <4>2. (IF e.chart = NoName THEN <<>> ELSE <<e.chart>>) \in Seq(Names)
        BY <4>1 DEF KroVersion
      <4>3. retrieveSecretKey(i) \in Instances \cup {NoOne}
        BY DEF retrieveSecretKey
      <4>. HIDE DEF e
      <4>4. work' \in Job
        BY <1>0, <3>2, <4>1, <4>2, <4>3 DEF Job
      <4>. QED  BY <3>2, <4>4 DEF TypeOK
    <3>. QED  BY <1>4, <3>1, <3>2 DEF Begin
  <2>. QED  BY <2>1, <2>2 DEF TypeOK
<1>. USE DEF Env
<1>5. CASE GetSource
  <2>1. /\ work # Idle /\ faults' \in 0 .. MaxFaults
        /\ UNCHANGED <<list, alive, source, access, edits, copies, kubeconfig>>
    BY <1>0, <1>5 DEF GetSource, Copying, Missing
  <2>2. /\ work' \in Job \cup {Idle}
        /\ ready' \in [Instances -> Entries \cup {NotReady}]
    <3>1. CASE Error
      BY <1>b, <2>1, <3>1
    <3>2. CASE /\ work' = [work EXCEPT !.got = source[Head(work.todo)]]
               /\ UNCHANGED ready
      <4>1. Head(work.todo) \in Names
        BY <1>5, <1>a, <2>1 DEF GetSource, Copying
      <4>2. source[Head(work.todo)] \in Revisions
        BY <4>1 DEF TypeOK
      <4>3. work' \in Job
        BY <1>a, <2>1, <3>2, <4>2 DEF Job
      <4>. QED  BY <3>2, <4>3 DEF TypeOK
    <3>. QED  BY <1>5, <3>1, <3>2 DEF GetSource, Missing
  <2>. QED  BY <2>1, <2>2 DEF TypeOK
<1>6. CASE PutTarget
  <2>1. /\ work # Idle /\ faults' \in 0 .. MaxFaults
        /\ UNCHANGED <<list, alive, source, access, edits, kubeconfig>>
    BY <1>0, <1>6 DEF PutTarget, Copying
  <2>2. /\ work' \in Job \cup {Idle}
        /\ ready' \in [Instances -> Entries \cup {NotReady}]
        /\ copies' \in [Places -> [Names -> Revisions]]
    <3>1. CASE Error /\ UNCHANGED copies
      BY <1>b, <2>1, <3>1 DEF TypeOK
    <3>2. CASE /\ work' = [work EXCEPT !.todo = Tail(@), !.got = 0]
               /\ copies' = [copies EXCEPT ![Target][Head(work.todo)] =
                               Write(@, work.got)]
               /\ UNCHANGED ready
      <4>1. Tail(work.todo) \in Seq(Names) /\ Head(work.todo) \in Names
        BY <1>6, <1>a, <2>1 DEF PutTarget, Copying
      <4>2. work' \in Job
        BY <1>0, <1>a, <2>1, <3>2, <4>1 DEF Job
      <4>3. Target \in Places
        BY <1>a, <2>1, PlaceTypes DEF Target
      <4>4. copies' \in [Places -> [Names -> Revisions]]
        BY <1>a, <2>1, <3>2, <4>1, <4>3 DEF TypeOK, Write
      <4>. QED  BY <3>2, <4>2, <4>4 DEF TypeOK
    <3>. QED  BY <1>6, <3>1, <3>2 DEF PutTarget
  <2>. QED  BY <2>1, <2>2 DEF TypeOK
<1>7. CASE ExtractHelmValues
  <2>1. /\ work # Idle
        /\ UNCHANGED <<list, alive, source, access, edits, copies, kubeconfig, faults>>
    BY <1>7 DEF ExtractHelmValues
  <2>2. /\ work' \in Job \cup {Idle}
        /\ ready' \in [Instances -> Entries \cup {NotReady}]
    <3>1. CASE Error
      BY <1>b, <2>1, <3>1
    <3>2. CASE /\ work.entry.images # Malformed
               /\ work' = [work EXCEPT !.at = "images", !.todo = work.entry.images]
               /\ UNCHANGED ready
      <4>1. work.entry.images \in Seq(Names)
        BY <1>a, <2>1, <3>2 DEF KroVersion
      <4>2. work' \in Job
        BY <1>a, <2>1, <3>2, <4>1 DEF Job
      <4>. QED  BY <3>2, <4>2 DEF TypeOK
    <3>. QED  BY <1>7, <3>1, <3>2 DEF ExtractHelmValues
  <2>. QED  BY <2>1, <2>2 DEF TypeOK
<1>8. CASE GetKubeconfig
  <2>1. /\ work # Idle /\ faults' \in 0 .. MaxFaults
        /\ UNCHANGED <<list, alive, source, access, edits, copies, kubeconfig>>
    BY <1>0, <1>8 DEF GetKubeconfig
  <2>2. /\ work' \in Job \cup {Idle}
        /\ ready' \in [Instances -> Entries \cup {NotReady}]
    <3>1. CASE Error
      BY <1>b, <2>1, <3>1
    <3>2. CASE /\ HasKubeconfig
               /\ work' = [work EXCEPT !.at = "kubeconfig", !.got = access[work.key]]
               /\ UNCHANGED ready
      <4>1. access[work.key] \in Revisions
        BY <1>a, <2>1, <3>2 DEF TypeOK, HasKubeconfig
      <4>2. work' \in Job
        BY <1>a, <2>1, <3>2, <4>1 DEF Job
      <4>. QED  BY <3>2, <4>2 DEF TypeOK
    <3>. QED  BY <1>8, <3>1, <3>2 DEF GetKubeconfig
  <2>. QED  BY <2>1, <2>2 DEF TypeOK
<1>9. CASE PutKubeconfig
  <2>1. /\ work # Idle /\ faults' \in 0 .. MaxFaults
        /\ UNCHANGED <<list, alive, source, access, edits, copies>>
    BY <1>0, <1>9 DEF PutKubeconfig
  <2>2. work' = Idle /\ ready' \in [Instances -> Entries \cup {NotReady}]
    BY <1>9, <1>a, <1>b, <2>1, ReturnTypes DEF PutKubeconfig
  <2>3. kubeconfig' \in [Workloads -> [of : Instances \cup {NoOne}, rev : Revisions]]
    BY <1>9, <1>a, <2>1, PlaceTypes DEF PutKubeconfig, TypeOK
  <2>. QED  BY <2>1, <2>2, <2>3 DEF TypeOK
<1>10. CASE Crash
  BY <1>0, <1>10 DEF Crash, TypeOK
<1>11. CASE UNCHANGED vars
  BY <1>11 DEF vars, TypeOK
<1>. QED  BY <1>1, <1>2, <1>3, <1>c, <1>d, <1>4, <1>5, <1>6, <1>7, <1>8, <1>9,
             <1>10, <1>11 DEF Next, Step

\* Every reachable state is well typed: every entry a reconcile works with is
\* one of a list, and every revision one that was written.
THEOREM TypeCorrect == Spec => []TypeOK
<1>1. Init => TypeOK
  BY BoundAssumption DEF Init, TypeOK, Revisions
<1>. QED  BY <1>1, NextTypes, PTL DEF Spec

-----------------------------------------------------------------------------
(***************************************************************************)
(* The pull secrets of a Ready instance.  What has been copied stays, so   *)
(* it is enough to follow a reconcile: each secret of its entry is copied, *)
(* or still to be copied.                                                  *)
(***************************************************************************)
HasCharts(i, e) == \A n \in ChartSecret(e) : copies[Tenant(i)][n] > 0
HasImages(i, e) == /\ e.images # Malformed
                   /\ \A n \in ImageSecrets(e) : copies[Workload(i)][n] > 0

ChartInWork ==
  work # Idle /\ work.at = "chart"
    => \A n \in ChartSecret(work.entry) :
         copies[Tenant(work.inst)][n] > 0 \/ n \in Range(work.todo)

ImagesInWork ==
  work # Idle /\ work.at = "images"
    => /\ HasCharts(work.inst, work.entry)
       /\ work.entry.images # Malformed
       /\ \A n \in ImageSecrets(work.entry) :
            copies[Workload(work.inst)][n] > 0 \/ n \in Range(work.todo)

AllCopied ==
  work # Idle /\ work.at = "kubeconfig"
    => HasCharts(work.inst, work.entry) /\ HasImages(work.inst, work.entry)

Copied == ChartInWork /\ ImagesInWork /\ AllCopied /\ ReadyHasPullSecrets

\* The secrets of an entry are names.
LEMMA SecretsAreNames ==
  ASSUME NEW e \in KroVersion
  PROVE  /\ ChartSecret(e) \subseteq Names /\ ImageSecrets(e) \subseteq Names
         /\ e.images # Malformed => e.images \in Seq(Names)
  BY DEF KroVersion, ChartSecret, ImageSecrets, Range

\* The write of PutTarget, when it is answered.
Put == /\ Copying /\ work.got > 0
       /\ copies' = [copies EXCEPT ![Target][Head(work.todo)] = work.got]
       /\ work' = [work EXCEPT !.todo = Tail(@), !.got = 0]
       /\ UNCHANGED ready

\* A write puts a revision that exists in one place, and the others stay.
LEMMA PutFacts ==
  ASSUME TypeOK, Put
  PROVE  /\ work # Idle /\ work.todo # <<>>
         /\ work' = [work EXCEPT !.todo = Tail(@), !.got = 0]
         /\ UNCHANGED ready
         /\ Target \in Places /\ Head(work.todo) \in Names
         /\ copies'[Target][Head(work.todo)] > 0
         /\ \A p \in Places, n \in Names :
              copies[p][n] > 0 => copies'[p][n] > 0
<1>1. /\ work # Idle /\ work.todo # <<>> /\ work.got > 0 /\ UNCHANGED ready
      /\ work' = [work EXCEPT !.todo = Tail(@), !.got = 0]
      /\ copies' = [copies EXCEPT ![Target][Head(work.todo)] = work.got]
  BY DEF Put, Copying
<1>2. work.inst \in Instances /\ work.todo \in Seq(Names)
  BY <1>1 DEF TypeOK, Job
<1>3. Target \in Places
  BY <1>2, PlaceTypes DEF Target
<1>4. Head(work.todo) \in Names
  BY <1>1, <1>2
<1>5. copies \in [Places -> [Names -> Revisions]]
  BY DEF TypeOK
<1>6. copies'[Target] = [copies[Target] EXCEPT ![Head(work.todo)] = work.got]
  BY <1>1, <1>3, <1>5
<1>7. copies'[Target][Head(work.todo)] = work.got
  BY <1>3, <1>4, <1>5, <1>6
<1>8. ASSUME NEW p \in Places, NEW n \in Names, copies[p][n] > 0
      PROVE  copies'[p][n] > 0
  <2>1. CASE p = Target
    BY <1>1, <1>3, <1>4, <1>5, <1>6, <1>8, <2>1
  <2>2. CASE p # Target
    BY <1>1, <1>3, <1>5, <1>8, <2>2
  <2>. QED  BY <2>1, <2>2
<1>. QED  BY <1>1, <1>3, <1>4, <1>7, <1>8

\* What has been copied stays.
LEMMA CopiesStay ==
  ASSUME TypeOK, [Next]_vars, NEW i \in Instances, NEW e \in KroVersion
  PROVE  /\ HasCharts(i, e) => HasCharts(i, e)'
         /\ HasImages(i, e) => HasImages(i, e)'
<1>1. \A p \in Places, n \in Names : copies[p][n] > 0 => copies'[p][n] > 0
  <2>1. CASE UNCHANGED copies
    BY <2>1
  <2>2. CASE Put
    BY <2>2, PutFacts
  <2>3. PutTarget => Put \/ UNCHANGED copies
    BY DEF PutTarget, Put, Write
  <2>4. PutTarget \/ UNCHANGED copies
    BY DEF Next, Step, ApplyList, RotateSource, DeleteSource, RotateAccess,
       LapseAccess, Delete, Create, Begin, GetSource, ExtractHelmValues,
       GetKubeconfig, PutKubeconfig, Crash, vars
  <2>. QED  BY <2>1, <2>2, <2>3, <2>4
<1>. QED  BY <1>1, PlaceTypes, SecretsAreNames DEF HasCharts, HasImages

\* An instance that keeps its phase, or loses it, is no worse off.
LEMMA ReadyStays ==
  ASSUME TypeOK, ReadyHasPullSecrets, [Next]_vars,
         NEW i \in Instances, ready'[i] \in {ready[i], NotReady}, ready'[i] # NotReady
  PROVE  HasCharts(i, ready[i])' /\ HasImages(i, ready[i])'
<1>1. PICK e \in KroVersion : e = ready[i]
  BY EntriesAreVersions DEF TypeOK
<1>2. HasCharts(i, e) /\ HasImages(i, e)
  BY <1>1 DEF ReadyHasPullSecrets, HasCharts, HasImages
<1>3. HasCharts(i, e)' /\ HasImages(i, e)'
  BY <1>2, CopiesStay
<1>. QED  BY <1>1, <1>3 DEF HasCharts, HasImages

\* Every step keeps the secrets of a reconcile in sight.
LEMMA CopiedKept == TypeOK /\ Copied /\ [Next]_vars => Copied'
<1>. SUFFICES ASSUME TypeOK, Copied, [Next]_vars PROVE Copied'
  OBVIOUS
<1>0. ready \in [Instances -> Entries \cup {NotReady}]
  BY DEF TypeOK
\* The steps that end a reconcile without success, or do not touch one.
<1>a. ASSUME \A i \in Instances : ready'[i] \in {ready[i], NotReady}
      PROVE  ReadyHasPullSecrets'
  BY <1>a, ReadyStays DEF Copied, ReadyHasPullSecrets, HasCharts, HasImages
<1>b. ASSUME NEW i \in Instances, Return(i, NotReady) PROVE Copied'
  <2>1. work' = Idle /\ \A j \in Instances : ready'[j] \in {ready[j], NotReady}
    BY <1>b, ReturnTypes
  <2>2. (ChartInWork /\ ImagesInWork /\ AllCopied)'
    BY <2>1 DEF ChartInWork, ImagesInWork, AllCopied
  <2>. QED  BY <1>a, <2>1, <2>2 DEF Copied
<1>c. ASSUME work # Idle, Error PROVE Copied'
  BY <1>b, <1>c DEF Error, TypeOK, Job
<1>d. ASSUME UNCHANGED <<ready, copies, work>> PROVE Copied'
  BY <1>d DEF Copied, ChartInWork, ImagesInWork, AllCopied, ReadyHasPullSecrets,
     HasCharts, HasImages
<1>1. CASE \/ \E l \in Lists : ApplyList(l)
           \/ \E n \in Names : RotateSource(n) \/ DeleteSource(n)
           \/ \E i \in Instances : RotateAccess(i) \/ LapseAccess(i) \/ Create(i)
           \/ UNCHANGED vars
  BY <1>1, <1>d DEF ApplyList, RotateSource, DeleteSource, RotateAccess,
     LapseAccess, Create, vars
<1>e. ASSUME NEW i \in Instances, Delete(i) PROVE Copied'
  <2>1. work' = Idle /\ \A j \in Instances : ready'[j] \in {ready[j], NotReady}
    BY <1>0, <1>e DEF Delete
  <2>2. (ChartInWork /\ ImagesInWork /\ AllCopied)'
    BY <2>1 DEF ChartInWork, ImagesInWork, AllCopied
  <2>. QED  BY <1>a, <2>1, <2>2 DEF Copied
<1>2. ASSUME NEW i \in Instances, Begin(i) PROVE Copied'
  <2>. DEFINE e == ResolveVersion(list, Wants[i])
              charts == IF e.chart = NoName THEN <<>> ELSE <<e.chart>>
  <2>1. CASE Return(i, NotReady)
    BY <1>b, <2>1
  <2>2. CASE /\ UNCHANGED ready
             /\ work' = [inst |-> i, entry |-> e, key |-> retrieveSecretKey(i),
                         at |-> "chart", got |-> 0, todo |-> charts]
    <3>1. \A n \in ChartSecret(e) : n \in Range(charts)
      BY DEF ChartSecret, Range
    <3>. HIDE DEF e, charts
    <3>2. work'.at = "chart" /\ work'.entry = e /\ work'.todo = charts
      BY <2>2
    <3>3. ChartInWork'
      BY <3>1, <3>2 DEF ChartInWork
    <3>4. (ImagesInWork /\ AllCopied)'
      BY <3>2 DEF ImagesInWork, AllCopied
    <3>5. ReadyHasPullSecrets'
      BY <1>a, <2>2
    <3>. QED  BY <3>3, <3>4, <3>5 DEF Copied
  <2>. QED  BY <1>2, <2>1, <2>2 DEF Begin
\* The steps of a reconcile of instance i with entry e.
<1>3. CASE Crash
  <2>1. (ChartInWork /\ ImagesInWork /\ AllCopied)'
    BY <1>3 DEF Crash, ChartInWork, ImagesInWork, AllCopied
  <2>. QED  BY <1>3, <1>a, <2>1 DEF Crash, Copied
<1>4. CASE Step
  <2>0. work # Idle
    BY <1>4 DEF Step, GetSource, PutTarget, Copying, ExtractHelmValues,
       GetKubeconfig, PutKubeconfig
  <2>1. PICK i \in Instances, e \in KroVersion : work.inst = i /\ work.entry = e
    BY <2>0, EntriesAreVersions DEF TypeOK, Job
  <2>2. /\ work \in Job /\ work.todo \in Seq(Names) /\ e \in Entries
        /\ Range(<<>>) = {}
    BY <2>0, <2>1 DEF TypeOK, Job, Range
  <2>3. CASE Error
    BY <1>c, <2>0, <2>3
  \* A step that stays in the same call.
  <2>4. CASE GetSource /\ ~Error
    <3>1. /\ UNCHANGED <<ready, copies>>
          /\ work'.inst = work.inst /\ work'.entry = work.entry
          /\ work'.at = work.at /\ work'.todo = work.todo
      BY <2>2, <2>4 DEF GetSource, Missing, Job
    <3>. QED  BY <2>0, <3>1 DEF Copied, ChartInWork, ImagesInWork, AllCopied,
              ReadyHasPullSecrets, HasCharts, HasImages
  <2>5. CASE Put
    <3>1. /\ UNCHANGED ready /\ work'.inst = i /\ work'.entry = e
          /\ work'.at = work.at /\ work'.todo = Tail(work.todo)
          /\ work.at \in {"chart", "images"} /\ work.todo # <<>>
      BY <2>1, <2>2, <2>5 DEF Put, Copying, Job
    <3>2. \A n \in Range(work.todo) :
            n = Head(work.todo) \/ n \in Range(Tail(work.todo))
      <4>1. Len(work.todo) \in Nat \ {0}
        BY <2>2, <3>1, EmptySeq
      <4>2. ASSUME NEW k \in 1 .. Len(work.todo), k # 1
            PROVE  work.todo[k] \in Range(Tail(work.todo))
        <5>1. /\ k - 1 \in 1 .. Len(Tail(work.todo))
              /\ Tail(work.todo)[k - 1] = work.todo[k]
          BY <2>2, <3>1, <4>1, <4>2
        <5>2. DOMAIN Tail(work.todo) = 1 .. Len(Tail(work.todo))
          BY <2>2, <3>1
        <5>. QED  BY <5>1, <5>2 DEF Range
      <4>3. Head(work.todo) = work.todo[1] /\ DOMAIN work.todo = 1 .. Len(work.todo)
        BY <2>2, <3>1
      <4>. QED  BY <4>2, <4>3 DEF Range
    <3>3. \A n \in Names : copies[Target][n] > 0 \/ n \in Range(work.todo)
            => copies'[Target][n] > 0 \/ n \in Range(work'.todo)
      BY <2>5, <3>1, <3>2, PutFacts
    <3>4. HasCharts(i, e) => HasCharts(i, e)'
      BY CopiesStay
    <3>5. CASE work.at = "chart"
      <4>1. Target = Tenant(i)
        BY <2>1, <3>5 DEF Target
      <4>2. \A n \in ChartSecret(e) : copies'[Tenant(i)][n] > 0 \/ n \in Range(work'.todo)
        BY <2>0, <2>1, <3>3, <3>5, <4>1, SecretsAreNames DEF Copied, ChartInWork
      <4>3. ChartInWork'
        BY <3>1, <4>2 DEF ChartInWork
      <4>4. (ImagesInWork /\ AllCopied)'
        BY <3>1, <3>5 DEF ImagesInWork, AllCopied
      <4>. QED  BY <1>a, <3>1, <4>3, <4>4 DEF Copied
    <3>6. CASE work.at = "images"
      <4>1. Target = Workload(i)
        BY <2>1, <3>6 DEF Target
      <4>2. \A n \in ImageSecrets(e) : copies'[Workload(i)][n] > 0 \/ n \in Range(work'.todo)
        BY <2>0, <2>1, <3>3, <3>6, <4>1, SecretsAreNames DEF Copied, ImagesInWork
      <4>3. HasCharts(i, e)' /\ e.images # Malformed
        BY <2>0, <2>1, <3>4, <3>6 DEF Copied, ImagesInWork
      <4>4. ImagesInWork'
        BY <3>1, <4>2, <4>3 DEF ImagesInWork, HasCharts
      <4>5. (ChartInWork /\ AllCopied)'
        BY <3>1, <3>6 DEF ChartInWork, AllCopied
      <4>. QED  BY <1>a, <3>1, <4>4, <4>5 DEF Copied
    <3>. QED  BY <3>1, <3>5, <3>6
  <2>6. CASE ExtractHelmValues /\ ~Error
    <3>1. /\ UNCHANGED <<ready, copies>> /\ work'.inst = i /\ work'.entry = e
          /\ work.at = "chart" /\ work.todo = <<>> /\ work'.at = "images"
          /\ work'.todo = e.images /\ e.images # Malformed
      BY <2>1, <2>2, <2>6 DEF ExtractHelmValues, Job
    <3>2. HasCharts(i, e)'
      BY <2>0, <2>1, <2>2, <3>1 DEF Copied, ChartInWork, HasCharts
    <3>3. ImagesInWork'
      BY <3>1, <3>2 DEF ImagesInWork, HasCharts, ImageSecrets
    <3>4. (ChartInWork /\ AllCopied)'
      BY <3>1 DEF ChartInWork, AllCopied
    <3>. QED  BY <1>a, <3>1, <3>3, <3>4 DEF Copied
  <2>7. CASE GetKubeconfig /\ ~Error
    <3>1. /\ UNCHANGED <<ready, copies>> /\ work'.inst = i /\ work'.entry = e
          /\ work.at = "images" /\ work.todo = <<>> /\ work'.at = "kubeconfig"
      BY <2>1, <2>2, <2>7 DEF GetKubeconfig, Job
    <3>2. HasCharts(i, e)' /\ HasImages(i, e)'
      BY <2>0, <2>1, <2>2, <3>1 DEF Copied, ImagesInWork, HasCharts, HasImages
    <3>3. AllCopied'
      BY <3>1, <3>2 DEF AllCopied, HasCharts, HasImages
    <3>4. (ChartInWork /\ ImagesInWork)'
      BY <3>1 DEF ChartInWork, ImagesInWork
    <3>. QED  BY <1>a, <3>1, <3>3, <3>4 DEF Copied
  <2>8. CASE PutKubeconfig /\ ~Error
    <3>1. /\ Return(i, e) /\ work.at = "kubeconfig"
      BY <2>1, <2>8 DEF PutKubeconfig
    <3>2. /\ work' = Idle /\ ready'[i] = e
          /\ \A j \in Instances : j # i => ready'[j] = ready[j]
      BY <2>2, <3>1, ReturnTypes
    <3>3. (ChartInWork /\ ImagesInWork /\ AllCopied)'
      BY <3>2 DEF ChartInWork, ImagesInWork, AllCopied
    <3>4. HasCharts(i, e)' /\ HasImages(i, e)'
      BY <2>0, <2>1, <3>1, CopiesStay DEF Copied, AllCopied
    <3>5. \A j \in Instances : ready'[j] # NotReady
            => HasCharts(j, ready[j])' /\ HasImages(j, ready[j])'
      <4>. SUFFICES ASSUME NEW j \in Instances, ready'[j] # NotReady
                    PROVE  HasCharts(j, ready[j])' /\ HasImages(j, ready[j])'
        OBVIOUS
      <4>1. CASE j = i
        BY <3>2, <3>4, <4>1 DEF HasCharts, HasImages
      <4>2. CASE j # i
        BY <3>2, <4>2, ReadyStays DEF Copied
      <4>. QED  BY <4>1, <4>2
    <3>6. ReadyHasPullSecrets'
      BY <3>5 DEF ReadyHasPullSecrets, HasCharts, HasImages
    <3>. QED  BY <3>3, <3>6 DEF Copied
  <2>9. PutTarget => Put \/ Error
    BY DEF PutTarget, Put, Write
  <2>. QED  BY <1>4, <2>3, <2>4, <2>5, <2>6, <2>7, <2>8, <2>9 DEF Step
<1>. QED  BY <1>1, <1>e, <1>2, <1>3, <1>4 DEF Next

\* A Ready instance has every secret its entry names, whichever call failed,
\* source was missing or list was swapped on the way.
THEOREM ReadyHasPullSecretsHolds == Spec => []ReadyHasPullSecrets
<1>1. Init => Copied
  BY DEF Init, Copied, ChartInWork, ImagesInWork, AllCopied, ReadyHasPullSecrets
<1>2. Copied => ReadyHasPullSecrets
  BY DEF Copied
<1>. QED  BY <1>1, <1>2, CopiedKept, TypeCorrect, PTL DEF Spec

=============================================================================
