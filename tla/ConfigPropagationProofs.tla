----------------------- MODULE ConfigPropagationProofs -----------------------
(***************************************************************************)
(* Proofs about ConfigPropagation, for all objects, settings and bounds.   *)
(***************************************************************************)
EXTENDS ConfigPropagation, SequenceTheorems, TLAPS

-----------------------------------------------------------------------------
(***************************************************************************)
(* Type correctness, the bound of the pipe included.                       *)
(***************************************************************************)
\* A step that fails or works keeps the budget, and edits have revisions.
LEMMA BudgetTypes ==
  ASSUME TypeOK
  PROVE  /\ Fault \/ Works => faults' \in 0 .. MaxFaults
         /\ Edit => edits' \in 0 .. MaxEdits /\ edits' = edits + 1
  BY SizeAssumption DEF TypeOK, Fault, Works, Edit

\* The list of the objects.
LEMMA EnqueueTypes ==
  ASSUME TypeOK, EnqueueAllObjects
  PROVE  /\ queued' \in SUBSET Objects /\ missed' \in BOOLEAN
         /\ faults' \in 0 .. MaxFaults
  BY BudgetTypes DEF TypeOK, EnqueueAllObjects

\* Every step keeps the types.
LEMMA NextTypes == TypeOK /\ [Next]_<<vars, setting>> => TypeOK'
<1>. SUFFICES ASSUME TypeOK, [Next]_<<vars, setting>> PROVE TypeOK'
  OBVIOUS
<1>0. /\ offer \in Maybe /\ cache \in Maybe /\ pipe \in Seq(Maybe)
      /\ edits \in Nat /\ NoConfig \in Maybe
      /\ hand # NoMessage => hand \in Message /\ hand.conf \in Maybe
                             /\ hand.again \in BOOLEAN
      /\ work # Idle => work \in Job
  BY SizeAssumption DEF TypeOK, Maybe, Message
<1>. USE DEF TypeOK, senderVars, receiverVars, workerVars, queueVars
<1>1. CASE EditConfig /\ UNCHANGED setting
  <2>1. edits' \in 0 .. MaxEdits
    BY <1>1, BudgetTypes DEF EditConfig
  <2>2. offer' \in Maybe
    BY <1>1, <2>1 DEF EditConfig, Maybe, Config
  <2>. QED  BY <1>1, <2>1, <2>2 DEF EditConfig
<1>2. CASE RotateSecret /\ UNCHANGED setting
  <2>1. edits' \in 0 .. MaxEdits
    BY <1>2, BudgetTypes DEF RotateSecret
  <2>2. news' \in BOOLEAN
    BY <1>2, SettingsAssumption DEF RotateSecret
  <2>. QED  BY <1>2, <2>1, <2>2 DEF RotateSecret
<1>3. CASE Read /\ UNCHANGED setting
  <2>1. faults' \in 0 .. MaxFaults
    BY <1>3, BudgetTypes DEF Read, ReadError
  <2>2. hand' \in Message
    <3>1. \A c \in Maybe, again \in BOOLEAN : Holding(c, again) => hand' \in Message
      BY DEF Holding, Message
    <3>2. Holding(offer, FALSE) \/ Holding(NoConfig, TRUE)
      BY <1>3 DEF Read, ReadError
    <3>. QED  BY <1>0, <3>1, <3>2
  <2>. QED  BY <1>3, <2>1, <2>2 DEF Read
<1>4. CASE Send /\ UNCHANGED setting
  <2>1. pipe' \in Seq(Maybe) /\ Len(pipe') <= BufferSize + 1
    BY <1>0, <1>4, SizeAssumption DEF Send, Transmit
  <2>2. pcQueued' \in BOOLEAN
    BY <1>4 DEF Send
  <2>. QED  BY <1>4, <2>1, <2>2 DEF Send
<1>5. CASE Store /\ UNCHANGED setting
  <2>1. cache' \in Maybe
    BY <1>0, <1>5 DEF Store
  <2>2. pipe' \in Seq(Maybe) /\ Len(pipe') <= BufferSize + 1
    BY <1>0, <1>5, SizeAssumption DEF Store
  <2>. QED  BY <1>5, <2>1, <2>2 DEF Store
<1>6. CASE MapConfig /\ UNCHANGED setting
  BY <1>6, EnqueueTypes DEF MapConfig
<1>7. CASE MapSecretToRequests /\ UNCHANGED setting
  BY <1>7, EnqueueTypes DEF MapSecretToRequests
<1>8. ASSUME NEW o \in Objects, Take(o), UNCHANGED setting PROVE TypeOK'
  <2>1. work' \in Job
    BY <1>0, <1>8 DEF Take, Job
  <2>. QED  BY <1>8, <2>1 DEF Take
<1>9. CASE Load /\ UNCHANGED setting
  <2>1. work' \in Job
    BY <1>0, <1>9 DEF Load, Job
  <2>. QED  BY <1>9, <2>1 DEF Load
<1>10. CASE Finish /\ UNCHANGED setting
  <2>1. faults' \in 0 .. MaxFaults
    BY <1>10, BudgetTypes DEF Finish
  <2>2. timers' \in SUBSET Objects
    BY <1>0, <1>10 DEF Finish, FallBack, Requeue, Job
  <2>3. applied' \in [Objects -> [rev : 0 .. MaxEdits, secret : 0 .. MaxEdits]]
    <3>1. CASE UNCHANGED applied
      BY <3>1
    <3>2. CASE /\ work.conf # NoConfig
               /\ applied' = [applied EXCEPT ![work.obj] =
                                [rev |-> work.conf.rev, secret |-> secret]]
      <4>1. work.conf.rev \in 0 .. MaxEdits
        BY <1>0, <1>10, <3>2 DEF Finish, Job, Maybe, Config
      <4>. QED  BY <3>2, <4>1
    <3>. QED  BY <1>10, <3>1, <3>2 DEF Finish
  <2>. QED  BY <1>10, <2>1, <2>2, <2>3 DEF Finish
<1>11. ASSUME NEW o \in Objects, TimerFires(o), UNCHANGED setting PROVE TypeOK'
  BY <1>11 DEF TimerFires
<1>12. CASE Crash /\ UNCHANGED setting
  <2>1. faults' \in 0 .. MaxFaults
    BY <1>12, BudgetTypes DEF Crash
  <2>2. news' \in BOOLEAN
    BY <1>12, SettingsAssumption DEF Crash
  <2>3. pipe' \in Seq(Maybe) /\ Len(pipe') <= BufferSize + 1
    BY <1>12, SizeAssumption DEF Crash
  <2>. QED  BY <1>0, <1>12, <2>1, <2>2, <2>3 DEF Crash
<1>13. CASE UNCHANGED <<vars, setting>>
  BY <1>13 DEF vars
<1>. QED  BY <1>1, <1>2, <1>3, <1>4, <1>5, <1>6, <1>7, <1>8, <1>9, <1>10,
             <1>11, <1>12, <1>13 DEF Next, Worker

\* The initial states are well typed.
LEMMA InitTypes == Init => TypeOK
<1>. SUFFICES ASSUME Init PROVE TypeOK
  OBVIOUS
<1>1. 0 \in 0 .. MaxEdits /\ 0 \in 0 .. MaxFaults
  BY SizeAssumption
<1>2. offer \in Maybe /\ pcQueued \in BOOLEAN
  BY <1>1 DEF Init, Maybe, Config
<1>3. pipe \in Seq(Maybe) /\ Len(pipe) <= BufferSize + 1
  BY SizeAssumption DEF Init
<1>4. setting \in Settings /\ news \in BOOLEAN
  BY SettingsAssumption DEF Init
<1>5. applied \in [Objects -> [rev : 0 .. MaxEdits, secret : 0 .. MaxEdits]]
  BY <1>1 DEF Init
<1>. QED  BY <1>1, <1>2, <1>3, <1>4, <1>5 DEF Init, TypeOK, Maybe

\* Every reachable state is well typed; in particular the events under way
\* never exceed what controller-runtime holds.
THEOREM TypeCorrect == Spec => []TypeOK
  BY InitTypes, NextTypes, PTL DEF Spec

-----------------------------------------------------------------------------
(***************************************************************************)
(* Nothing lost: unless the ProviderConfig controller still has a request, *)
(* or will queue one, the last word on its way is the current one.         *)
(***************************************************************************)
LastWord == IF hand # NoMessage THEN hand.conf
            ELSE IF pipe # <<>> THEN pipe[Len(pipe)]
            ELSE cache

Arriving == \/ pcQueued
            \/ hand # NoMessage /\ hand.again
            \/ LastWord = offer

\* What a step does to the events on their way.
LEMMA ArrivingKept == TypeOK /\ Arriving /\ [Next]_<<vars, setting>> => Arriving'
<1>. SUFFICES ASSUME TypeOK, Arriving, [Next]_<<vars, setting>> PROVE Arriving'
  OBVIOUS
<1>0. pipe \in Seq(Maybe) /\ (hand # NoMessage => hand \in Message)
  BY DEF TypeOK
<1>1. CASE EditConfig
  BY <1>1 DEF EditConfig, Arriving
<1>2. CASE Read
  <2>1. \A c \in Maybe, again \in BOOLEAN : Holding(c, again)
          => hand' # NoMessage /\ hand'.conf = c /\ hand'.again = again
    BY NothingAssumption DEF Holding, Message
  <2>2. offer' = offer /\ offer \in Maybe /\ NoConfig \in Maybe
    BY <1>2 DEF Read, TypeOK, Maybe
  <2>3. Holding(offer, FALSE) \/ Holding(NoConfig, TRUE)
    BY <1>2 DEF Read, ReadError
  <2>. QED  BY <2>1, <2>2, <2>3 DEF Arriving, LastWord
<1>3. CASE Send
  <2>1. /\ hand # NoMessage /\ hand' = NoMessage
        /\ pipe' = Append(pipe, hand.conf)
        /\ pcQueued' = (pcQueued \/ hand.again) /\ offer' = offer
    BY <1>3 DEF Send, Transmit
  <2>2. pipe' # <<>> /\ pipe'[Len(pipe')] = hand.conf
    BY <1>0, <2>1 DEF Message
  <2>3. LastWord' = LastWord
    BY <2>1, <2>2 DEF LastWord
  <2>. QED  BY <2>1, <2>3 DEF Arriving
<1>4. CASE Store
  <2>1. /\ pipe # <<>> /\ pipe' = Tail(pipe) /\ cache' = pipe[1]
        /\ UNCHANGED <<pcQueued, hand, offer>>
    BY <1>0, <1>4 DEF Store
  <2>2. LastWord' = LastWord
    <3>1. CASE Len(pipe) = 1
      <4>1. pipe' = <<>>
        BY <1>0, <2>1, <3>1
      <4>. QED  BY <2>1, <3>1, <4>1 DEF LastWord
    <3>2. CASE Len(pipe) # 1
      <4>0. Len(pipe) \in Nat \ {0}
        BY <1>0, <2>1, EmptySeq
      <4>1. Len(pipe) \in Nat /\ Len(pipe) > 1
        BY <3>2, <4>0
      <4>2. Len(pipe') = Len(pipe) - 1
        BY <1>0, <2>1, <4>1
      <4>3. pipe'[Len(pipe')] = pipe[Len(pipe)]
        BY <1>0, <2>1, <4>1, <4>2
      <4>4. pipe' # <<>>
        BY <4>1, <4>2
      <4>. QED  BY <2>1, <4>3, <4>4 DEF LastWord
    <3>. QED  BY <3>1, <3>2
  <2>. QED  BY <2>1, <2>2 DEF Arriving
<1>5. CASE Crash
  BY <1>5 DEF Crash, Arriving, LastWord
<1>6. ASSUME UNCHANGED <<pcQueued, hand, pipe, cache, offer>> PROVE Arriving'
  BY <1>6 DEF Arriving, LastWord
<1>7. CASE \/ RotateSecret \/ MapConfig \/ MapSecretToRequests \/ Worker
           \/ (\E o \in Objects : TimerFires(o)) \/ UNCHANGED <<vars, setting>>
  BY <1>6, <1>7 DEF RotateSecret, MapConfig, MapSecretToRequests, Worker, Take,
     Load, Finish, TimerFires, senderVars, receiverVars, vars
<1>. QED  BY <1>1, <1>2, <1>3, <1>4, <1>5, <1>7 DEF Next

\* Arriving in every reachable state.
LEMMA ArrivingInvariant == Spec => [](TypeOK /\ Arriving)
<1>1. Init => Arriving
  BY DEF Init, Arriving, LastWord
<1>. QED  BY <1>1, ArrivingKept, TypeCorrect, PTL DEF Spec

\* No change of the ProviderConfig is lost, for any number of edits, read
\* errors and crashes, and whatever the size of the buffer.
THEOREM NothingLostHolds == Spec => []NothingLost
<1>1. Arriving => NothingLost
  BY DEF Arriving, LastWord, NothingLost, Delivered
<1>. QED  BY <1>1, ArrivingInvariant, PTL

-----------------------------------------------------------------------------

(***************************************************************************)
(* Nobody left out: once the objects have been listed for the cached       *)
(* config, each of them has a request, or is in hand and not yet beyond    *)
(* that config, or was reconciled with it.                                 *)
(***************************************************************************)
InWork(o) == work # Idle /\ work.obj = o

UpToDate(o) ==
  /\ InWork(o) => \/ work.at = "load"
                  \/ work.conf = NoConfig
                  \/ work.conf.rev = cache.rev
  /\ ~InWork(o) => applied[o].rev = cache.rev

Told == cache # NoConfig /\ ~listing /\ ~missed
          => \A o \in Objects : o \in queued \cup timers \/ UpToDate(o)

\* Who is told stays told, until it was reconciled.
LEMMA ToldKept == TypeOK /\ Told /\ [Next]_<<vars, setting>> => Told'
<1>. SUFFICES ASSUME TypeOK, Told, [Next]_<<vars, setting>>,
                     cache' # NoConfig, ~listing', ~missed', NEW o \in Objects
              PROVE  (o \in queued \cup timers \/ UpToDate(o))'
  BY DEF Told
<1>. USE DEF senderVars, receiverVars, workerVars, queueVars
<1>0. /\ work # Idle => work \in Job
      /\ applied \in [Objects -> [rev : 0 .. MaxEdits, secret : 0 .. MaxEdits]]
  BY DEF TypeOK
\* The steps that leave the objects and their requests alone.
<1>1. CASE EditConfig \/ RotateSecret \/ Read \/ Send \/ UNCHANGED <<vars, setting>>
  <2>1. UNCHANGED <<cache, listing, missed, queued, timers, work, applied>>
    BY <1>1 DEF EditConfig, RotateSecret, Read, Send, vars
  <2>. QED  BY <2>1 DEF Told, UpToDate, InWork
<1>2. CASE Store \/ Crash
  BY <1>2 DEF Store, Crash
<1>3. CASE MapConfig
  BY <1>3 DEF MapConfig, EnqueueAllObjects
<1>4. CASE MapSecretToRequests
  <2>1. CASE EnqueueAllObjects
    BY <2>1 DEF EnqueueAllObjects
  <2>2. CASE UNCHANGED queueVars
    BY <1>4, <2>2 DEF MapSecretToRequests, Told, UpToDate, InWork
  <2>. QED  BY <1>4, <2>1, <2>2 DEF MapSecretToRequests
\* The worker.
<1>5. ASSUME NEW p \in Objects, Take(p)
      PROVE  (o \in queued \cup timers \/ UpToDate(o))'
  <2>1. /\ work = Idle /\ work' = [obj |-> p, at |-> "load", conf |-> NoConfig]
        /\ queued' = queued \ {p}
        /\ UNCHANGED <<cache, listing, missed, timers, applied>>
    BY <1>5 DEF Take
  <2>2. o \in queued \cup timers \/ UpToDate(o)
    BY <2>1 DEF Told
  <2>3. CASE o = p
    <3>1. work' \in Job
      BY <2>1 DEF Job, Maybe
    <3>. QED  BY <2>1, <2>3, <3>1, NothingAssumption DEF UpToDate, InWork
  <2>4. CASE o # p
    BY <2>1, <2>2, <2>4 DEF UpToDate, InWork
  <2>. QED  BY <2>3, <2>4
<1>6. CASE Load
  <2>1. /\ work # Idle /\ work \in Job
        /\ work' = [work EXCEPT !.at = "finish", !.conf = cache]
        /\ UNCHANGED <<cache, listing, missed, queued, timers, applied>>
    BY <1>0, <1>6 DEF Load
  <2>2. work'.obj = work.obj /\ work'.conf = cache' /\ work' \in Job
    BY <2>1 DEF Job, TypeOK
  <2>3. o \in queued \cup timers \/ UpToDate(o)
    BY <2>1 DEF Told
  <2>. QED  BY <2>1, <2>2, <2>3, NothingAssumption DEF UpToDate, InWork
<1>7. CASE Finish
  <2>1. /\ work # Idle /\ work.at = "finish" /\ work' = Idle
        /\ UNCHANGED <<cache, listing, missed, queued>>
        /\ timers \subseteq timers'
    BY <1>7 DEF Finish, FallBack, Requeue
  <2>2. o \in queued \cup timers \/ UpToDate(o)
    BY <2>1 DEF Told
  <2>3. CASE InWork(o)
    <3>1. CASE o \in timers'
      BY <3>1
    <3>2. CASE /\ work.conf # NoConfig
               /\ applied' = [applied EXCEPT ![work.obj] =
                                [rev |-> work.conf.rev, secret |-> secret]]
      <4>1. applied'[o].rev = work.conf.rev
        BY <1>0, <2>3, <3>2 DEF InWork
      <4>. QED  BY <2>1, <2>2, <2>3, <3>2, <4>1 DEF UpToDate, InWork
    <3>. QED  BY <1>7, <2>3, <3>1, <3>2 DEF Finish, Requeue, InWork
  <2>4. CASE ~InWork(o)
    <3>1. applied'[o] = applied[o]
      BY <1>0, <1>7, <2>1, <2>4 DEF Finish, InWork
    <3>. QED  BY <2>1, <2>2, <2>4, <3>1 DEF UpToDate, InWork
  <2>. QED  BY <2>3, <2>4
<1>8. ASSUME NEW p \in Objects, TimerFires(p)
      PROVE  (o \in queued \cup timers \/ UpToDate(o))'
  BY <1>8 DEF TimerFires, Told, UpToDate, InWork
<1>. QED  BY <1>1, <1>2, <1>3, <1>4, <1>5, <1>6, <1>7, <1>8 DEF Next, Worker

\* The promise of PCReconciler's comment, for any number of objects, with or
\* without a poll: when everything is delivered and the list of the objects
\* did not fail, an object that has nothing pending has the current config.
THEOREM NobodyIsLeftOutHolds == Spec => []NobodyIsLeftOut
<1>1. Init => Told
  BY DEF Init, Told
<1>2. TypeOK /\ Arriving /\ Told => NobodyIsLeftOut
  BY DEF Arriving, LastWord, Told, UpToDate, InWork, NobodyIsLeftOut, Delivered
<1>. QED  BY <1>1, <1>2, ToldKept, ArrivingInvariant, PTL DEF Spec

-----------------------------------------------------------------------------

(***************************************************************************)
(* Never back: configs travel from the platform cluster over the hand of   *)
(* the ProviderConfig controller, the pipe, the cached pointer and the     *)
(* hand of the worker to an object without overtaking, so that whatever is *)
(* found at one of these places bounds the revisions at those before it.   *)
(***************************************************************************)
NotBefore(c, r) == c # NoConfig => c.rev >= r

OfferBound(r) == edits >= r /\ NotBefore(offer, r)
HandBound(r)  == OfferBound(r) /\ (hand # NoMessage => NotBefore(hand.conf, r))
PipeBound(r, n) ==
  HandBound(r) /\ \A i \in 1 .. Len(pipe) : i >= n => NotBefore(pipe[i], r)
CacheBound(r) == PipeBound(r, 1) /\ NotBefore(cache, r)
WorkBound(r)  == CacheBound(r) /\ (work # Idle => NotBefore(work.conf, r))

OfferInOrder == offer # NoConfig => edits >= offer.rev
HandInOrder  == hand # NoMessage /\ hand.conf # NoConfig
                  => OfferBound(hand.conf.rev)
PipeInOrder  == \A i \in 1 .. Len(pipe) :
                  pipe[i] # NoConfig => PipeBound(pipe[i].rev, i)
CacheInOrder == cache # NoConfig => PipeBound(cache.rev, 1)
WorkInOrder  == work # Idle /\ work.conf # NoConfig => CacheBound(work.conf.rev)
AppliedInOrder == \A o \in Objects : WorkBound(applied[o].rev)

InOrder == /\ OfferInOrder /\ HandInOrder /\ PipeInOrder /\ CacheInOrder
           /\ WorkInOrder /\ AppliedInOrder

\* The bounds are kept by every step: what enters a place comes from the
\* place before it, or is newer than everything.
LEMMA BoundsKept ==
  ASSUME TypeOK, [Next]_<<vars, setting>>, NEW r \in Nat
  PROVE  /\ OfferBound(r) => OfferBound(r)'
         /\ HandBound(r) => HandBound(r)'
         /\ \A n \in Nat : PipeBound(r, n) => PipeBound(r, n)'
         /\ CacheBound(r) => CacheBound(r)'
         /\ WorkBound(r) => WorkBound(r)'
<1>0. /\ pipe \in Seq(Maybe) /\ Len(pipe) \in Nat
      /\ hand # NoMessage => hand \in Message
      /\ edits \in Nat /\ edits' \in Nat /\ edits' >= edits
  <2>1. edits \in Nat /\ edits' \in Nat
    BY NextTypes, SizeAssumption DEF TypeOK
  <2>2. UNCHANGED edits \/ Edit
    BY DEF Next, EditConfig, RotateSecret, Read, Send, Store, MapConfig,
       MapSecretToRequests, Worker, Take, Load, Finish, TimerFires, Crash, vars
  <2>. QED  BY <2>1, <2>2 DEF TypeOK, Edit
<1>. USE DEF senderVars, receiverVars, workerVars, queueVars
\* It is enough to follow the bounds from place to place.
<1>1. ASSUME OfferBound(r) PROVE OfferBound(r)'
  <2>1. edits' >= r
    BY <1>0, <1>1 DEF OfferBound
  <2>2. CASE UNCHANGED offer
    BY <1>1, <2>1, <2>2 DEF OfferBound, NotBefore
  <2>3. CASE offer' # offer
    <3>1. offer' = NoConfig \/ \E p \in BOOLEAN : offer' = [rev |-> edits', private |-> p]
      BY <2>3 DEF Next, EditConfig, RotateSecret, Read, Send, Store, MapConfig,
         MapSecretToRequests, Worker, Take, Load, Finish, TimerFires, Crash, vars
    <3>. QED  BY <2>1, <3>1 DEF OfferBound, NotBefore
  <2>. QED  BY <2>2, <2>3
<1>2. ASSUME HandBound(r) PROVE HandBound(r)'
  <2>1. OfferBound(r)'
    BY <1>1, <1>2 DEF HandBound
  <2>2. CASE UNCHANGED hand
    BY <1>2, <2>1, <2>2 DEF HandBound, NotBefore
  <2>3. CASE hand' = NoMessage
    BY <2>1, <2>3 DEF HandBound
  <2>4. CASE Holding(offer, FALSE) \/ Holding(NoConfig, TRUE)
    <3>1. hand'.conf \in {offer, NoConfig}
      BY <2>4 DEF Holding
    <3>. QED  BY <1>2, <2>1, <3>1 DEF HandBound, OfferBound, NotBefore
  <2>. QED  BY <2>2, <2>3, <2>4 DEF Next, EditConfig, RotateSecret, Read,
            ReadError, Send, Store, MapConfig, MapSecretToRequests, Worker,
            Take, Load, Finish, TimerFires, Crash, vars
<1>3. ASSUME NEW n \in Nat, PipeBound(r, n) PROVE PipeBound(r, n)'
  <2>1. HandBound(r)'
    BY <1>2, <1>3 DEF PipeBound
  <2>2. CASE UNCHANGED pipe
    BY <1>3, <2>1, <2>2 DEF PipeBound, NotBefore
  <2>3. CASE hand # NoMessage /\ pipe' = Append(pipe, hand.conf)
    <3>1. NotBefore(hand.conf, r)
      BY <1>3, <2>3 DEF PipeBound, HandBound
    <3>2. ASSUME NEW i \in 1 .. Len(pipe'), i >= n PROVE NotBefore(pipe'[i], r)
      <4>1. CASE i \in 1 .. Len(pipe)
        <5>1. pipe'[i] = pipe[i]
          BY <1>0, <2>3, <4>1 DEF Message
        <5>. QED  BY <1>3, <3>2, <4>1, <5>1 DEF PipeBound
      <4>2. CASE i = Len(pipe) + 1
        <5>1. pipe'[i] = hand.conf
          BY <1>0, <2>3, <4>2 DEF Message
        <5>. QED  BY <3>1, <5>1
      <4>. QED  BY <1>0, <2>3, <4>1, <4>2 DEF Message
    <3>. QED  BY <2>1, <3>2 DEF PipeBound, NotBefore
  <2>4. CASE pipe # <<>> /\ pipe' = Tail(pipe)
    <3>1. ASSUME NEW i \in 1 .. Len(pipe'), i >= n PROVE NotBefore(pipe'[i], r)
      <4>1. Len(pipe) > 0 /\ i + 1 \in 1 .. Len(pipe)
        BY <1>0, <2>4, <3>1, EmptySeq
      <4>2. pipe'[i] = pipe[i + 1]
        BY <1>0, <2>4, <3>1, <4>1
      <4>. QED  BY <1>3, <3>1, <4>1, <4>2 DEF PipeBound
    <3>. QED  BY <2>1, <3>1 DEF PipeBound, NotBefore
  <2>5. CASE pipe' = <<>>
    BY <2>1, <2>5 DEF PipeBound
  <2>. QED  BY <2>2, <2>3, <2>4, <2>5 DEF Next, EditConfig, RotateSecret, Read,
            Send, Transmit, Store, MapConfig, MapSecretToRequests, Worker, Take,
            Load, Finish, TimerFires, Crash, vars
<1>4. ASSUME CacheBound(r) PROVE CacheBound(r)'
  <2>1. PipeBound(r, 1)'
    BY <1>3, <1>4 DEF CacheBound
  <2>2. CASE cache' \in {cache, NoConfig}
    BY <1>4, <2>1, <2>2 DEF CacheBound, NotBefore
  <2>3. CASE pipe # <<>> /\ cache' = Head(pipe)
    <3>1. 1 \in 1 .. Len(pipe) /\ cache' = pipe[1]
      BY <1>0, <2>3, EmptySeq
    <3>. QED  BY <1>4, <2>1, <3>1 DEF CacheBound, PipeBound, NotBefore
  <2>. QED  BY <2>2, <2>3 DEF Next, EditConfig, RotateSecret, Read, Send, Store,
            MapConfig, MapSecretToRequests, Worker, Take, Load, Finish,
            TimerFires, Crash, vars
<1>5. ASSUME WorkBound(r) PROVE WorkBound(r)'
  <2>1. CacheBound(r)'
    BY <1>4, <1>5 DEF WorkBound
  <2>2. CASE work' \in {work, Idle}
    BY <1>5, <2>1, <2>2 DEF WorkBound, NotBefore
  <2>3. CASE work'.conf \in {cache, NoConfig}
    BY <1>5, <2>1, <2>3 DEF WorkBound, CacheBound, NotBefore
  <2>4. CASE Load
    <3>1. work'.conf = cache
      BY <2>4 DEF Load, TypeOK, Job
    <3>. QED  BY <2>3, <3>1
  <2>5. ASSUME NEW o \in Objects, Take(o) PROVE work'.conf = NoConfig
    BY <2>5 DEF Take
  <2>. QED  BY <2>2, <2>3, <2>4, <2>5 DEF Next, EditConfig, RotateSecret, Read,
            Send, Store, MapConfig, MapSecretToRequests, Worker, Finish,
            TimerFires, Crash, vars
<1>. QED  BY <1>1, <1>2, <1>3, <1>4, <1>5

\* The order of the revisions is kept: a config that moves on to the next
\* place is a bound for the places it leaves behind.
LEMMA InOrderKept ==
  ASSUME TypeOK, InOrder, [Next]_<<vars, setting>>
  PROVE  /\ InOrder'
         /\ \A o \in Objects : applied'[o].rev >= applied[o].rev
<1>0. /\ \A c \in Config : c.rev \in Nat
      /\ offer \in Maybe /\ pipe \in Seq(Maybe) /\ Len(pipe) \in Nat
      /\ cache \in Maybe
      /\ hand # NoMessage => hand \in Message /\ hand.conf \in Maybe
      /\ work # Idle => work \in Job /\ work.conf \in Maybe
      /\ \A o \in Objects : applied[o].rev \in Nat
  BY SizeAssumption DEF TypeOK, Config, Message, Job
<1>a. \A c \in Maybe : c # NoConfig => c.rev \in Nat
  BY <1>0 DEF Maybe
<1>. USE DEF senderVars, receiverVars, workerVars, queueVars
<1>1. OfferInOrder'
  <2>1. CASE UNCHANGED offer /\ offer # NoConfig
    <3>1. PICK r \in Nat : r = offer.rev
      BY <1>0, <1>a, <2>1
    <3>2. OfferBound(r)
      BY <2>1, <3>1 DEF InOrder, OfferInOrder, OfferBound, NotBefore
    <3>. QED  BY <2>1, <3>1, <3>2, BoundsKept DEF OfferInOrder, OfferBound
  <2>2. CASE offer' # offer
    <3>1. EditConfig
      BY <2>2 DEF Next, RotateSecret, Read, Send, Store, MapConfig,
         MapSecretToRequests, Worker, Take, Load, Finish, TimerFires, Crash, vars
    <3>2. edits' \in Nat
      BY NextTypes, SizeAssumption DEF TypeOK
    <3>. QED  BY <3>1, <3>2 DEF EditConfig, OfferInOrder
  <2>. QED  BY <2>1, <2>2 DEF OfferInOrder
<1>2. HandInOrder'
  <2>. SUFFICES ASSUME hand' # NoMessage, hand'.conf # NoConfig
                PROVE  OfferBound(hand.conf.rev)'
    BY DEF HandInOrder
  <2>1. CASE UNCHANGED hand
    <3>1. PICK r \in Nat : r = hand.conf.rev
      BY <1>0, <1>a, <2>1
    <3>2. OfferBound(r)
      BY <2>1, <3>1 DEF InOrder, HandInOrder
    <3>3. OfferBound(r)'
      BY <3>2, BoundsKept
    <3>. QED  BY <2>1, <3>1, <3>3 DEF OfferBound, NotBefore
  <2>2. CASE hand' # hand
    <3>1. Holding(offer, FALSE) /\ UNCHANGED <<offer, edits>>
      BY <2>2 DEF Next, EditConfig, RotateSecret, Read, ReadError, Holding, Send,
         Store, MapConfig, MapSecretToRequests, Worker, Take, Load, Finish,
         TimerFires, Crash, vars
    <3>2. hand'.conf = offer
      BY <3>1 DEF Holding
    <3>3. edits >= offer.rev /\ offer.rev >= offer.rev
      BY <1>0, <1>a, <3>2 DEF InOrder, OfferInOrder
    <3>. QED  BY <3>1, <3>2, <3>3 DEF OfferBound, NotBefore
  <2>. QED  BY <2>1, <2>2
<1>3. PipeInOrder'
  <2>. SUFFICES ASSUME NEW i \in 1 .. Len(pipe'), pipe'[i] # NoConfig
                PROVE  PipeBound(pipe[i].rev, i)'
    BY DEF PipeInOrder
  <2>1. CASE UNCHANGED pipe
    <3>1. PICK r \in Nat : r = pipe[i].rev
      BY <1>0, <1>a, <2>1
    <3>2. PipeBound(r, i)
      BY <2>1, <3>1 DEF InOrder, PipeInOrder
    <3>3. PipeBound(r, i)'
      BY <3>2, BoundsKept
    <3>. QED  BY <2>1, <3>1, <3>3 DEF PipeBound, HandBound, OfferBound, NotBefore
  <2>2. CASE Send
    <3>1. hand # NoMessage /\ pipe' = Append(pipe, hand.conf) /\ hand' = NoMessage
      BY <2>2 DEF Send, Transmit
    <3>2. CASE i \in 1 .. Len(pipe)
      <4>1. pipe'[i] = pipe[i]
        BY <1>0, <3>1, <3>2
      <4>2. PICK r \in Nat : r = pipe[i].rev
        BY <1>0, <1>a, <3>2, <4>1
      <4>3. PipeBound(r, i)
        BY <3>2, <4>1, <4>2 DEF InOrder, PipeInOrder
      <4>4. PipeBound(r, i)'
        BY <4>3, BoundsKept
      <4>. QED  BY <4>1, <4>2, <4>4 DEF PipeBound, HandBound, OfferBound, NotBefore
    <3>3. CASE i = Len(pipe) + 1
      <4>1. pipe'[i] = hand.conf /\ Len(pipe') = i
        BY <1>0, <3>1, <3>3
      <4>2. PICK r \in Nat : r = hand.conf.rev
        BY <1>0, <1>a, <3>1, <4>1
      <4>3. OfferBound(r)'
        BY <3>1, <4>1, <4>2, BoundsKept DEF InOrder, HandInOrder
      <4>4. \A j \in 1 .. Len(pipe') : j >= i => j = i
        BY <1>0, <3>3, <4>1
      <4>5. NotBefore(pipe'[i], r)
        BY <4>1, <4>2 DEF NotBefore
      <4>6. PipeBound(r, i)'
        BY <3>1, <4>3, <4>4, <4>5 DEF PipeBound, HandBound, NotBefore
      <4>. QED  BY <4>1, <4>2, <4>6 DEF PipeBound, HandBound, OfferBound, NotBefore
    <3>. QED  BY <1>0, <3>1, <3>2, <3>3
  <2>3. CASE Store
    <3>1. pipe # <<>> /\ pipe' = Tail(pipe) /\ UNCHANGED <<hand, offer, edits>>
      BY <2>3 DEF Store
    <3>2. Len(pipe) \in Nat \ {0}
      BY <1>0, <3>1, EmptySeq
    <3>3. /\ Len(pipe') = Len(pipe) - 1
          /\ \A j \in 1 .. Len(pipe') : j + 1 \in 1 .. Len(pipe) /\ pipe'[j] = pipe[j + 1]
      BY <1>0, <3>1, <3>2
    <3>4. PICK r \in Nat : r = pipe[i + 1].rev
      BY <1>0, <1>a, <3>3
    <3>5. PipeBound(r, i + 1)
      BY <3>3, <3>4 DEF InOrder, PipeInOrder
    <3>6. HandBound(r)'
      BY <3>5, BoundsKept DEF PipeBound
    <3>7. \A j \in 1 .. Len(pipe') : j >= i => NotBefore(pipe'[j], r)
      BY <3>3, <3>5 DEF PipeBound
    <3>8. PipeBound(r, i)'
      BY <3>6, <3>7 DEF PipeBound, NotBefore
    <3>. QED  BY <3>3, <3>4, <3>8 DEF PipeBound, HandBound, OfferBound, NotBefore
  <2>4. CASE Crash
    BY <2>4 DEF Crash
  <2>. QED  BY <2>1, <2>2, <2>3, <2>4 DEF Next, EditConfig, RotateSecret, Read,
            MapConfig, MapSecretToRequests, Worker, Take, Load, Finish,
            TimerFires, vars
<1>4. CacheInOrder'
  <2>. SUFFICES ASSUME cache' # NoConfig PROVE PipeBound(cache.rev, 1)'
    BY DEF CacheInOrder
  <2>1. ASSUME NEW r \in Nat, PipeBound(r, 1), r = cache'.rev
        PROVE  PipeBound(cache.rev, 1)'
    <3>1. PipeBound(r, 1)'
      BY <2>1, BoundsKept
    <3>. QED  BY <2>1, <3>1 DEF PipeBound, HandBound, OfferBound, NotBefore
  <2>2. CASE UNCHANGED cache
    BY <1>0, <1>a, <2>1, <2>2 DEF InOrder, CacheInOrder
  <2>3. CASE pipe # <<>> /\ cache' = Head(pipe)
    <3>1. 1 \in 1 .. Len(pipe) /\ cache' = pipe[1] /\ pipe[1] \in Maybe
      BY <1>0, <2>3, EmptySeq
    <3>2. PipeBound(pipe[1].rev, 1)
      BY <3>1 DEF InOrder, PipeInOrder
    <3>. QED  BY <1>a, <2>1, <3>1, <3>2
  <2>. QED  BY <2>2, <2>3 DEF Next, EditConfig, RotateSecret, Read, Send, Store,
            MapConfig, MapSecretToRequests, Worker, Take, Load, Finish,
            TimerFires, Crash, vars
<1>5. WorkInOrder'
  <2>. SUFFICES ASSUME work' # Idle, work'.conf # NoConfig
                PROVE  CacheBound(work.conf.rev)'
    BY DEF WorkInOrder
  <2>1. ASSUME NEW r \in Nat, CacheBound(r), r = work'.conf.rev
        PROVE  CacheBound(work.conf.rev)'
    <3>1. CacheBound(r)'
      BY <2>1, BoundsKept
    <3>. QED  BY <2>1, <3>1
              DEF CacheBound, PipeBound, HandBound, OfferBound, NotBefore
  <2>2. CASE UNCHANGED work
    BY <1>0, <1>a, <2>1, <2>2 DEF InOrder, WorkInOrder
  <2>3. CASE Load
    <3>1. work'.conf = cache
      BY <2>3 DEF Load, TypeOK, Job
    <3>2. cache.rev \in Nat
      BY <1>0, <1>a, <3>1
    <3>3. CacheBound(cache.rev)
      BY <3>1, <3>2 DEF InOrder, CacheInOrder, CacheBound, NotBefore
    <3>. QED  BY <2>1, <3>1, <3>2, <3>3
  <2>4. ~\E o \in Objects : Take(o)
    BY DEF Take
  <2>. QED  BY <2>2, <2>3, <2>4 DEF Next, EditConfig, RotateSecret, Read, Send,
            Store, MapConfig, MapSecretToRequests, Worker, Finish, TimerFires,
            Crash, vars
<1>6. ASSUME NEW o \in Objects
      PROVE  WorkBound(applied[o].rev)' /\ applied'[o].rev >= applied[o].rev
  <2>1. ASSUME NEW r \in Nat, WorkBound(r), r = applied'[o].rev
        PROVE  WorkBound(applied[o].rev)'
    <3>1. WorkBound(r)'
      BY <2>1, BoundsKept
    <3>. QED  BY <2>1, <3>1 DEF WorkBound, CacheBound, PipeBound, HandBound,
              OfferBound, NotBefore
  <2>2. CASE applied'[o] = applied[o]
    <3>1. WorkBound(applied[o].rev) /\ applied[o].rev \in Nat
      BY <1>0 DEF InOrder, AppliedInOrder
    <3>. QED  BY <2>1, <2>2, <3>1
  <2>3. CASE applied'[o] # applied[o]
    <3>1. /\ work # Idle /\ work.conf # NoConfig /\ work.obj = o
          /\ applied' = [applied EXCEPT ![work.obj] =
                           [rev |-> work.conf.rev, secret |-> secret]]
      BY <2>3 DEF Next, EditConfig, RotateSecret, Read, Send, Store, MapConfig,
         MapSecretToRequests, Worker, Take, Load, Finish, TimerFires, Crash,
         vars, TypeOK
    <3>2. applied'[o].rev = work.conf.rev /\ work.conf.rev \in Nat
      BY <1>0, <1>a, <3>1 DEF TypeOK
    <3>3. WorkBound(work.conf.rev)
      BY <3>1, <3>2 DEF InOrder, WorkInOrder, WorkBound, NotBefore
    <3>4. work.conf.rev >= applied[o].rev
      BY <3>1 DEF InOrder, AppliedInOrder, WorkBound, NotBefore
    <3>. QED  BY <2>1, <3>2, <3>3, <3>4
  <2>. QED  BY <2>2, <2>3
<1>7. AppliedInOrder'
  BY <1>6 DEF AppliedInOrder
<1>. QED  BY <1>1, <1>2, <1>3, <1>4, <1>5, <1>6, <1>7 DEF InOrder

\* No object is ever brought back to an older ProviderConfig, for any number
\* of edits under way, restarts and failed calls.
THEOREM AppliedNeverGoesBackHolds == Spec => AppliedNeverGoesBack
<1>1. Init => InOrder
  <2>. SUFFICES ASSUME Init PROVE InOrder
    OBVIOUS
  <2>1. offer # NoConfig => offer.rev = 0
    BY DEF Init
  <2>2. OfferInOrder /\ HandInOrder /\ CacheInOrder /\ WorkInOrder
    BY <2>1 DEF Init, OfferInOrder, HandInOrder, CacheInOrder, WorkInOrder
  <2>3. PipeInOrder
    BY DEF Init, PipeInOrder
  <2>4. AppliedInOrder
    <3>1. \A o \in Objects : applied[o].rev = 0
      BY DEF Init
    <3>2. /\ edits = 0 /\ hand = NoMessage /\ cache = NoConfig /\ work = Idle
          /\ \A i \in 1 .. Len(pipe) : FALSE
      BY DEF Init
    <3>3. WorkBound(0)
      BY <2>1, <3>2 DEF WorkBound, CacheBound, PipeBound, HandBound, OfferBound,
         NotBefore
    <3>. QED  BY <3>1, <3>3 DEF AppliedInOrder
  <2>. QED  BY <2>2, <2>3, <2>4 DEF InOrder
<1>2. TypeOK /\ InOrder /\ [Next]_<<vars, setting>> => InOrder'
  BY InOrderKept
<1>3. TypeOK /\ InOrder /\ [Next]_<<vars, setting>>
        => [\A o \in Objects : applied'[o].rev >= applied[o].rev]_vars
  BY InOrderKept
<1>. QED  BY <1>1, <1>2, <1>3, TypeCorrect, PTL DEF Spec, AppliedNeverGoesBack
=============================================================================
