------------------------- MODULE ConfigPropagation -------------------------
(***************************************************************************)
(* How a change of the ProviderConfig, or of a secret it refers to,        *)
(* reaches every service provider object: the ProviderConfig controller    *)
(* (pkg/spruntime/pcreconciler.go) reads it and sends it into a channel,   *)
(* whose events SPReconciler's map function stores in the cached pointer   *)
(* before it lists the objects and enqueues them all.  Three goroutines:   *)
(* the worker of the ProviderConfig controller, the map function, and the  *)
(* worker of the service provider.                                         *)
(***************************************************************************)
EXTENDS Naturals, Sequences

CONSTANTS
  Objects,      \* the existing service provider objects
  NoConfig,     \* "no ProviderConfig": a nil event object, a nil pointer
  NoMessage,    \* the ProviderConfig controller has nothing to send
  Idle,         \* the service provider's worker has nothing in hand
  BufferSize,   \* events controller-runtime buffers for the map function
  Settings,     \* whether PollInterval() > 0, and whether a SecretWatcher
                \* and a secret namespace are set
  MaxEdits,     \* bound on config edits and secret rotations
  MaxFaults     \* bound on failed calls and crashes

ASSUME SizeAssumption == {BufferSize, MaxEdits, MaxFaults} \subseteq Nat
ASSUME SettingsAssumption ==
  Settings \subseteq [polls : BOOLEAN, watched : BOOLEAN]

\* A ProviderConfig: which edit made it, and whether IsReferencedSecret
\* holds for the secret.
Config == [rev : 0 .. MaxEdits, private : BOOLEAN]

Maybe == Config \cup {NoConfig}

\* What the ProviderConfig controller has in hand, and the service provider's
\* worker: providerConfigCopy is conf, once it is loaded.
Message == [conf : Maybe, again : BOOLEAN]
Job == [obj : Objects, at : {"load", "finish"}, conf : Maybe]

ASSUME NothingAssumption ==
  NoConfig \notin Config /\ NoMessage \notin Message /\ Idle \notin Job

VARIABLES
  offer,    \* the ProviderConfig on the platform cluster, or NoConfig
  secret,   \* the revision of the secret there
  pcQueued, \* the ProviderConfig controller has a request
  hand,     \* what it is sending, and whether it then returns an error
  pipe,     \* the events on their way to the map function
  cache,    \* SPReconciler.providerConfig
  listing,  \* the map function has stored a config and not yet listed
  news,     \* an event of the secret waits for mapSecretToRequests
  queued,   \* the objects with a reconcile request
  timers,   \* the objects with a delayed request
  work,     \* the reconcile in progress, or Idle
  applied,  \* the config and secret each object was last reconciled with
  missed,   \* the last list of the objects failed
  edits,    \* what the operator did so far
  faults,   \* what went wrong so far
  setting   \* how the controller is set up; it stays so

vars == <<offer, secret, pcQueued, hand, pipe, cache, listing, news, queued,
          timers, work, applied, missed, edits, faults>>

TypeOK ==
  /\ offer \in Maybe
  /\ secret \in 0 .. MaxEdits
  /\ pcQueued \in BOOLEAN
  /\ hand \in Message \cup {NoMessage}
  /\ pipe \in Seq(Maybe) /\ Len(pipe) <= BufferSize + 1
  /\ cache \in Maybe
  /\ listing \in BOOLEAN
  /\ news \in BOOLEAN
  /\ queued \in SUBSET Objects
  /\ timers \in SUBSET Objects
  /\ work \in Job \cup {Idle}
  /\ applied \in [Objects -> [rev : 0 .. MaxEdits, secret : 0 .. MaxEdits]]
  /\ missed \in BOOLEAN
  /\ edits \in 0 .. MaxEdits
  /\ faults \in 0 .. MaxFaults
  /\ setting \in Settings

\* The process has started: the informers list what is there.
Init ==
  /\ setting \in Settings
  /\ offer \in {NoConfig} \cup {[rev |-> 0, private |-> p] : p \in BOOLEAN}
  /\ secret = 0
  /\ pcQueued = (offer # NoConfig)
  /\ hand = NoMessage
  /\ pipe = <<>>
  /\ cache = NoConfig
  /\ listing = FALSE
  /\ news = setting.watched
  /\ queued = Objects
  /\ timers = {}
  /\ work = Idle
  /\ applied = [o \in Objects |-> [rev |-> 0, secret |-> 0]]
  /\ missed = FALSE
  /\ edits = 0
  /\ faults = 0

Fault == faults < MaxFaults /\ faults' = faults + 1
Works == UNCHANGED faults

senderVars == <<pcQueued, hand, pipe>>
receiverVars == <<cache, listing>>
workerVars == <<work, applied>>
queueVars == <<queued, missed>>

-----------------------------------------------------------------------------
(***************************************************************************)
(* The platform operator.  Each change of the ProviderConfig is an event   *)
(* that queues its one name.  A config with a deletion timestamp is        *)
(* treated as one that is gone.                                            *)
(***************************************************************************)
Edit == edits < MaxEdits /\ edits' = edits + 1

EditConfig ==
  /\ Edit
  /\ \/ \E p \in BOOLEAN : offer' = [rev |-> edits', private |-> p]
     \/ offer # NoConfig /\ offer' = NoConfig
  /\ pcQueued' = TRUE
  /\ UNCHANGED <<secret, hand, pipe, receiverVars, news, queueVars, timers,
                 workerVars, faults>>

RotateSecret ==
  /\ Edit
  /\ secret' = edits'
  /\ news' = setting.watched
  /\ UNCHANGED <<offer, senderVars, receiverVars, queueVars, timers, workerVars,
                 faults>>

-----------------------------------------------------------------------------
(***************************************************************************)
(* PCReconciler.Reconcile.  Whatever the Get says, an event is sent, which *)
(* blocks while the pipe is full.  An error other than NotFound is then    *)
(* returned, and the request is queued again.                              *)
(***************************************************************************)
Holding(conf, again) == hand' = [conf |-> conf, again |-> again]

\* Mutant: every read error is taken for NotFound.
ReadErrorIgnored == Fault /\ Holding(NoConfig, FALSE)

ReadError == Fault /\ Holding(NoConfig, TRUE)

Read ==
  /\ pcQueued /\ hand = NoMessage
  /\ pcQueued' = FALSE
  /\ (Works /\ Holding(offer, FALSE)) \/ ReadError
  /\ UNCHANGED <<offer, secret, pipe, receiverVars, news, queueVars, timers,
                 workerVars, edits>>

\* Mutant: each event is sent from a goroutine of its own.
TransmitConcurrently ==
  /\ Len(pipe) <= BufferSize
  /\ \E n \in 0 .. Len(pipe) :
       pipe' = SubSeq(pipe, 1, n) \o <<hand.conf>>
                 \o SubSeq(pipe, n + 1, Len(pipe))

\* Mutant: the send does not wait for a receiver.
TransmitWithoutLimit == pipe' = Append(pipe, hand.conf)

\* The unbuffered channel hands the event to the goroutine that distributes
\* it, which holds one event more than the buffer it fills.
Transmit == Len(pipe) <= BufferSize /\ pipe' = Append(pipe, hand.conf)

Send ==
  /\ hand # NoMessage
  /\ Transmit
  /\ hand' = NoMessage
  /\ pcQueued' = (pcQueued \/ hand.again)
  /\ UNCHANGED <<offer, secret, receiverVars, news, queueVars, timers,
                 workerVars, edits, faults>>

-----------------------------------------------------------------------------
(***************************************************************************)
(* The map functions.  If the list fails, nobody is enqueued.              *)
(***************************************************************************)
\* Mutant: the config is stored and nobody is told.
StoreQuietly ==
  /\ pipe # <<>> /\ ~listing
  /\ cache' = Head(pipe)
  /\ pipe' = Tail(pipe)
  /\ UNCHANGED <<offer, secret, pcQueued, hand, listing, news, queueVars, timers,
                 workerVars, edits, faults>>

Store ==
  /\ pipe # <<>> /\ ~listing
  /\ cache' = Head(pipe)
  /\ pipe' = Tail(pipe)
  /\ listing' = TRUE
  /\ UNCHANGED <<offer, secret, pcQueued, hand, news, queueVars, timers,
                 workerVars, edits, faults>>

EnqueueAllObjects ==
  \/ Works /\ queued' = Objects /\ missed' = FALSE
  \/ Fault /\ UNCHANGED queued /\ missed' = TRUE

MapConfig ==
  /\ listing
  /\ listing' = FALSE
  /\ EnqueueAllObjects
  /\ UNCHANGED <<offer, secret, senderVars, cache, news, timers, workerVars,
                 edits>>

\* Mutant: only a secret that no config refers to counts.
ReferencedInverted == cache # NoConfig /\ ~cache.private

\* IsReferencedSecret, for the config that is cached when the event is seen.
Referenced == cache # NoConfig /\ cache.private

MapSecretToRequests ==
  /\ news
  /\ news' = FALSE
  /\ \/ Referenced /\ EnqueueAllObjects
     \/ ~Referenced /\ UNCHANGED <<queueVars, faults>>
  /\ UNCHANGED <<offer, secret, senderVars, receiverVars, timers, workerVars,
                 edits>>

-----------------------------------------------------------------------------
(***************************************************************************)
(* SPReconciler.Reconcile, reduced to when it loads the config and what    *)
(* it does with it.  An object that is enqueued while it is in hand stays  *)
(* queued until the worker is back.                                        *)
(***************************************************************************)
Take(o) ==
  /\ work = Idle /\ o \in queued
  /\ work' = [obj |-> o, at |-> "load", conf |-> NoConfig]
  /\ queued' = queued \ {o}
  /\ UNCHANGED <<offer, secret, senderVars, receiverVars, news, timers,
                 applied, missed, edits, faults>>

Load ==
  /\ work # Idle /\ work.at = "load"
  /\ work' = [work EXCEPT !.at = "finish", !.conf = cache]
  /\ UNCHANGED <<offer, secret, senderVars, receiverVars, news, queueVars,
                 timers, applied, edits, faults>>

Requeue(o) == timers' = timers \cup {o}

FallBack(o) == IF setting.polls THEN Requeue(o) ELSE UNCHANGED timers

\* Without a config, and when a call fails, the request is tried again later.
Finish ==
  /\ work # Idle /\ work.at = "finish"
  /\ work' = Idle
  /\ \/ /\ (work.conf = NoConfig /\ Works) \/ Fault
        /\ Requeue(work.obj)
        /\ UNCHANGED applied
     \/ /\ work.conf # NoConfig /\ Works
        /\ applied' = [applied EXCEPT ![work.obj] =
                         [rev |-> work.conf.rev, secret |-> secret]]
        /\ FallBack(work.obj)
  /\ UNCHANGED <<offer, secret, senderVars, receiverVars, news, queueVars, edits>>

TimerFires(o) ==
  /\ o \in timers
  /\ timers' = timers \ {o}
  /\ queued' = queued \cup {o}
  /\ UNCHANGED <<offer, secret, senderVars, receiverVars, news, workerVars,
                 missed, edits, faults>>

\* The process stops and starts again.
Crash ==
  /\ Fault
  /\ pcQueued' = (offer # NoConfig)
  /\ hand' = NoMessage
  /\ pipe' = <<>>
  /\ cache' = NoConfig
  /\ listing' = FALSE
  /\ news' = setting.watched
  /\ queued' = Objects /\ missed' = FALSE
  /\ timers' = {}
  /\ work' = Idle
  /\ UNCHANGED <<offer, secret, applied, edits>>

-----------------------------------------------------------------------------
Worker == (\E o \in Objects : Take(o)) \/ Load \/ Finish

Next ==
  /\ \/ EditConfig \/ RotateSecret
     \/ Read \/ Send
     \/ Store \/ MapConfig \/ MapSecretToRequests
     \/ Worker
     \/ \E o \in Objects : TimerFires(o)
     \/ Crash
  /\ UNCHANGED setting

\* Each goroutine goes on, the work queue is fair among the objects, and
\* delays end.  The operator and faults owe nothing.
Fairness ==
  /\ WF_vars(Read) /\ WF_vars(Send)
  /\ WF_vars(Store) /\ WF_vars(MapConfig) /\ WF_vars(MapSecretToRequests)
  /\ \A o \in Objects : SF_vars(Take(o)) /\ WF_vars(TimerFires(o))
  /\ WF_vars(Load) /\ WF_vars(Finish)

Spec == Init /\ [][Next]_<<vars, setting>>
FairSpec == Spec /\ Fairness

-----------------------------------------------------------------------------
\* Nothing is on its way from the platform cluster to the cached pointer.
Delivered == ~pcQueued /\ hand = NoMessage /\ pipe = <<>>

\* No change of the ProviderConfig is lost between the platform cluster and
\* the cached pointer, and no read error or restart leaves the pointer empty
\* for good: once nothing is on its way, the two are the same
\* (PCReconciler.Reconcile, the channel, the map function's Store).
NothingLost == Delivered => cache = offer

\* No object is ever brought back to an older ProviderConfig, although events
\* of several revisions may be under way, the worker keeps the one it has
\* loaded, and a restart starts from none (the order of the channel and of
\* Load and Store).
AppliedNeverGoesBack ==
  [][\A o \in Objects : applied'[o].rev >= applied[o].rev]_vars

\* "Any provider config change results in a reconcile request for every
\* existing service provider api object" (PCReconciler), unless the list of
\* the objects failed: when everything is delivered and nothing is pending
\* for an object, it was last reconciled with the current config, also
\* without a poll and if it was in hand when the config came.
NobodyIsLeftOut ==
  offer # NoConfig /\ Delivered /\ ~listing /\ ~missed
    => \A o \in Objects :
         \/ o \in queued \cup timers
         \/ work # Idle /\ work.obj = o
         \/ applied[o].rev = offer.rev

\* When the operator and the faults stop, every object is reconciled with the
\* last ProviderConfig and the last revision of the secret it refers to, and
\* stays so: by the poll, whatever went wrong, or, unless the last list of
\* the objects failed, by SecretWatcher and the map functions alone.
EveryoneHears ==
  <>[](offer # NoConfig /\ (setting.polls \/ ~missed)
         => \A o \in Objects :
              /\ applied[o].rev = offer.rev
              /\ offer.private => applied[o].secret = secret)
=============================================================================
