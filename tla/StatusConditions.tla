-------------------------- MODULE StatusConditions --------------------------
(***************************************************************************)
(* The Ready condition and its lastTransitionTime.  CreateOrUpdate begins  *)
(* with StatusProgressing and ends, when everything is ready, with         *)
(* StatusReady: the status goes to False and back to True in memory, and   *)
(* meta.SetStatusCondition stamps the time each time it changes.  Times    *)
(* have the precision of a second once they are written, so the deferred   *)
(* patch moves the stored time if the second has changed, the patch is an  *)
(* event, and the event is another reconcile.                              *)
(*                                                                         *)
(* The clock is abstracted to whether a stored time is of the current      *)
(* second; Tick is the change of the second.  At rest it may come at any   *)
(* time.  A burst of reconciles may begin anywhere in a second, and after  *)
(* the first Tick in it a second lasts for at least Fast reconciles.       *)
(***************************************************************************)
EXTENDS Naturals

CONSTANTS
  Fast,      \* reconciles that fit into a second, back to back; with less
             \* than 2 the controller does not come to rest (QuietsDown)
  MaxFlips,  \* bound on the changes of what Flux reports
  MaxFaults  \* bound on failed reconciles

ASSUME BoundAssumption == {Fast, MaxFlips, MaxFaults} \subseteq Nat

\* The Ready condition is None, InProgress (the first line of CreateOrUpdate),
\* Waiting, Error or Ready, by its reason and message; only Ready is True.
\* Its time is now or past.
VARIABLES
  flux,   \* whether all managed resources are ready
  cond,   \* the condition on the API server
  mem,    \* the condition in memory; moved: its second differs from cond's
  at,     \* the step of Reconcile that comes next
  queued, \* the object has a reconcile request
  timer,  \* the object has a delayed request
  done,   \* reconciles that ended, or would have, in this second, up to Fast
  flips, faults

vars == <<flux, cond, mem, at, queued, timer, done, flips, faults>>

Init ==
  /\ flux = FALSE
  /\ cond = [value |-> "None", since |-> "past"]
  /\ mem = [value |-> "None", since |-> "past", moved |-> FALSE]
  /\ at = "rest"
  /\ queued = TRUE
  /\ timer = FALSE
  /\ done = 0
  /\ flips = 0
  /\ faults = 0

-----------------------------------------------------------------------------
\* A time stamped now differs from the stored one once that is written, in
\* seconds.
Moved == cond.since = "past"

\* meta.SetStatusCondition: the time is stamped when the status changes.
SetStatusCondition(c, value) ==
  IF c.value # "None" /\ (c.value = "Ready" <=> value = "Ready")
    THEN [c EXCEPT !.value = value]
    ELSE [value |-> value, since |-> "now", moved |-> Moved]

\* Reconcile reads the object, and CreateOrUpdate begins.
Begin ==
  /\ at = "rest" /\ queued
  /\ queued' = FALSE
  /\ mem' = SetStatusCondition([value |-> cond.value, since |-> cond.since,
                                moved |-> FALSE], "InProgress")
  /\ at' = "calls"
  /\ UNCHANGED <<flux, cond, timer, done, flips, faults>>

\* Mutant: nothing is said when the resources are not ready.
ReportReadyOnly ==
  mem' = IF flux THEN SetStatusCondition(mem, "Ready") ELSE mem

\* The end of CreateOrUpdate.
Report ==
  mem' = SetStatusCondition(mem, IF flux THEN "Ready" ELSE "Waiting")

\* CreateOrUpdate makes its calls, all of them or until one fails.  The panic
\* in getWorkloadFluxConfig and an error of StableMCPNamespace leave the
\* status as it is.
Calls ==
  /\ at = "calls"
  /\ at' = "patch"
  /\ \/ Report /\ UNCHANGED faults
     \/ /\ faults < MaxFaults /\ faults' = faults + 1
        /\ mem' = SetStatusCondition(mem, "Error") \/ UNCHANGED mem
  /\ UNCHANGED <<flux, cond, queued, timer, done, flips>>

\* Mutant: the status carries the time of its reconcile.
ChangedAlways == TRUE

\* What the patch of updateStatus changes: a patch without a change is sent,
\* or not, and is no event.
Changed == mem.value # cond.value \/ mem.moved

\* updateStatus, and the requeue after the poll interval or a backoff.
UpdateStatus ==
  /\ at = "patch"
  /\ at' = "rest"
  /\ cond' = IF Changed THEN [value |-> mem.value, since |-> mem.since]
                        ELSE cond
  /\ queued' = (queued \/ Changed)
  /\ timer' = TRUE
  /\ done' = IF done < Fast THEN done + 1 ELSE Fast
  /\ UNCHANGED <<flux, mem, flips, faults>>

\* The poll interval is longer than a burst of reconciles, and ends somewhere
\* in a second.
TimerFires ==
  /\ timer /\ at = "rest" /\ ~queued
  /\ timer' = FALSE
  /\ queued' = TRUE
  /\ done' \in done .. Fast
  /\ UNCHANGED <<flux, cond, mem, at, flips, faults>>

\* Flux reports something else; the controller does not watch it.
Flip ==
  /\ flips < MaxFlips /\ flips' = flips + 1
  /\ flux' = ~flux
  /\ UNCHANGED <<cond, mem, at, queued, timer, done, faults>>

\* The second changes.
Tick ==
  /\ (at = "rest" /\ ~queued) \/ done = Fast
  /\ cond' = [cond EXCEPT !.since = "past"]
  /\ mem' = [mem EXCEPT !.since = "past"]
  /\ done' = 0
  /\ UNCHANGED <<flux, at, queued, timer, flips, faults>>

Worker == Begin \/ Calls \/ UpdateStatus

Next == Worker \/ TimerFires \/ Flip \/ Tick

\* The worker takes what is queued and goes on until it is done, and the poll
\* interval ends.
FairSpec == Init /\ [][Next]_vars /\ WF_vars(Worker) /\ WF_vars(TimerFires)

-----------------------------------------------------------------------------
\* After every poll, change or failure the controller comes to rest until the
\* next poll, although a reconcile of a ready object moves
\* lastTransitionTime and so causes another one (CreateOrUpdate's first line,
\* updateStatus), provided that two reconciles fit into a second.
QuietsDown == []<>(at = "rest" /\ ~queued)

\* The condition ends up as what Flux reports, which nobody watches, and does
\* not leave it again: neither an error, nor the InProgress that a panic in
\* the middle of CreateOrUpdate leaves behind, nor the False that every poll
\* begins with stays in the object (Report, updateStatus, the requeue).
ReportsLast == <>[](cond.value = IF flux THEN "Ready" ELSE "Waiting")
=============================================================================
