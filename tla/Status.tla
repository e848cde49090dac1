------------------------------- MODULE Status -------------------------------
(***************************************************************************)
(* The Kro API object as the controller holds it in memory, and the        *)
(* functions of pkg/spruntime/status.go that write its status.             *)
(*                                                                         *)
(* A generation is abstracted to the spec version it carries, which is the *)
(* only field of the spec.  Of the Ready condition the status and the      *)
(* reason are kept, messages are not.  The condition's observedGeneration  *)
(* always equals the one of the status and is kept once, as obs.           *)
(***************************************************************************)

CONSTANTS
  Versions,   \* the tenant facing versions of kro (Kro.Spec.Version)
  NoVersion,  \* "no generation": a status that was never written
  NoKro       \* "no such object" on the onboarding cluster

ASSUME NoVersionAssumption == NoVersion \notin Versions

\* The Flux objects the provider owns in the tenant namespace.
Managed == {"oci", "hr", "crds"}

Phases == {"", "Progressing", "Ready", "Terminating"}

Reasons == {"", "Reconciling", "ReconcileError", "ReconcileSuccess",
            "Terminating"}

ResourcePhases == {"none", "Progressing", "Ready", "Terminating"}

\* Status.Resources: nil, or one entry for each managed object.
NoResources == [m \in Managed |-> "none"]

\* managedResources, as Delete reports them.
TerminatingResources == [m \in Managed |-> "Terminating"]

Condition == [status : {"none", "False", "True"}, reason : Reasons]

KroStatus == [phase     : Phases,
              cond      : Condition,
              obs       : Versions \cup {NoVersion},
              resources : [Managed -> ResourcePhases]]

Operations == {"none", "ignore", "reconcile"}

\* The parts of a Kro object the controller reads or writes.  finalizer is
\* the one of Kro.Finalizer(), op the value of the operation annotation.
Kro == [version   : Versions,
        deleting  : BOOLEAN,
        finalizer : BOOLEAN,
        op        : Operations,
        status    : KroStatus]

ASSUME NoKroAssumption == NoKro \notin Kro

ZeroStatus == [phase     |-> "",
               cond      |-> [status |-> "none", reason |-> ""],
               obs       |-> NoVersion,
               resources |-> NoResources]

NewKro(v) == [version   |-> v,
              deleting  |-> FALSE,
              finalizer |-> FALSE,
              op        |-> "none",
              status    |-> ZeroStatus]

-----------------------------------------------------------------------------
\* SetStatusCondition, SetObservedGeneration and SetPhase on an object.
SetStatus(o, phase, ready, reason) ==
  [o EXCEPT !.status = [phase     |-> phase,
                        cond      |-> [status |-> ready, reason |-> reason],
                        obs       |-> o.version,
                        resources |-> @.resources]]

\* Mutant: the reason is passed for the phase.
StatusProgressingSwapped(o, reason) ==
  SetStatus(o, reason, "False", "Reconciling")

StatusProgressing(o, reason) == SetStatus(o, "Progressing", "False", reason)

StatusReady(o) == SetStatus(o, "Ready", "True", "ReconcileSuccess")

StatusTerminating(o) == SetStatus(o, "Terminating", "False", "Terminating")

StatusTerminatingWithReason(o, reason) ==
  SetStatus(o, "Terminating", "False", reason)

StatusTerminatingMessage(o) == StatusTerminatingWithReason(o, "Terminating")

SetResources(o, resources) ==
  [o EXCEPT !.status = [@ EXCEPT !.resources = resources]]

(***************************************************************************)
(* What the API server makes of a merge patch computed from old to new     *)
(* (client.MergeFrom): only the fields that differ are in the patch; the   *)
(* conditions and the resources are lists, replaced as a whole.            *)
(***************************************************************************)
MergePatch(cur, old, new) ==
  [phase     |-> IF new.phase = old.phase THEN cur.phase ELSE new.phase,
   cond      |-> IF new.cond = old.cond THEN cur.cond ELSE new.cond,
   obs       |-> IF new.obs = old.obs THEN cur.obs ELSE new.obs,
   resources |-> IF new.resources = old.resources THEN cur.resources
                                                  ELSE new.resources]

\* The schema of the CRD requires phase and observedGeneration in a status.
ValidStatus(s) == s.phase # "" /\ s.obs # NoVersion
=============================================================================
