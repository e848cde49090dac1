------------------------------ MODULE Startup ------------------------------
(***************************************************************************)
(* The two commands of cmd/service-provider-kro/main.go: the init job,     *)
(* which installs the CRDs and registers the Kro type at the service       *)
(* provider, and run, the controller.  Both are containers: one that exits *)
(* with an error is started again, the job ends when it exits with 0.      *)
(* Nothing in this repository orders the two, so they run side by side.    *)
(*                                                                         *)
(* Both go on with a nil cluster when access to the onboarding cluster     *)
(* cannot be had.  In run the next line dereferences it and the process    *)
(* panics; in init it is handed to the CRD library, which may panic or     *)
(* report an error.  The two controllers of run start independently: each  *)
(* serves as soon as the informer of its own type is synchronised, and the *)
(* process ends if one of them waits for too long.                         *)
(***************************************************************************)
EXTENDS Naturals

CONSTANT MaxFaults  \* bound on failed calls and stops

ASSUME FaultAssumption == MaxFaults \in Nat

\* The clusters that get a CRD, Kro on onboarding and ProviderConfig on
\* platform, and so the types that the two controllers wait for.
Targets == {"onboarding", "platform"}

VARIABLES
  job,        \* what the init job does next: start, access, crds, register,
              \* or succeeded
  jobCluster, \* its onboardingCluster: "ok", or "nil"
  run,        \* what run does next: start, access, manager, or started
  runCluster, \* its onboardingCluster
  serving,    \* the controllers of run that serve, by the cluster they watch
  crds,       \* the clusters whose CRD is installed
  gvk,        \* the Kro type is registered at the service provider
  faults      \* what went wrong so far

vars == <<job, jobCluster, run, runCluster, serving, crds, gvk, faults>>
jobVars == <<job, jobCluster, crds, gvk>>
runVars == <<run, runCluster, serving>>

Init ==
  /\ job = "start" /\ jobCluster = "nil"
  /\ run = "start" /\ runCluster = "nil" /\ serving = {}
  /\ crds = {}
  /\ gvk = FALSE
  /\ faults = 0

Works == UNCHANGED faults
Fails == faults < MaxFaults /\ faults' = faults + 1

-----------------------------------------------------------------------------
(***************************************************************************)
(* init.                                                                   *)
(***************************************************************************)
\* Both commands: initializePlatformCluster, or exit 1.
StartJob ==
  /\ job = "start"
  /\ \/ Works /\ job' = "access"
     \/ Fails /\ UNCHANGED job
  /\ jobCluster' = "nil"
  /\ UNCHANGED <<crds, gvk, runVars>>

\* CreateAndWaitForCluster; an error is only logged.
JobAccess ==
  /\ job = "access"
  /\ job' = "crds"
  /\ \/ Works /\ jobCluster' = "ok"
     \/ Fails /\ UNCHANGED jobCluster
  /\ UNCHANGED <<crds, gvk, runVars>>

\* CreateOrUpdateCRDs; an error is only logged.
InstallCRDs ==
  /\ job = "crds"
  /\ \/ /\ jobCluster = "ok" /\ Works
        /\ crds' = Targets /\ job' = "register"
     \/ /\ jobCluster = "ok" /\ Fails
        /\ \E S \in SUBSET Targets : crds' = crds \cup S
        /\ job' = "register"
     \/ /\ jobCluster = "nil" /\ Works
        /\ \E S \in SUBSET {"platform"} : crds' = crds \cup S
        /\ job' \in {"register", "start"}
  /\ UNCHANGED <<jobCluster, gvk, runVars>>

\* RegisterGVKsAtServiceProvider; an error is logged, and main returns.
Register ==
  /\ job = "register"
  /\ \/ Works /\ gvk' = TRUE
     \/ Fails /\ UNCHANGED gvk
  /\ job' = "succeeded"
  /\ UNCHANGED <<jobCluster, crds, runVars>>

-----------------------------------------------------------------------------
(***************************************************************************)
(* run.                                                                    *)
(***************************************************************************)
StartRun ==
  /\ run = "start"
  /\ \/ Works /\ run' = "access"
     \/ Fails /\ UNCHANGED run
  /\ runCluster' = "nil"
  /\ UNCHANGED <<serving, jobVars>>

RunAccess ==
  /\ run = "access"
  /\ run' = "manager"
  /\ \/ Works /\ runCluster' = "ok"
     \/ Fails /\ UNCHANGED runCluster
  /\ UNCHANGED <<serving, jobVars>>

\* NewManager and the setup of the two controllers: any error is exit 1, and
\* a nil cluster a panic.
SetupManager ==
  /\ run = "manager"
  /\ \/ runCluster = "ok" /\ Works /\ run' = "started"
     \/ runCluster = "nil" /\ Works /\ run' = "start"
     \/ Fails /\ run' = "start"
  /\ UNCHANGED <<runCluster, serving, jobVars>>

\* mgr.Start: a controller serves once its informer is synchronised, which
\* takes its type and nothing else.
StartController(t) ==
  /\ run = "started" /\ t \in crds \ serving
  /\ serving' = serving \cup {t}
  /\ UNCHANGED <<run, runCluster, faults, jobVars>>

\* The process ends, and with it both controllers.
Exit ==
  /\ run' = "start"
  /\ serving' = {}
  /\ UNCHANGED <<runCluster, jobVars>>

\* Mutant: the manager is started on the side, and its error is only logged.
StartManagerAside ==
  /\ run = "started" /\ serving # Targets
  /\ \/ crds # Targets /\ Works
     \/ Fails
  /\ run' = "aside"
  /\ UNCHANGED <<runCluster, serving, jobVars>>

\* mgr.Start returns an error, and main exits with 1, when a controller has
\* waited for its informer until the timeout: because its type is missing, or
\* because the calls for it failed.
StartManager ==
  /\ run = "started" /\ serving # Targets
  /\ \/ crds # Targets /\ Works
     \/ Fails
  /\ Exit

StopRun ==
  /\ run = "started"
  /\ Fails
  /\ Exit

-----------------------------------------------------------------------------
JobNext == StartJob \/ JobAccess \/ InstallCRDs \/ Register
RunNext == StartRun \/ RunAccess \/ SetupManager \/ StartManager
             \/ \E t \in Targets : StartController(t)
Next == JobNext \/ RunNext \/ StopRun

\* Containers are started again and processes go on.
FairSpec == Init /\ [][Next]_vars /\ WF_vars(JobNext) /\ WF_vars(RunNext)

-----------------------------------------------------------------------------
\* The job has ended, and without the CRDs: a failed CreateOrUpdateCRDs, with
\* or without access, is only logged, and nobody tries again.
InitLost == job = "succeeded" /\ crds # Targets

\* Both controllers are up for good in the end, although each command goes on
\* after a failed access request, run may come first, and the controller of
\* Kro may serve while that of ProviderConfig waits and ends the process: an
\* exit with an error is a retry.  The one way they are not is a job that lost
\* the CRDs.
Serves == <>[](serving = Targets \/ InitLost)
=============================================================================
