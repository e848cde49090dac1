-------------------------- MODULE InstanceLifecycle --------------------------
(***************************************************************************)
(* What the provider promises about the resources of one instance, without *)
(* saying how: they are taken and given back in brackets.  The claim (the  *)
(* finalizer) is the outermost one, inside it access to the clusters is    *)
(* held, and inside that the releases exist.  Once closing has begun the   *)
(* instance only shrinks, until the claim is released.                     *)
(***************************************************************************)
CONSTANTS Clusters, Objects

VARIABLES
  stage,   \* "out": not claimed; "in": claimed; "closing": being taken down
  held,    \* the clusters to which access is requested or granted
  leaving, \* the clusters access to which is being revoked
  objects  \* the objects that exist

lifecycleVars == <<stage, held, leaving, objects>>

Init == stage = "out" /\ held = {} /\ leaving = {} /\ objects = {}

Claim == /\ stage = "out"
         /\ stage' = "in"
         /\ UNCHANGED <<held, leaving, objects>>

\* Closing may begin by itself or along with the last growing step.
MayClose == stage' \in {stage, "closing"}

Close == /\ stage = "in"
         /\ stage' = "closing"
         /\ UNCHANGED <<held, leaving, objects>>

Request == /\ stage = "in" /\ leaving = {}
           /\ MayClose
           /\ \E S \in SUBSET Clusters : held' = held \cup S
           /\ UNCHANGED <<leaving, objects>>

Create(m) == /\ stage = "in" /\ held = Clusters
             /\ MayClose
             /\ objects' = objects \cup {m}
             /\ UNCHANGED <<held, leaving>>

\* What is removed is removed while both clusters can be reached for it.
Remove(m) == /\ stage = "closing" /\ held = Clusters
             /\ m \in objects
             /\ objects' = objects \ {m}
             /\ UNCHANGED <<stage, held, leaving>>

Revoke == /\ stage = "closing" /\ objects = {}
          /\ \E S \in SUBSET held : held' = held \ S /\ leaving' = leaving \cup S
          /\ UNCHANGED <<stage, objects>>

Revoked(c) == /\ c \in leaving
              /\ leaving' = leaving \ {c}
              /\ UNCHANGED <<stage, held, objects>>

Release == /\ stage = "closing" /\ objects = {} /\ held = {} /\ leaving = {}
           /\ stage' = "out"
           /\ UNCHANGED <<held, leaving, objects>>

Next == \/ Claim \/ Close \/ Request \/ Revoke \/ Release
        \/ \E m \in Objects : Create(m) \/ Remove(m)
        \/ \E c \in Clusters : Revoked(c)

Spec == Init /\ [][Next]_lifecycleVars
=============================================================================
