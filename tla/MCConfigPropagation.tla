------------------------ MODULE MCConfigPropagation ------------------------
(***************************************************************************)
(* Instances of ConfigPropagation for TLC: two objects, the controller as  *)
(* it is deployed, and one that depends on events alone.                   *)
(***************************************************************************)
EXTENDS ConfigPropagation

CONSTANTS o1, o2

\* KroReconciler is no SecretWatcher, and the poll interval is positive.
Deployed == [polls |-> TRUE, watched |-> FALSE]
EventsOnly == [polls |-> FALSE, watched |-> TRUE]

MCSettings == {Deployed, EventsOnly}
=============================================================================
