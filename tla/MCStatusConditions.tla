------------------------- MODULE MCStatusConditions -------------------------
(***************************************************************************)
(* StatusConditions for TLC; its constants are numbers.                    *)
(***************************************************************************)
EXTENDS StatusConditions
=============================================================================
