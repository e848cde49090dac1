----------------------------- MODULE MCStartup -----------------------------
(***************************************************************************)
(* Startup for TLC: every call may fail.                                   *)
(***************************************************************************)
EXTENDS Startup
=============================================================================
