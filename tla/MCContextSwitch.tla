--------------------------- MODULE MCContextSwitch ---------------------------
(***************************************************************************)
(* An instance of ContextSwitch for TLC.                                   *)
(***************************************************************************)
EXTENDS ContextSwitch

SwitchTasks == {"t1", "t2", "null"}
=============================================================================
