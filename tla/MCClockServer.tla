---------------------------- MODULE MCClockServer ----------------------------
(***************************************************************************)
(* An instance of ClockServer for TLC.                                     *)
(***************************************************************************)
EXTENDS ClockServer

CONSTANTS c1, c2
TwoClients == {c1, c2}
ClockTasks == TwoClients \cup {"clock-server", "TimerNotifier"}
=============================================================================
