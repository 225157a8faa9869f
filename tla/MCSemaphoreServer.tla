-------------------------- MODULE MCSemaphoreServer --------------------------
(***************************************************************************)
(* An instance of SemaphoreServer for TLC.                                 *)
(***************************************************************************)
EXTENDS SemaphoreServer

CONSTANTS c1, c2, c3, c4
FourClients == {c1, c2, c3, c4}
SemaphoreTasks == FourClients \cup {"semaphore-server"}
=============================================================================
