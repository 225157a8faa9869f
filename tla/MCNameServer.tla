----------------------------- MODULE MCNameServer -----------------------------
(***************************************************************************)
(* An instance of NameServer for TLC: a table of four nodes searched two   *)
(* at a time.  Names 1 and 5 collide, the four others fill the table, and  *)
(* the search for 3 runs past its end.                                     *)
(***************************************************************************)
EXTENDS NameServer

CONSTANTS c1, c2
TwoClients == {c1, c2}
NameServerTasks == TwoClients \cup {"name-server"}
=============================================================================
