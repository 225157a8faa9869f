-------------------------------- MODULE MCRps --------------------------------
(***************************************************************************)
(* An instance of Rps for TLC.                                             *)
(***************************************************************************)
EXTENDS Rps

CONSTANTS p1, p2, p3
ThreePlayers == {p1, p2, p3}
RpsTasks == ThreePlayers \cup {"rps-server"}
=============================================================================
