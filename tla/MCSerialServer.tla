---------------------------- MODULE MCSerialServer ----------------------------
(***************************************************************************)
(* An instance of SerialServer for TLC.                                    *)
(***************************************************************************)
EXTENDS SerialServer

CONSTANTS p1, p2, g1
TwoPutters == {p1, p2}
OneGetter == {g1}
SerialTasks == TwoPutters \cup OneGetter \cup
  {"SerialServer", "Notifier", "Courier", "TransmitSecretary", "ReceiveSecretary"}
=============================================================================
