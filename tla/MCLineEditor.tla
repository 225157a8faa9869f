---------------------------- MODULE MCLineEditor ----------------------------
(***************************************************************************)
(* An instance of LineEditor for TLC.                                      *)
(***************************************************************************)
EXTENDS LineEditor

TwoChars == {"a", "b"}
BA == <<"b", "a">>
=============================================================================
