------------------------------ MODULE TextLine ------------------------------
(***************************************************************************)
(* A line of text with a cursor, of at most Capacity characters, that is   *)
(* edited and then submitted.                                              *)
(***************************************************************************)
EXTENDS SequencesExt

CONSTANTS Chars, Capacity

VARIABLES line, cursor, submitted

Init == line = <<>> /\ cursor = 0 /\ submitted = <<>>

Type(ch) ==
  /\ Len(line) < Capacity
  /\ line' = InsertAt(line, cursor + 1, ch)
  /\ cursor' = cursor + 1
  /\ UNCHANGED submitted

Delete ==
  /\ cursor > 0
  /\ line' = RemoveAt(line, cursor)
  /\ cursor' = cursor - 1
  /\ UNCHANGED submitted

Move ==
  /\ cursor' \in {cursor - 1, cursor + 1} \cap (0 .. Len(line))
  /\ UNCHANGED <<line, submitted>>

NewLine == line # <<>> /\ line' = <<>> /\ cursor' = 0
Submit == NewLine /\ submitted' = line
Discard == NewLine /\ UNCHANGED submitted

Next == Delete \/ Move \/ Submit \/ Discard \/ \E ch \in Chars : Type(ch)

Spec == Init /\ [][Next]_<<line, cursor, submitted>>
=============================================================================
