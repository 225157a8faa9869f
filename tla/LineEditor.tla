----------------------------- MODULE LineEditor -----------------------------
(***************************************************************************)
(* The shell: Shell, Repl and Handle of usr/shell.c with memmove and the   *)
(* terminal it writes to.  A key is read and dealt with in one step: the   *)
(* shell alone uses the channel meanwhile.  What the commands do and the   *)
(* colours of the prompt are left out, and Chars are printable.            *)
(***************************************************************************)
EXTENDS SequencesExt

CONSTANTS
  Chars,
  SIZE,        \* config.command_buffer_size
  ExitCommand  \* "exit"

NUL == "nul"
Blank == "blank"

ASSUME EditorAssumption ==
  /\ SIZE \in Nat \ {0}
  /\ NUL \notin Chars /\ Blank \notin Chars
  /\ ExitCommand \in Seq(Chars) /\ ExitCommand # <<>>

VARIABLES
  mode,        \* "starting", "typing", "escape", "direction" or "exited"
  buffer, buffer_pos, length,
  terminal,    \* row: the cells of the cursor's row after the prompt (before
               \* it, the negative ones); col: the cursor's; hidden: is it
  submitted,   \* observed: the last line given to Handle
  cleared      \* observed: the screen has been cleared with a line half typed

lineVars == <<buffer, buffer_pos, length>>
vars == <<mode, lineVars, terminal, submitted, cleared>>

-----------------------------------------------------------------------------
(* lib/string.c.                                                           *)

\* memmove, one character after the other: downwards if the destination is
\* within the source and above it.
Mut_Upwards(b, dest, src, n) ==
  FoldLeft(LAMBDA c, i : [c EXCEPT ![dest + i - 1] = c[src + i - 1]], b, [i \in 1 .. n |-> i])
memmove(b, dest, src, n) ==
  FoldLeft(LAMBDA c, i : [c EXCEPT ![dest + i - 1] = c[src + i - 1]], b,
           IF src < dest /\ dest < src + n THEN [i \in 1 .. n |-> n + 1 - i]
                                           ELSE [i \in 1 .. n |-> i])

\* The string that starts at buffer + from.  After the end of the buffer
\* nothing is known to stop it.
StringAt(from) ==
  LET nuls == {i \in from .. SIZE - 1 : buffer[i] = NUL}
      to == IF nuls = {} THEN SIZE - 1 ELSE (CHOOSE i \in nuls : \A j \in nuls : i <= j) - 1
  IN  [i \in 1 .. to - from + 1 |-> buffer[from + i - 1]]

-----------------------------------------------------------------------------
(* The terminal.                                                           *)

Columns == -SIZE .. 2 * SIZE
EmptyRow == [c \in Columns |-> Blank]

Write(term, text) ==
  [term EXCEPT !.row = [c \in Columns |-> IF c - term.col + 1 \in DOMAIN text
                                          THEN text[c - term.col + 1] ELSE @[c]],
               !.col = @ + Len(text)]
MoveLeft(term, n) == [term EXCEPT !.col = @ - n]

\* A prompt on a row of its own.
Prompt == terminal' = [terminal EXCEPT !.row = EmptyRow, !.col = 0]

-----------------------------------------------------------------------------
(* Repl.                                                                   *)

\* What follows the switch.
Mut_NotTerminated(b, pos, len, term) ==
  /\ buffer' = b
  /\ buffer_pos' = pos /\ length' = len
  /\ terminal' = [term EXCEPT !.hidden = (pos = SIZE - 1)]
  /\ UNCHANGED <<submitted, cleared>>
AfterKey(b, pos, len, term) ==
  /\ buffer' = [b EXCEPT ![len] = NUL]
  /\ buffer_pos' = pos /\ length' = len
  /\ terminal' = [term EXCEPT !.hidden = (pos = SIZE - 1)]
  /\ UNCHANGED <<submitted, cleared>>

\* The shell exits if the answer is too large, and else only prints.
Handle(command) == submitted' = command /\ mode' \in {"typing", "exited"}

Return ==
  /\ mode = "typing"
  /\ buffer_pos' = 0 /\ length' = 0 /\ cleared' = FALSE
  /\ Prompt
  /\ \/ /\ length = 0 /\ UNCHANGED <<mode, submitted>>
     \/ /\ length # 0 /\ StringAt(0) = ExitCommand
        /\ mode' = "exited" /\ UNCHANGED submitted
     \/ /\ length # 0 /\ StringAt(0) # ExitCommand
        /\ Handle(StringAt(0))
  /\ UNCHANGED buffer

\* The line stays in the buffer and is not written again.
FormFeed ==
  /\ mode = "typing" /\ Prompt
  /\ cleared' = (cleared \/ length # 0)
  /\ UNCHANGED <<mode, lineVars, submitted>>

Escape ==
  /\ \/ mode = "typing" /\ mode' = "escape"
     \/ mode = "escape" /\ mode' = "direction"
  /\ UNCHANGED <<lineVars, terminal, submitted, cleared>>

Arrow ==
  /\ mode = "direction" /\ mode' = "typing"
  /\ \/ /\ buffer_pos < length
        /\ AfterKey(buffer, buffer_pos + 1, length, MoveLeft(terminal, -1))
     \/ /\ buffer_pos > 0
        /\ AfterKey(buffer, buffer_pos - 1, length, MoveLeft(terminal, 1))
     \/ AfterKey(buffer, buffer_pos, length, terminal)

Backspace ==
  /\ mode = "typing"
  /\ IF buffer_pos > 0
     THEN AfterKey(memmove(buffer, buffer_pos - 1, buffer_pos, length - buffer_pos),
                   buffer_pos - 1, length - 1,
                   MoveLeft(Write(MoveLeft(terminal, 1), Append(StringAt(buffer_pos), Blank)),
                            length - buffer_pos + 1))
     ELSE AfterKey(buffer, buffer_pos, length, terminal)
  /\ UNCHANGED mode

PutChar(ch) ==
  LET tail == length - buffer_pos
      echoed == Write(terminal, <<ch>>)
  IN  /\ mode = "typing"
      /\ IF length = SIZE - 1 THEN AfterKey(buffer, buffer_pos, length, terminal)
         ELSE IF tail > 0
         THEN AfterKey([memmove(buffer, buffer_pos + 1, buffer_pos, tail)
                          EXCEPT ![buffer_pos] = ch],
                       buffer_pos + 1, length + 1,
                       MoveLeft(Write(echoed, StringAt(buffer_pos)), tail))
         ELSE AfterKey([buffer EXCEPT ![buffer_pos] = ch], buffer_pos + 1, length + 1, echoed)
      /\ UNCHANGED mode

\* A task that has no right to configure it makes the shell exit.
Start ==
  /\ mode = "starting" /\ mode' \in {"typing", "exited"}
  /\ Prompt
  /\ UNCHANGED <<lineVars, submitted, cleared>>

\* The buffer is on the stack, and holds what was there.
Init ==
  /\ mode = "starting"
  /\ buffer \in [0 .. SIZE - 1 -> Chars \cup {NUL}] /\ buffer_pos = 0 /\ length = 0
  /\ terminal = [row |-> EmptyRow, col |-> 0, hidden |-> FALSE]
  /\ submitted = <<>> /\ cleared = FALSE

Next == \/ Start \/ Return \/ FormFeed \/ Escape \/ Arrow \/ Backspace
        \/ \E ch \in Chars : PutChar(ch)

Spec == Init /\ [][Next]_vars
-----------------------------------------------------------------------------
TypeOK ==
  /\ mode \in {"starting", "typing", "escape", "direction", "exited"}
  /\ buffer \in [0 .. SIZE - 1 -> Chars \cup {NUL}]
  /\ length \in 0 .. SIZE - 1 /\ buffer_pos \in 0 .. length
  /\ terminal.col \in Columns
  /\ submitted \in Seq(Chars) /\ cleared \in BOOLEAN

Line == [i \in 1 .. length |-> buffer[i - 1]]

Text == INSTANCE TextLine WITH
  Capacity <- SIZE - 1, line <- Line, cursor <- buffer_pos

\* The buffer is a line of text that is edited where the cursor stands, and
\* what is given to Handle, read as a string up to its NUL, is the whole line
\* and nothing else.  Handle sends all bytes of the buffer (shell.c:34): those
\* after the NUL may be of the line before or whatever was on the stack.
ImplementsTextLine == Text!Spec

\* The row after the prompt shows the line, and nothing else, with the cursor
\* where the next character will go, hidden just at the end of a full line:
\* what is written for each key keeps step with what memmove does to the buffer.  After
\* a form feed in mid-line it does not, up to the next return.
ScreenShowsLine ==
  /\ TypeOK
  /\ ~ cleared =>
       /\ terminal.col = buffer_pos
       /\ terminal.row = [c \in Columns |-> IF c + 1 \in DOMAIN Line THEN Line[c + 1] ELSE Blank]
       /\ length # 0 => terminal.hidden = (buffer_pos = SIZE - 1)
=============================================================================
