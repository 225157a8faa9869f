----------------------------- MODULE SerialServer -----------------------------
(***************************************************************************)
(* One channel of usr/serialserver.c once SerialInit has set it up: the    *)
(* server, its notifier, the courier between them, the secretaries that    *)
(* wait for the server on behalf of the callers of Putc and Getc, and the  *)
(* UART.  Each system call of the code is a step of its own.               *)
(*                                                                         *)
(* Characters are numbered, those of Putc in the order of the calls, those *)
(* that arrive in the order of arrival.                                    *)
(***************************************************************************)
EXTENDS SequencesExt, CyclicBuffer, Ipc

CONSTANTS
  Putters, Getters, \* the tasks that call Putc and Getc
  MaxPut,           \* bound: as many calls of Putc
  MaxArrived        \* bound: as many characters arrive

Server == "SerialServer"
Notifier == "Notifier"
Courier == "Courier"
TransmitSecretary == "TransmitSecretary"
ReceiveSecretary == "ReceiveSecretary"
Staff == {Server, Notifier, Courier, TransmitSecretary, ReceiveSecretary}
Clients == Putters \cup Getters

ASSUME SerialAssumption ==
  /\ Tasks = Staff \cup Clients
  /\ Staff \cap Clients = {} /\ Putters \cap Getters = {}
  /\ MaxPut \in Nat /\ MaxArrived \in Nat

VARIABLES
  pc,                 \* where each member of the staff is in its loop
  transmit_buffer, receive_buffer,
  awaiting_transmit, awaiting_receive,
  answer,             \* res of ReceiveSecretary, and what Getc returned last
  uart,               \* rx, tx: the data registers; txint: UARTRIS bit of TXIM
  put, arrived,       \* how many characters so far
  written             \* the last one written to the transmitter

serverVars == <<transmit_buffer, receive_buffer, awaiting_transmit, awaiting_receive>>
countVars == <<put, arrived>>
vars == <<ipcVars, pc, serverVars, answer, uart, countVars, written>>

Nothing == 0

\* Server is created at the priority of SerialInit.  The others' are in its
\* calls of Create, and those who call Putc and Getc are no better than LOW.
Priority(t) ==
  CASE t = Notifier -> 0
    [] t \in {Server, Courier} -> 1
    [] t \in {TransmitSecretary, ReceiveSecretary} -> 2
    [] OTHER -> 3

\* The kernel activates a task of the best priority there is (BestPriorityRuns).
Ready(t) == Runs(t) /\ (t = Notifier => pc[t] # "awaiting")
Active(t) == Ready(t) /\ \A u \in Tasks : Ready(u) => Priority(t) <= Priority(u)

At(t, where) == pc[t] = where /\ Active(t)
Goes(t, where) == pc' = [pc EXCEPT ![t] = where]

-----------------------------------------------------------------------------
(* The UART, with its FIFOs disabled, as they are after reset: it is not   *)
(* under src/.  A character that arrives while RXFF is set is not modelled. *)

\* UARTFR_RXFF and UARTFR_TXFE; the level of the interrupt line.
RxFull == uart.rx # Nothing
TxEmpty == uart.tx = Nothing
Interrupting == RxFull \/ uart.txint

\* *config.uart = ch, which also clears the transmitter's interrupt.
Transmit(ch) ==
  /\ uart' = [uart EXCEPT !.tx = ch, !.txint = FALSE]
  /\ written' = ch

CharacterArrives ==
  /\ arrived < MaxArrived /\ ~ RxFull
  /\ arrived' = arrived + 1
  /\ uart' = [uart EXCEPT !.rx = arrived']
  /\ UNCHANGED <<ipcVars, pc, serverVars, answer, put, written>>

CharacterSent ==
  /\ ~ TxEmpty
  /\ uart' = [uart EXCEPT !.tx = Nothing, !.txint = TRUE]
  /\ UNCHANGED <<ipcVars, pc, serverVars, answer, countVars, written>>

-----------------------------------------------------------------------------
(* Putc and Getc.                                                          *)

Putc(c) ==
  /\ Active(c) /\ put < MaxPut
  /\ put' = put + 1
  /\ Send(c, TransmitSecretary, [type |-> "SS_TRANSMIT", data |-> put'])
  /\ UNCHANGED <<pc, serverVars, answer, uart, arrived, written>>

Getc(c) ==
  /\ Active(c)
  /\ Send(c, ReceiveSecretary, [type |-> "SS_RECEIVE"])
  /\ UNCHANGED <<pc, serverVars, answer, uart, countVars, written>>

-----------------------------------------------------------------------------
(* TransmitSecretary and ReceiveSecretary: s is either.                    *)

SecretaryReceives(s) ==
  /\ At(s, "receive") /\ Receive(s) /\ Goes(s, "send")
  /\ UNCHANGED <<serverVars, answer, uart, countVars, written>>

SecretarySends(s) ==
  /\ At(s, "send") /\ Send(s, Server, Received(s)) /\ Goes(s, "reply")
  /\ UNCHANGED <<serverVars, answer, uart, countVars, written>>

SecretaryReplies(s) ==
  /\ At(s, "reply") /\ Reply(sender[s]) /\ Goes(s, "receive")
  /\ answer' = IF s = ReceiveSecretary THEN [answer EXCEPT ![sender[s]] = answer[s]]
               ELSE answer
  /\ UNCHANGED <<serverVars, uart, countVars, written>>

-----------------------------------------------------------------------------
(* Notifier and Courier.                                                   *)

NotifierReceives ==
  /\ At(Notifier, "receive") /\ Receive(Notifier) /\ Goes(Notifier, "await")
  /\ UNCHANGED <<serverVars, answer, uart, countVars, written>>

\* AwaitEvent enables the line, the interrupt masks it and wakes the notifier.
NotifierAwaits ==
  /\ At(Notifier, "await") /\ Goes(Notifier, "awaiting")
  /\ UNCHANGED <<ipcVars, serverVars, answer, uart, countVars, written>>

Interrupt ==
  /\ pc[Notifier] = "awaiting" /\ Interrupting /\ Goes(Notifier, "reply")
  /\ UNCHANGED <<ipcVars, serverVars, answer, uart, countVars, written>>

NotifierReplies ==
  /\ At(Notifier, "reply") /\ Reply(Courier) /\ Goes(Notifier, "receive")
  /\ UNCHANGED <<serverVars, answer, uart, countVars, written>>

CourierAsks ==
  /\ At(Courier, "ask") /\ Send(Courier, Notifier, NoMessage) /\ Goes(Courier, "tell")
  /\ UNCHANGED <<serverVars, answer, uart, countVars, written>>

CourierTells ==
  /\ At(Courier, "tell") /\ Goes(Courier, "ask")
  /\ Send(Courier, Server, [type |-> "SS_NOTIFIER"])
  /\ UNCHANGED <<serverVars, answer, uart, countVars, written>>

-----------------------------------------------------------------------------
(* SerialServer.                                                           *)

ServerReceives ==
  /\ At(Server, "receive") /\ Receive(Server) /\ Goes(Server, "handle")
  /\ UNCHANGED <<serverVars, answer, uart, countVars, written>>

Handles(type) == At(Server, "handle") /\ Received(Server).type = type

Mut_CourierNotReplied ==
  /\ Handles("SS_NOTIFIER") /\ Goes(Server, "receive character")
  /\ UNCHANGED <<ipcVars, serverVars, answer, uart, countVars, written>>

\* The first reply lets the courier go on before the UART has been read.
HandleNotifier ==
  /\ Handles("SS_NOTIFIER") /\ Reply(Courier) /\ Goes(Server, "receive character")
  /\ UNCHANGED <<serverVars, answer, uart, countVars, written>>

Mut_StillAwaiting ==
  /\ At(Server, "receive character") /\ Goes(Server, "transmit character")
  /\ uart' = [uart EXCEPT !.rx = Nothing]
  /\ IF RxFull /\ awaiting_receive
     THEN /\ Reply(ReceiveSecretary)
          /\ answer' = [answer EXCEPT ![ReceiveSecretary] = uart.rx]
          /\ UNCHANGED receive_buffer
     ELSE /\ receive_buffer' = IF RxFull THEN CyclicBufferPush(receive_buffer, uart.rx)
                               ELSE receive_buffer
          /\ UNCHANGED <<ipcVars, answer>>
  /\ UNCHANGED <<transmit_buffer, awaiting_transmit, awaiting_receive, countVars, written>>

\* A character is handed to the secretary that waits for one, or kept.
TakeCharacter ==
  /\ At(Server, "receive character") /\ Goes(Server, "transmit character")
  /\ uart' = [uart EXCEPT !.rx = Nothing]
  /\ IF RxFull /\ awaiting_receive
     THEN /\ awaiting_receive' = FALSE
          /\ Reply(ReceiveSecretary)
          /\ answer' = [answer EXCEPT ![ReceiveSecretary] = uart.rx]
          /\ UNCHANGED receive_buffer
     ELSE /\ receive_buffer' = IF RxFull THEN CyclicBufferPush(receive_buffer, uart.rx)
                               ELSE receive_buffer
          /\ UNCHANGED <<ipcVars, awaiting_receive, answer>>
  /\ UNCHANGED <<transmit_buffer, awaiting_transmit, countVars, written>>

\* The secretary is waiting for room if the buffer was full.  Nothing notes
\* that the character popped is now being transmitted.
TransmitNext ==
  /\ At(Server, "transmit character") /\ Goes(Server, "receive")
  /\ IF awaiting_transmit /\ TxEmpty
     THEN /\ awaiting_transmit' = FALSE
          /\ IF IsCyclicBufferEmpty(transmit_buffer)
             THEN /\ uart' = [uart EXCEPT !.txint = FALSE]
                  /\ UNCHANGED <<ipcVars, transmit_buffer, written>>
             ELSE /\ Transmit(First(transmit_buffer))
                  /\ transmit_buffer' = CyclicBufferPop(transmit_buffer)
                  /\ IF IsCyclicBufferFull(transmit_buffer) THEN Reply(TransmitSecretary)
                     ELSE UNCHANGED ipcVars
     ELSE UNCHANGED <<ipcVars, transmit_buffer, awaiting_transmit, uart, written>>
  /\ UNCHANGED <<receive_buffer, awaiting_receive, answer, countVars>>

Mut_NotPopped ==
  /\ Handles("SS_RECEIVE") /\ Goes(Server, "receive")
  /\ IF IsCyclicBufferEmpty(receive_buffer)
     THEN awaiting_receive' = TRUE /\ UNCHANGED <<ipcVars, answer>>
     ELSE /\ answer' = [answer EXCEPT ![ReceiveSecretary] = First(receive_buffer)]
          /\ Reply(ReceiveSecretary)
          /\ UNCHANGED awaiting_receive
  /\ UNCHANGED <<receive_buffer, transmit_buffer, awaiting_transmit, uart, countVars, written>>

HandleReceive ==
  /\ Handles("SS_RECEIVE") /\ Goes(Server, "receive")
  /\ IF IsCyclicBufferEmpty(receive_buffer)
     THEN /\ awaiting_receive' = TRUE
          /\ UNCHANGED <<ipcVars, receive_buffer, answer>>
     ELSE /\ receive_buffer' = CyclicBufferPop(receive_buffer)
          /\ answer' = [answer EXCEPT ![ReceiveSecretary] = First(receive_buffer)]
          /\ Reply(ReceiveSecretary)
          /\ UNCHANGED awaiting_receive
  /\ UNCHANGED <<transmit_buffer, awaiting_transmit, uart, countVars, written>>

\* The reply is kept back when the buffer is now full.
HandleTransmit ==
  /\ Handles("SS_TRANSMIT") /\ Goes(Server, "start transmitter")
  /\ transmit_buffer' = CyclicBufferPush(transmit_buffer, Received(Server).data)
  /\ IF IsCyclicBufferFull(transmit_buffer') THEN UNCHANGED ipcVars
     ELSE Reply(TransmitSecretary)
  /\ UNCHANGED <<receive_buffer, awaiting_receive, awaiting_transmit, answer, uart, countVars, written>>

Mut_NotTaken ==
  /\ At(Server, "start transmitter") /\ Goes(Server, "receive")
  /\ awaiting_transmit' = TRUE
  /\ IF awaiting_transmit THEN UNCHANGED <<uart, written>>
     ELSE Transmit(First(transmit_buffer))
  /\ UNCHANGED <<ipcVars, transmit_buffer, receive_buffer, awaiting_receive, answer, countVars>>

\* The data register is written whether or not it is empty.
StartTransmitter ==
  /\ At(Server, "start transmitter") /\ Goes(Server, "receive")
  /\ awaiting_transmit' = TRUE
  /\ IF awaiting_transmit THEN UNCHANGED <<transmit_buffer, uart, written>>
     ELSE /\ Transmit(First(transmit_buffer))
          /\ transmit_buffer' = CyclicBufferPop(transmit_buffer)
  /\ UNCHANGED <<ipcVars, receive_buffer, awaiting_receive, answer, countVars>>

-----------------------------------------------------------------------------
Init ==
  /\ IpcInit(Tasks)
  /\ pc = [t \in Staff |-> IF t = Courier THEN "ask" ELSE "receive"]
  /\ transmit_buffer = EmptyBuffer(Nothing) /\ receive_buffer = EmptyBuffer(Nothing)
  /\ awaiting_transmit = FALSE /\ awaiting_receive = FALSE
  /\ answer = [t \in Getters \cup {ReceiveSecretary} |-> Nothing]
  /\ uart = [rx |-> Nothing, tx |-> Nothing, txint |-> FALSE]
  /\ put = 0 /\ arrived = 0 /\ written = 0

SecretaryStep(s) == SecretaryReceives(s) \/ SecretarySends(s) \/ SecretaryReplies(s)
NotifierStep == NotifierReceives \/ NotifierAwaits \/ NotifierReplies
CourierStep == CourierAsks \/ CourierTells
ServerStep ==
  \/ ServerReceives \/ HandleNotifier \/ TakeCharacter \/ TransmitNext
  \/ HandleReceive \/ HandleTransmit \/ StartTransmitter
UartStep == CharacterArrives \/ CharacterSent

Next ==
  \/ \E c \in Putters : Putc(c)
  \/ \E c \in Getters : Getc(c)
  \/ \E s \in {TransmitSecretary, ReceiveSecretary} : SecretaryStep(s)
  \/ NotifierStep \/ Interrupt \/ CourierStep \/ ServerStep \/ UartStep

Spec == Init /\ [][Next]_vars

\* An active task goes on, the two of the same priority in turn; the
\* transmitter transmits and the interrupt comes.  Nobody need type or call,
\* and nothing says that the secretaries become active.
FairSpec ==
  /\ Spec
  /\ WF_vars(SecretaryStep(TransmitSecretary)) /\ WF_vars(SecretaryStep(ReceiveSecretary))
  /\ WF_vars(NotifierStep) /\ WF_vars(Interrupt) /\ WF_vars(CourierStep)
  /\ WF_vars(ServerStep) /\ WF_vars(CharacterSent)
-----------------------------------------------------------------------------
BufferTypes == [data : [Indices -> Int], start : Indices, num_els : 0 .. SIZE]
SerialTypeOK ==
  /\ pc \in [Staff -> {"receive", "send", "reply", "await", "awaiting", "ask", "tell", "handle",
                       "receive character", "transmit character", "start transmitter"}]
  /\ transmit_buffer \in BufferTypes /\ receive_buffer \in BufferTypes
  /\ awaiting_transmit \in BOOLEAN /\ awaiting_receive \in BOOLEAN
  /\ answer \in [Getters \cup {ReceiveSecretary} -> 0 .. MaxArrived]
  /\ uart \in [rx : 0 .. MaxArrived, tx : 0 .. MaxPut, txint : BOOLEAN]
  /\ put \in 0 .. MaxPut /\ arrived \in 0 .. MaxArrived /\ written \in 0 .. MaxPut

\* The characters of Putc that the server has accepted.
Queued == 1 .. written + transmit_buffer.num_els

\* include/io.h on Putc: "On return the only guarantee is that the character
\* has been queued".  Characters are transmitted in the order of the calls:
\* those in the buffer come next after the one written last, and each of the
\* others is still in the hands of a caller that waits.
TransmittedInOrder ==
  /\ Contents(transmit_buffer) =
       [i \in 1 .. transmit_buffer.num_els |-> written + i]
  /\ \A k \in 1 .. put : k \in Queued \/ \E c \in Putters :
       Blocked(c) /\ sent[c] = [type |-> "SS_TRANSMIT", data |-> k]

\* include/io.h on Getc: the "first unreturned character".  What is kept came
\* in the order of the buffer and after everything handed over, nobody is given
\* a character that came before one already returned, and a character read from
\* the UART reaches the secretary or the buffer unless the buffer is full.
ReceivedInOrder ==
  /\ [](\A i \in 1 .. receive_buffer.num_els : \A earlier \in
          {answer[ReceiveSecretary]} \cup {Contents(receive_buffer)[j] : j \in 1 .. i - 1} :
            Contents(receive_buffer)[i] > earlier)
  /\ [][/\ \A c, d \in Getters : answer'[c] # answer[c] => answer'[c] > answer[d]
        /\ RxFull /\ uart'.rx # uart.rx =>
             \/ answer'[ReceiveSecretary] = uart.rx /\ Blocked(ReceiveSecretary)
             \/ uart.rx \in {Contents(receive_buffer')[i] : i \in 1 .. receive_buffer'.num_els}
             \/ IsCyclicBufferFull(receive_buffer)]_vars

\* The server remembers that the receive secretary waits exactly while it has
\* left it waiting, and then has nothing for it.
ReceiverRemembered ==
  /\ awaiting_receive => IsCyclicBufferEmpty(receive_buffer)
  /\ awaiting_receive <=>
       /\ phase[ReceiveSecretary] = "awaiting reply"
       /\ ~ (pc[Server] = "handle" /\ Runs(Server) /\ sender[Server] = ReceiveSecretary)

\* The channel's books: what is buffered, in whose hands the rest is, and who
\* is being kept waiting.
ChannelConsistent == SerialTypeOK /\ TransmittedInOrder /\ ReceiverRemembered

\* The interrupt that TransmitNext does not acknowledge: a character popped
\* from the buffer has been sent and awaiting_transmit is FALSE.  Notifier,
\* courier and server then go round for ever, and no secretary becomes active.
Unacknowledged == uart.txint /\ ~ awaiting_transmit

\* The UART is always read in time, however the interrupts of receiver and
\* transmitter, the courier and the secretaries overlap, and a caller of Getc
\* returns once there is a character for it, unless the transmitter's interrupt
\* goes unacknowledged.
GetcReturns ==
  /\ RxFull ~> ~ RxFull
  /\ (\E c \in Getters : Blocked(c)) /\ ~ IsCyclicBufferEmpty(receive_buffer)
       ~> (\A c \in Getters : Runs(c)) \/ IsCyclicBufferEmpty(receive_buffer) \/ Unacknowledged

\* include/io.h on Putc: it "queues the given character for transmission"; a
\* caller whose character has been queued returns.
PutcReturns ==
  \A c \in Putters : (Blocked(c) /\ sent[c].data \in Queued) ~> Runs(c)
=============================================================================
