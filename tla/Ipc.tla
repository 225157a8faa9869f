--------------------------------- MODULE Ipc ---------------------------------
(***************************************************************************)
(* Send, Receive and Reply as user tasks see them: the rendezvous that     *)
(* Kernel implements, with what is sent and by whom.  The servers of usr/  *)
(* are written with these three operators.  Which runnable task goes on    *)
(* first is left open: the scheduler's priorities only remove behaviours.  *)
(***************************************************************************)
EXTENDS Integers, Sequences

CONSTANT Tasks

VARIABLES
  phase, inbox,  \* as in Rendezvous
  sent,          \* the message of the Send that each task is in
  sender         \* the tid that each task's latest Receive has stored

R == INSTANCE Rendezvous

ipcVars == <<phase, inbox, sent, sender>>

NoMessage == [type |-> "none"]
Nobody == "nobody"

\* Is t neither blocked nor gone?
Runs(t) == phase[t] = "running"
Blocked(t) == phase[t] \in {"sending", "awaiting reply"}

\* The caller goes on once it is replied to.
Send(s, r, m) ==
  /\ R!SendToWaiting(s, r) \/ R!SendToBusy(s, r)
  /\ sent' = [sent EXCEPT ![s] = m]
  /\ sender' = IF phase[r] = "receiving" THEN [sender EXCEPT ![r] = s] ELSE sender

\* The caller goes on, at once or later, with a sender and its message.
Receive(r) ==
  /\ UNCHANGED sent
  /\ \/ R!ReceiveNothing(r) /\ UNCHANGED sender
     \/ R!ReceiveFirst(r) /\ sender' = [sender EXCEPT ![r] = Head(inbox[r])]

Received(r) == sent[sender[r]]

\* To a task that does not wait for it a reply is refused; callers ignore that.
Reply(s) ==
  /\ IF phase[s] = "awaiting reply"
     THEN R!ReplyTo(s) /\ sent' = [sent EXCEPT ![s] = NoMessage]
     ELSE UNCHANGED <<phase, inbox, sent>>
  /\ UNCHANGED sender

Started(t) == R!Start(t) /\ UNCHANGED <<sent, sender>>
Destroyed(t) == R!Stop(t) /\ UNCHANGED <<sent, sender>>

IpcInit(running) ==
  /\ phase = [t \in Tasks |-> IF t \in running THEN "running" ELSE "none"]
  /\ inbox = [t \in Tasks |-> <<>>]
  /\ sent = [t \in Tasks |-> NoMessage]
  /\ sender = [t \in Tasks |-> Nobody]
=============================================================================
