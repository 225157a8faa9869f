----------------------------- MODULE Rendezvous -----------------------------
(***************************************************************************)
(* What Send, Receive and Reply promise (include/communication.h), without *)
(* a scheduler, descriptors or message nodes: a sender waits until it has  *)
(* been received, in the order of sending, and then until it is replied    *)
(* to; a receiver waits while nothing has been sent to it.  Kernel is      *)
(* shown to implement this.                                                *)
(***************************************************************************)
EXTENDS Integers, Sequences

CONSTANT Tasks

VARIABLES
  phase,  \* of each task
  inbox   \* senders to each task that it has not received yet

Phases == {"none", "running", "receiving", "sending", "awaiting reply"}

Init ==
  /\ phase \in [Tasks -> {"none", "running"}]
  /\ inbox = [t \in Tasks |-> <<>>]

\* The receiver waits: message and rendezvous in one step.
SendToWaiting(s, r) ==
  /\ phase[s] = "running" /\ phase[r] = "receiving"
  /\ phase' = [phase EXCEPT ![s] = "awaiting reply", ![r] = "running"]
  /\ UNCHANGED inbox

SendToBusy(s, r) ==
  /\ phase[s] = "running" /\ phase[r] \notin {"receiving", "none"}
  /\ phase' = [phase EXCEPT ![s] = "sending"]
  /\ inbox' = [inbox EXCEPT ![r] = Append(@, s)]

ReceiveNothing(r) ==
  /\ phase[r] = "running" /\ inbox[r] = <<>>
  /\ phase' = [phase EXCEPT ![r] = "receiving"]
  /\ UNCHANGED inbox

ReceiveFirst(r) ==
  /\ phase[r] = "running" /\ inbox[r] # <<>>
  /\ phase' = [phase EXCEPT ![Head(inbox[r])] = "awaiting reply"]
  /\ inbox' = [inbox EXCEPT ![r] = Tail(@)]

\* By any other task, the receiver or not.
ReplyTo(s) ==
  /\ phase[s] = "awaiting reply"
  /\ phase' = [phase EXCEPT ![s] = "running"]
  /\ UNCHANGED inbox

Start(t) ==
  /\ phase[t] = "none" /\ inbox[t] = <<>>
  /\ phase' = [phase EXCEPT ![t] = "running"]
  /\ UNCHANGED inbox

\* A task that is in somebody's inbox stays there.
Stop(t) ==
  /\ phase[t] \notin {"none", "sending"}
  /\ phase' = [phase EXCEPT ![t] = "none"]
  /\ UNCHANGED inbox

Next ==
  \/ \E s, r \in Tasks : SendToWaiting(s, r) \/ SendToBusy(s, r)
  \/ \E t \in Tasks : \/ ReceiveNothing(t) \/ ReceiveFirst(t) \/ ReplyTo(t)
                      \/ Start(t) \/ Stop(t)

Spec == Init /\ [][Next]_<<phase, inbox>>
=============================================================================
