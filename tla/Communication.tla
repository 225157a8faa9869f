---------------------------- MODULE Communication ----------------------------
(***************************************************************************)
(* Send, Receive and Reply: kernel/communication.c.  Each slot owns one    *)
(* message node and one queue of the nodes sent to it.  Neither is touched *)
(* when a task is destroyed or created: the next task of the slot finds    *)
(* them as they were left.                                                 *)
(*                                                                         *)
(* A message's bytes are left out.  What is kept of the buffers is whose   *)
(* they are: "put" stands for put_tid and receive_buffer, which a receiver *)
(* supplies together, by its slot.                                         *)
(***************************************************************************)
EXTENDS Tasks

VARIABLES
  nodes,     \* nodes[s]: the message node of slot s
  msgq,      \* msg_queues[s]: the slots whose nodes are queued for slot s
  delivery   \* what CompleteReceive has copied in the trap being handled

commVars == <<nodes, msgq, delivery>>

\* A word of the kernel's stack that nothing was stored to: no tid, no slot.
Garbage == -1 - MAX_TASKS

\* What CompleteReceive returns, standing for the size of the message.
MessageSize == 1

Tids == -MAX_TASKS .. LONG_MAX
Node == [from : Tids \cup {Garbage}, to : Tids \cup {Garbage},
         put : Slots \cup {Garbage}]
NoDelivery == [from |-> Garbage, to |-> Garbage, by |-> Garbage,
               into |-> Garbage, behind |-> 0]

\* A message node is linked in some queue.
Pending(s) == \E r \in Slots : Linked(msgq[r], s)

\* DequeueQueue( &msg_queues[r] )
Mut_NeverTaken(mq, r) == mq
Mut_TakenLast(mq, r) == [mq EXCEPT ![r] = SubSeq(@, 1, Len(@) - 1)]
Taken(mq, r) == [mq EXCEPT ![r] = DequeueQueue(@)]

\* The delivery of the first message queued for task t, given the nodes, the
\* queues and the scheduler at the call.  Where the sender and the message
\* are stored comes from the node that is dequeued; with an uninitialised
\* node, anywhere.  The sender, unless its slot has passed to another task,
\* becomes REPLY_BLOCKED: when it has been destroyed, that puts a descriptor
\* of the free list into the scheduler.
CompleteReceive(call, arg, t, nd, mq, sc) ==
  LET n == Head(mq[SlotOf(t)])
      from == nd[n].from
      to == nd[n].to
      f == SlotOf(from)
  IN  IF tid[f] = from /\ sc.state[f] \in DeadStates
      THEN /\ Damage("destroyed sender resumed")
           /\ UNCHANGED commVars
      ELSE /\ nodes' = nd
           /\ msgq' = Taken(mq, SlotOf(t))
           /\ \E into \in IF nd[n].put = Garbage THEN Slots \cup {Garbage}
                          ELSE {nd[n].put} :
                delivery' = [from |-> from, to |-> to, by |-> t, into |-> into,
                             behind |-> Len(mq[SlotOf(t)]) - 1]
           /\ sched' = SetTaskState(SetTaskState(sc, from, "REPLY_BLOCKED"),
                                    to, "READY")
           /\ Returns(call, arg, MessageSize)
           /\ UNCHANGED <<descVars, awaiting, avail, num_tasks, current, enabled>>

Mut_BuffersNotCopied(n, r) == n
\* The sender's node gets the buffers that the waiting receiver's node keeps.
MetBy(n, r) == [n EXCEPT !.put = nodes[r].put]

Mut_ReceiverNotWoken(sc, r) == FALSE
Waits(sc, r) == sc.state[r] = "SEND_BLOCKED"

\* The node is filled from a local variable whose put_tid and receive_buffer
\* are not set, queued, and delivered at once to a receiver that waits.
PostMessage(t) ==
  LET r == SlotOf(t)
      n == [from |-> tid[current], to |-> t, put |-> Garbage]
      mq == [msgq EXCEPT ![r] = EnqueueQueue(@, current)]
      sc == SetCurrentTaskState(sched, "RECEIVE_BLOCKED")
  IN  IF Waits(sc, r)
      THEN CompleteReceive("Send", t, t,
                           [nodes EXCEPT ![current] = MetBy(n, r)], mq, sc)
      ELSE /\ nodes' = [nodes EXCEPT ![current] = n]
           /\ msgq' = mq
           /\ sched' = sc
           /\ Returns("Send", t, RETURN_STATUS_OK)
           /\ UNCHANGED <<descVars, awaiting, avail, num_tasks, current,
                          enabled, delivery>>

\* -1 ERR_SEND_IMPOSSIBLE_TID, -2 ERR_SEND_NONEXISTENT_TASK.  Overwriting the
\* links of a node that is still in a queue breaks that queue.
SendProxy(t) ==
  IF ~ IsValidTid(t) THEN Answers("Send", t, -1) /\ UNCHANGED commVars
  ELSE IF ~ IsTaskAlive(t) THEN Answers("Send", t, -2) /\ UNCHANGED commVars
  ELSE IF Pending(current)
  THEN Damage("linked node overwritten") /\ UNCHANGED commVars
  ELSE PostMessage(t)

\* With nothing queued the task waits, its whole node overwritten.
ReceiveBlocks ==
  IF Pending(current)
  THEN Damage("linked node overwritten") /\ UNCHANGED commVars
  ELSE /\ sched' = SetCurrentTaskState(sched, "SEND_BLOCKED")
       /\ nodes' = [nodes EXCEPT ![current] =
                      [from |-> Garbage, to |-> Garbage, put |-> current]]
       /\ Returns("Receive", 0, RETURN_STATUS_OK)
       /\ UNCHANGED <<descVars, awaiting, avail, num_tasks, current, enabled,
                      msgq, delivery>>

\* The receiver's buffers go into the last node queued, the first is delivered.
ReceiveProxy ==
  LET q == msgq[current]
  IN  IF q = <<>> THEN ReceiveBlocks
      ELSE CompleteReceive("Receive", 0, tid[current],
                           [nodes EXCEPT ![q[Len(q)]].put = current], msgq, sched)

Mut_SenderNotReceived(t) ==
  sched.state[SlotOf(t)] \in {"RECEIVE_BLOCKED", "REPLY_BLOCKED"}
AwaitsReply(t) == sched.state[SlotOf(t)] = "REPLY_BLOCKED"

\* -1, -2, -3 ERR_NOT_REPLY_BLOCKED, -4 ERR_BUFFER_TOO_SMALL: the sender
\* resumes in that case too.
ReplyProxy(t, tooSmall) ==
  IF ~ IsValidTid(t) THEN Answers("Reply", t, -1) /\ UNCHANGED commVars
  ELSE IF ~ IsTaskAlive(t) THEN Answers("Reply", t, -2) /\ UNCHANGED commVars
  ELSE IF ~ AwaitsReply(t)
  THEN Answers("Reply", t, -3) /\ UNCHANGED commVars
  ELSE /\ sched' = SetTaskState(sched, nodes[SlotOf(t)].from, "READY")
       /\ Returns("Reply", t, IF tooSmall THEN -4 ELSE RETURN_STATUS_OK)
       /\ UNCHANGED <<descVars, awaiting, avail, num_tasks, current, enabled,
                      commVars>>

\* InitCommunication; the nodes are static storage, zero.
CommunicationInit ==
  /\ nodes = [s \in Slots |-> [from |-> 0, to |-> 0, put |-> Garbage]]
  /\ msgq = [s \in Slots |-> <<>>]
  /\ delivery = NoDelivery
=============================================================================
