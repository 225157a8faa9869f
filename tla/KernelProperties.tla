-------------------------- MODULE KernelProperties --------------------------
(***************************************************************************)
(* What the kernel must guarantee.  The invariants speak of a kernel whose *)
(* lists have not been damaged; NeverDamaged says when that is so.         *)
(***************************************************************************)
EXTENDS Kernel

Sound == corrupt = NotCorrupt

Damages == {NotCorrupt, "destroyed twice", "destroyed sender resumed",
            "linked node overwritten", "no task to run"}

\* Types of the kernel's variables, those that only observe it (result,
\* delivery) left out.
SchedTypes == [state : [Slots -> TaskStates],
               priority : [Slots -> Priorities],
               queue : [QueuedStates -> [Priorities -> Seq(Slots)]]]
TasksTypeOK ==
  /\ sched \in SchedTypes
  /\ tid \in [Slots -> Int]
  /\ parent \in [Slots -> Int]
  /\ children \in [Slots -> Seq(Slots)]
  /\ awaiting \in [Slots -> Interrupts \cup {NoInterrupt}]
  /\ avail \in Seq(Slots)
  /\ num_tasks \in Int
  /\ current \in Slots \cup {NoTask}
  /\ enabled \in SUBSET Interrupts
  /\ mode \in {"user", "kernel", "destroy"}
  /\ dstack \in Seq(Slots)
  /\ corrupt \in Damages
CommTypeOK ==
  /\ nodes \in [Slots -> [from : Int, to : Int, put : Slots \cup {Garbage}]]
  /\ msgq \in [Slots -> Seq(Slots)]
TypeOK == TasksTypeOK /\ CommTypeOK

-----------------------------------------------------------------------------
(* Tasks and the scheduler.                                                *)

\* U are the slots that no list need hold, the running task's among them.
\* Every other task is in exactly one list, once: that of its state and
\* priority.
SchedOK(sc, U) ==
  \A st \in QueuedStates, p \in Priorities :
    /\ Distinct(sc.queue[st][p])
    /\ \A s \in Slots : Linked(sc.queue[st][p], s) <=>
                          s \notin U /\ sc.state[s] = st /\ sc.priority[s] = p

\* The lists that SetTaskState, ScheduleAndActivate, CreateTask and
\* DestroyHandler keep relinking agree with the state and the priority stored
\* in the descriptors: no task is lost, listed twice or on a stale list.
SchedulerConsistent == Sound => SchedOK(sched, {current})

\* available_descriptors holds each FREE descriptor once, and nothing else:
\* Create never takes a descriptor in use, and none leaks.
FreeListConsistent ==
  Sound => /\ Distinct(avail)
           /\ \A s \in Slots : Linked(avail, s) <=> sched.state[s] = "FREE"

\* The children lists are the inverse of parent_tid, except for the tasks
\* that DestroyHandler has unlinked and not yet freed; and a task never
\* outlives its parent's descriptor.
FamilyTree ==
  Sound => \A s \in Slots :
    /\ Distinct(children[s])
    /\ \A c \in Slots : Linked(children[s], c) <=>
         /\ ~ IsDead(c)
         /\ parent[c] = tid[s] /\ parent[c] # -1
         /\ ~ Linked(dstack, c)
    /\ ~ IsDead(s) /\ parent[s] # -1 =>
         /\ tid[SlotOf(parent[s])] = parent[s]
         /\ ~ IsDead(SlotOf(parent[s]))

\* In user mode the running task is ACTIVE, nobody else is, and no READY task
\* has a better priority: every wake up is followed by a new choice.
BestPriorityRuns ==
  Sound /\ mode = "user" =>
    \A s \in Slots :
      /\ sched.state[s] = "ACTIVE" <=> s = current
      /\ sched.state[s] = "READY" => sched.priority[current] <= sched.priority[s]

\* A slot is reused only while its next tid is still in range, and a tid
\* determines its slot: the tid of a dead task never names another one.
TidsInRange ==
  Sound => \A s \in Slots :
    /\ SlotOf(tid[s]) = s
    /\ tid[s] <= LONG_MAX
    /\ sched.state[s] = "FREE" => tid[s] + MAX_TASKS <= LONG_MAX

\* struct TasksStats of include/task.h: the tasks are listed once each, the
\* caller and those that are being waited for included, and num_alive_tasks
\* counts those that have not exited.
StatsAgree ==
  Sound /\ result.call = "GetTasksStats" =>
    /\ result.value = Cardinality({s \in Slots : ~ IsDead(s)})
    /\ result.arg = Cardinality({s \in Slots : sched.state[s] \in AliveStates})

\* include/task.h on MyParentTid: the tid of the task that created the caller,
\* problematic only if that task has exited or been destroyed.  The answer is
\* a living task that counts the caller among its children, and the error
\* ERR_PARENT_DESTROYED is only given for a parent that has exited.
ParentAnswer ==
  Sound /\ result.call = "MyParentTid" =>
    /\ result.value >= 0 => /\ IsTaskAlive(result.value)
                            /\ Linked(children[SlotOf(result.value)], current)
    /\ result.value = -1 =>
         \E s \in Slots : /\ sched.state[s] = "ZOMBIE"
                          /\ Linked(children[s], current)

\* A task that has exited stays a ZOMBIE until it is destroyed, and a
\* destroyed one never comes back under the same tid.
DeathIsFinal ==
  [][\A s \in Slots :
       /\ sched.state[s] = "ZOMBIE" =>
            sched'.state[s] \in {"ZOMBIE"} \cup DeadStates
       /\ IsDead(s) /\ sched'.state[s] # sched.state[s] =>
            tid'[s] = tid[s] + MAX_TASKS]_vars

-----------------------------------------------------------------------------
(* Send, Receive, Reply.                                                   *)

\* No lost wake up: a task waits in Receive only while nothing is queued for
\* it, whatever has been destroyed and recreated in between.
WaitingReceiverHasNoMail ==
  Sound => \A s \in Slots : sched.state[s] = "SEND_BLOCKED" =>
                              msgq[s] = <<>> /\ nodes[s].put = s

\* A task that is blocked in Send has its node, with its own tid, in exactly
\* one queue and there once; once received, in none.  Other nodes in a queue
\* are those of destroyed senders.
SenderNodes ==
  Sound => \A s \in Slots :
    /\ sched.state[s] = "RECEIVE_BLOCKED" =>
         /\ nodes[s].from = tid[s]
         /\ Linked(msgq[SlotOf(nodes[s].to)], s)
    /\ sched.state[s] = "REPLY_BLOCKED" => nodes[s].from = tid[s] /\ ~ Pending(s)
    /\ \A r \in Slots :
         /\ Distinct(msgq[r])
         /\ Linked(msgq[r], s) =>
              /\ SlotOf(nodes[s].to) = r
              /\ \/ nodes[s].from = tid[s] /\ sched.state[s] = "RECEIVE_BLOCKED"
                 \/ nodes[s].from = tid[s] /\ IsDead(s)
                 \/ nodes[s].from < tid[s]

\* include/communication.h: "When Send returns without error it is guaranteed
\* that the message has been received, and that a reply has been sent".  A
\* task blocked in Send leaves by being received, then by a Reply to it, or
\* is destroyed.
SendCompletes ==
  [][\A s \in Slots :
       /\ sched.state[s] = "RECEIVE_BLOCKED" /\ sched'.state[s] # "RECEIVE_BLOCKED" =>
            \/ sched'.state[s] = "REPLY_BLOCKED" /\ delivery'.from = tid[s]
            \/ sched'.state[s] \in DeadStates
       /\ sched.state[s] = "REPLY_BLOCKED" /\ sched'.state[s] # "REPLY_BLOCKED" =>
            \/ /\ sched'.state[s] = "READY"
               /\ result'.call = "Reply" /\ result'.arg = tid[s]
            \/ sched'.state[s] \in DeadStates]_vars

\* include/communication.h on Receive: it returns "with the message in its
\* message buffer and tid set to the task id of the task that sent the message".
ReceivedIntoOwnBuffer ==
  delivery # NoDelivery => delivery.into = SlotOf(delivery.by)

\* include/communication.h on Send: the message is copied to the address space
\* "of the task to which it is sent".  So it is, and into the buffers of that
\* task's Receive, as long as no other sender is queued behind.
ReceivedByAddressee ==
  delivery # NoDelivery =>
    /\ delivery.by = delivery.to
    /\ delivery.behind = 0 => delivery.into = SlotOf(delivery.by)

\* include/communication.h on Reply: the replier and the sender "return at the
\* same logical time, so whichever is of higher priority runs first.  If they
\* are of the same priority the sender runs first".
SenderRunsBeforeReplier ==
  [][mode = "kernel" /\ result.call = "Reply" /\ result.value \in {0, -4} =>
       LET s == SlotOf(result.arg)
       IN  sched.priority[s] <= sched.priority[current] => current' # current]_vars

\* include/interrupt.h: "AwaitEvent blocks until the event identified by
\* eventid occurs then returns".  A task blocked in AwaitEvent goes on only in
\* the handling of an interrupt of the very line it awaits, and alone, or is
\* destroyed; and no interrupt of a line is handled without waking a task that
\* awaits it, if there is one.  Of several that do, the others go on waiting.
Awaits(s, i) == sched.state[s] = "EVENT_BLOCKED" /\ awaiting[s] = i
WokenBy(s, i) ==
  /\ sched'.state[s] = "READY"
  /\ mode = "user" /\ result'.call = "HandleIrq" /\ result'.arg = i
  /\ \A q \in Slots \ {s} : sched'.state[q] = sched.state[q]
EventWakesItsWaiter ==
  [][/\ \A s \in Slots :
          sched.state[s] = "EVENT_BLOCKED" /\ sched'.state[s] # "EVENT_BLOCKED" =>
            WokenBy(s, awaiting[s]) \/ sched'.state[s] \in DeadStates
     /\ mode = "user" /\ result'.call = "HandleIrq" =>
          LET i == result'.arg
          IN  (\E s \in Slots : Awaits(s, i)) =>
                \E s \in Slots : Awaits(s, i) /\ WokenBy(s, i)]_vars

\* The phase of Rendezvous that a task's state stands for.
PhaseOf(st) ==
  CASE st = "SEND_BLOCKED" -> "receiving"
    [] st = "RECEIVE_BLOCKED" -> "sending"
    [] st = "REPLY_BLOCKED" -> "awaiting reply"
    [] st \in {"READY", "ACTIVE", "EVENT_BLOCKED"} -> "running"
    [] st \in {"ZOMBIE", "FREE", "DESTROYED"} -> "none"

SRR == INSTANCE Rendezvous WITH
  Tasks <- Slots,
  phase <- [s \in Slots |-> PhaseOf(sched.state[s])],
  inbox <- msgq

\* The kernel's Send, Receive and Reply are the rendezvous: first come, first
\* served, nobody skipped, received twice or resumed without a reply.
ImplementsRendezvous == SRR!Spec

-----------------------------------------------------------------------------
(* Interrupts, damage, progress.                                           *)

\* include/interrupt.h: "AwaitEvent blocks until the event identified by
\* eventid occurs then returns": the line of an awaited event is enabled.
AwaitedEventEnabled ==
  Sound => \A s \in Slots :
    sched.state[s] = "EVENT_BLOCKED" => awaiting[s] \in enabled

\* Nothing the tasks of this instance do damages the kernel's lists.
NeverDamaged == Sound

\* Preemption by the timer and requeueing at the tail share the processor: a
\* task is not READY for ever while no task of a better priority is runnable.
Runnable(s) == sched.state[s] \in {"READY", "ACTIVE"}
Starving(s) ==
  /\ sched.state[s] = "READY"
  /\ \A q \in Slots : Runnable(q) => sched.priority[s] <= sched.priority[q]
NoStarvation == \A s \in Slots : []<>(~ Starving(s))
=============================================================================
