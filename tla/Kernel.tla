------------------------------- MODULE Kernel -------------------------------
(***************************************************************************)
(* The kernel as a whole: traps and interrupts taken in user mode (svc and *)
(* irq entries of arch/arm/context_switch.s, stubs of syscall.s), the      *)
(* handlers of Tasks and Communication, and the loop of kernel/rtk.c that  *)
(* activates the next task.  The kernel runs with interrupts masked: a     *)
(* handler is one step, except DestroyHandler, one step per recursive call.*)
(***************************************************************************)
EXTENDS Communication

CONSTANTS
  PriorityArgs, \* the priorities they pass to Create
  Calls,        \* the system calls the tasks of this instance make
  SharedEvents, \* may two tasks await the same event?
  CleanDestroy  \* do tasks only destroy what CanDestroy allows?

ASSUME KernelAssumption ==
  /\ PriorityArgs \subseteq Int
  /\ SharedEvents \in BOOLEAN
  /\ CleanDestroy \in BOOLEAN

vars == <<taskVars, commVars>>

-----------------------------------------------------------------------------
(* What tasks do.  The null task never leaves its loop; any other one may  *)
(* make any call at any time, with any arguments.                          *)

Running(call) ==
  /\ corrupt = NotCorrupt
  /\ mode = "user"
  /\ tid[current] # 0
  /\ call \in Calls

TidArgs == -1 .. LONG_MAX

Create == Running("Create") /\ \E p \in PriorityArgs : CreateTaskSafe(p)
          /\ UNCHANGED commVars
Exit == Running("Exit") /\ ExitTask /\ UNCHANGED commVars
Pass == Running("Pass") /\ Nop /\ UNCHANGED commVars
MyTid == Running("MyTid") /\ GetCurrentTid /\ UNCHANGED commVars
MyParentTid == Running("MyParentTid") /\ GetParentTid /\ UNCHANGED commVars
GetMyPriority ==
  Running("GetMyPriority") /\ GetCurrentTaskPriority /\ UNCHANGED commVars
SetMyPriority ==
  /\ Running("SetMyPriority")
  /\ \E p \in Priorities : SetCurrentTaskPriority(p)
  /\ UNCHANGED commVars
GetPriority ==
  /\ Running("GetPriority")
  /\ \E t \in TidArgs : GetTaskPriority(t)
  /\ UNCHANGED commVars
SetPriority ==
  /\ Running("SetPriority")
  /\ \E t \in TidArgs, p \in Priorities : SetTaskPriority(t, p)
  /\ UNCHANGED commVars
GetTasksStats ==
  Running("GetTasksStats") /\ TasksStatsHandler /\ UNCHANGED commVars

Send == Running("Send") /\ \E t \in TidArgs : SendProxy(t)
Receive == Running("Receive") /\ ReceiveProxy
Reply ==
  /\ Running("Reply")
  /\ \E t \in TidArgs, tooSmall \in BOOLEAN : ReplyProxy(t, tooSmall)

\* In an instance without SharedEvents an event has one waiter at a time, as
\* the notifiers of the clock and serial servers have it.
AwaitEvent ==
  /\ Running("AwaitEvent")
  /\ \E i \in Interrupts :
       /\ SharedEvents \/ \A s \in Slots :
            sched.state[s] = "EVENT_BLOCKED" => awaiting[s] # i
       /\ AwaitEventHandler(i)
  /\ UNCHANGED commVars

\* Slot s and the tasks created by it, by them, and so on.
Descendants(s) ==
  {d \in Slots : \A D \in SUBSET Slots :
     (s \in D /\ \A e \in D : ToSet(children[e]) \subseteq D) => d \in D}

\* A caller that knows that the task exists, and that neither the task nor any
\* of its descendants has a message under way or messages waiting for it,
\* destroys it safely.
CanDestroy(t) ==
  tid[SlotOf(t)] = t =>
    /\ ~ IsDead(SlotOf(t))
    /\ \A d \in Descendants(SlotOf(t)) :
         d # 0 /\ ~ Pending(d) /\ msgq[d] = <<>>

Destroy ==
  /\ Running("Destroy")
  /\ \E t \in TidArgs : /\ CleanDestroy => CanDestroy(t)
                        /\ DestroyHandler(t)
  /\ UNCHANGED commVars

-----------------------------------------------------------------------------
(* What the hardware and the kernel do.                                    *)

Irq ==
  /\ corrupt = NotCorrupt
  /\ mode = "user"
  /\ \E i \in enabled : HandleIrq(i)
  /\ UNCHANGED commVars

DestroyStep ==
  /\ corrupt = NotCorrupt
  /\ DestroyChild \/ DestroySelf
  /\ UNCHANGED commVars

Activate ==
  /\ corrupt = NotCorrupt
  /\ mode = "kernel"
  /\ \/ ScheduleAndActivate /\ delivery' = NoDelivery
     \/ ActivateNobody /\ UNCHANGED delivery
  /\ UNCHANGED <<nodes, msgq>>

\* The behaviour of a damaged kernel is not followed any further.
Damaged == corrupt # NotCorrupt /\ UNCHANGED vars

Init == TasksInit /\ CommunicationInit

SystemCall ==
  \/ Create \/ Exit \/ Pass \/ Destroy
  \/ MyTid \/ MyParentTid \/ GetMyPriority \/ SetMyPriority
  \/ GetPriority \/ SetPriority \/ GetTasksStats
  \/ Send \/ Receive \/ Reply \/ AwaitEvent

Next == SystemCall \/ Irq \/ DestroyStep \/ Activate \/ Damaged

Spec == Init /\ [][Next]_vars

\* The kernel loop always goes on, and the timer keeps interrupting user
\* code.  Nothing is assumed of the tasks, which may compute for ever.
TimerIrq ==
  /\ corrupt = NotCorrupt
  /\ mode = "user"
  /\ TimerInterrupt \in enabled
  /\ HandleIrq(TimerInterrupt)
  /\ UNCHANGED commVars
Fairness == WF_vars(Activate) /\ WF_vars(DestroyStep) /\ WF_vars(TimerIrq)
FairSpec == Spec /\ Fairness
=============================================================================
