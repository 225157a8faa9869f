---------------------------- MODULE ContextSwitch ----------------------------
(***************************************************************************)
(* Registers and stacks across traps: arch/arm/context_switch.s, the stubs *)
(* of arch/arm/syscall.s, SaveTaskState, SetTaskReturnValue and            *)
(* ScheduleAndActivate of kernel/task.c, and the timer they read.          *)
(*                                                                         *)
(* A stack is the sequence of its words, the last one where sp points.     *)
(* Of the registers r0 and one other stand for all: a frame of the         *)
(* fourteen that are pushed is two words, r0 last.  Values are told apart  *)
(* by where they come from: Data is what the program has put there.  Of    *)
(* the runnable tasks any may be activated next.                           *)
(***************************************************************************)
EXTENDS SequencesExt

CONSTANTS
  Tasks,
  MaxLocals, \* bound: words on a user stack outside of frames
  QUANTUM    \* TIMER_INTERRUPT_QUANTUM

Null == "null"  \* NullProcess makes no calls

ASSUME SwitchAssumption ==
  /\ Null \in Tasks /\ MaxLocals \in Nat /\ QUANTUM \in Nat

VARIABLES
  phase, inbox, \* of Send, Receive and Reply, as in Rendezvous
  mode,      \* "user"; in a trap: "irq", "svc"; then "kernel"
  current,
  cpu,       \* r0, rest: the user's registers; pc: in a "stub" or not ("user")
  stack,     \* of each task
  saved,     \* sp and pc of each task's descriptor
  awaiting,  \* the tasks that are EVENT_BLOCKED
  clock,     \* timer: TIMER_VALUE; mis: has it gone off; read: the value read on entry
  last_activate_at,
  due,       \* observed: what r0 must be when each task goes on
  careless   \* observed: who was written to below its frame

switchVars == <<mode, current, cpu, stack, saved>>
timeVars == <<clock, last_activate_at>>
ipcVars == <<phase, inbox>>
vars == <<ipcVars, switchVars, awaiting, timeVars, due, careless>>

Data == "data"
RETURN_STATUS_OK == "ok"
ERR == "error"
ERR_COLLECT_DATA == "collect data"

\* The size of what a task sends or replies stands as that task.
Size(t) == t

R == INSTANCE Rendezvous
Runnable(t) == phase[t] = "running" /\ t \notin awaiting

-----------------------------------------------------------------------------
(* User code.                                                              *)

InUser == mode = "user" /\ cpu.pc = "user"
Push(words) == stack' = [stack EXCEPT ![current] = @ \o words]

Compute ==
  /\ InUser /\ current # Null /\ cpu' = [cpu EXCEPT !.r0 = Data] /\ due' = [due EXCEPT ![current] = Data]
  /\ UNCHANGED <<ipcVars, mode, current, stack, saved, awaiting, timeVars, careless>>

EnterFunction ==
  /\ InUser /\ current # Null /\ Len(stack[current]) < MaxLocals /\ Push(<<Data>>)
  /\ UNCHANGED <<ipcVars, mode, current, cpu, saved, awaiting, timeVars, due, careless>>

LeaveFunction ==
  /\ InUser /\ stack[current] # <<>>
  /\ stack' = [stack EXCEPT ![current] = Front(@)]
  /\ UNCHANGED <<ipcVars, mode, current, cpu, saved, awaiting, timeVars, due, careless>>

Frame == <<cpu.rest, cpu.r0>>
FrameSize == 2

Calls == {"Pass", "Send", "Receive", "Reply", "AwaitEvent"}

\* Registers are pushed, then the call is put into them: r10, and r4 of Send.
Stub ==
  /\ InUser /\ current # Null
  /\ Push(Frame)
  /\ \E call \in Calls : cpu' = [cpu EXCEPT !.rest = call, !.pc = "stub"]
  /\ UNCHANGED <<ipcVars, mode, current, saved, awaiting, timeVars, due, careless>>

-----------------------------------------------------------------------------
(* The timer counts down, goes off, and starts again.                      *)

Tick ==
  /\ clock' = IF clock.timer = 0 THEN [clock EXCEPT !.timer = QUANTUM, !.mis = TRUE]
              ELSE [clock EXCEPT !.timer = @ - 1]
  /\ UNCHANGED <<ipcVars, switchVars, awaiting, last_activate_at, due, careless>>

-----------------------------------------------------------------------------
(* Traps.                                                                  *)

\* *( task_descriptors[t].sp ) = value.  Beyond the stack nobody reads it.
Mut_OneBelow(st, t, value) ==
  LET i == saved[t].sp - 1
  IN  IF i \in DOMAIN st[t] THEN [st EXCEPT ![t][i] = value] ELSE st
SetTaskReturnValue(st, t, value) ==
  LET i == saved[t].sp
  IN  IF i \in DOMAIN st[t] THEN [st EXCEPT ![t][i] = value] ELSE st

Mut_TimerNotAsked(time) == time
\* If the timer has gone off since, the time read is of the next quantum.
TimeOf(time) == IF clock.mis THEN 0 ELSE time

\* What is added to used_user_time.
Charge == last_activate_at - TimeOf(clock.read)

SaveTaskState(sp, pc) ==
  /\ saved' = [saved EXCEPT ![current] = [sp |-> sp, pc |-> pc]]
  /\ clock' = [clock EXCEPT !.read = 0]
  /\ UNCHANGED last_activate_at

UnblockTaskWaitingOnEvent(st) ==
  \E t \in awaiting :
    /\ stack' = SetTaskReturnValue(st, t, ERR_COLLECT_DATA)
    /\ awaiting' = awaiting \ {t}
    /\ due' = [due EXCEPT ![t] = ERR_COLLECT_DATA]

\* irq_entry pushes the user's registers and calls HandleIrq, which reads the
\* time, clears the timer if it is the timer's interrupt, and wakes a task that
\* awaits the event.  A device's line is enabled only while somebody does.
IrqEntry ==
  LET pushed == [stack EXCEPT ![current] = @ \o Frame]
      entered == [clock EXCEPT !.read = TimeOf(clock.timer)]
  IN  /\ mode = "user" /\ mode' = "irq"
      /\ \/ /\ clock.mis /\ clock' = [entered EXCEPT !.mis = FALSE]
            /\ \/ UnblockTaskWaitingOnEvent(pushed)
               \/ stack' = pushed /\ UNCHANGED <<awaiting, due>>
         \/ clock' = entered /\ UnblockTaskWaitingOnEvent(pushed)
      /\ UNCHANGED <<ipcVars, current, cpu, saved, last_activate_at, careless>>

IrqSave ==
  /\ mode = "irq" /\ mode' = "kernel"
  /\ SaveTaskState(Len(stack[current]), cpu.pc)
  /\ UNCHANGED <<ipcVars, current, cpu, stack, awaiting, due, careless>>

SvcEntry ==
  /\ mode = "user" /\ cpu.pc = "stub" /\ mode' = "svc"
  /\ clock' = [clock EXCEPT !.read = clock.timer]
  /\ UNCHANGED <<ipcVars, current, cpu, stack, saved, awaiting, last_activate_at, due,
                 careless>>

Mut_BeforeSaving(st, ret) == SetTaskReturnValue(st, current, ret)
\* After SaveTaskState: sp is where the stub's frame ends.
SetCurrentTaskReturnValue(st, ret) == [st EXCEPT ![current][Len(st[current])] = ret]

\* What a handler leaves in the stacks st, then svc_entry goes on with its
\* return value.  The task resumes in the caller of the stub.
Leave(st, ret) ==
  /\ mode = "svc" /\ mode' = "kernel"
  /\ SaveTaskState(Len(stack[current]), "user")
  /\ stack' = SetCurrentTaskReturnValue(st, ret)
  /\ UNCHANGED <<current, cpu>>

HandlePass ==
  /\ cpu.rest = "Pass" /\ Leave(stack, RETURN_STATUS_OK)
  /\ due' = [due EXCEPT ![current] = RETURN_STATUS_OK]
  /\ UNCHANGED <<ipcVars, awaiting, careless>>

\* A task that waits in Receive is given the size at once.
HandleSend ==
  /\ cpu.rest = "Send"
  /\ \E r \in Tasks \ {current, Null} :
       /\ R!SendToWaiting(current, r) \/ R!SendToBusy(current, r)
       /\ IF phase[r] = "receiving"
          THEN /\ Leave(SetTaskReturnValue(stack, r, Size(current)), Size(current))
               /\ due' = [due EXCEPT ![r] = Size(current), ![current] = Data]
          ELSE Leave(stack, RETURN_STATUS_OK) /\ due' = [due EXCEPT ![current] = Data]
  /\ UNCHANGED <<awaiting, careless>>

\* CompleteReceive writes through the sp saved at the task's last trap, which
\* is that of another depth, before the present one is saved.
HandleReceive ==
  LET first == Head(inbox[current])
  IN  /\ cpu.rest = "Receive"
      /\ IF inbox[current] = <<>>
         THEN /\ R!ReceiveNothing(current)
              /\ Leave(stack, RETURN_STATUS_OK)
              /\ due' = [due EXCEPT ![current] = Data]
              /\ UNCHANGED careless
         ELSE /\ R!ReceiveFirst(current)
              /\ Leave(SetTaskReturnValue(stack, current, Size(first)), Size(first))
              /\ due' = [due EXCEPT ![current] = Size(first)]
              /\ careless' = IF saved[current].sp < Len(stack[current])
                             THEN careless \cup {current} ELSE careless
      /\ UNCHANGED awaiting

HandleReply ==
  /\ cpu.rest = "Reply"
  /\ \E s \in Tasks \ {current, Null} :
       /\ IF phase[s] = "awaiting reply"
          THEN /\ R!ReplyTo(s)
               /\ Leave(SetTaskReturnValue(stack, s, Size(current)), RETURN_STATUS_OK)
               /\ due' = [due EXCEPT ![s] = Size(current), ![current] = RETURN_STATUS_OK]
          ELSE /\ Leave(stack, ERR) /\ UNCHANGED ipcVars
               /\ due' = [due EXCEPT ![current] = ERR]
  /\ UNCHANGED <<awaiting, careless>>

HandleAwaitEvent ==
  /\ cpu.rest = "AwaitEvent" /\ Leave(stack, RETURN_STATUS_OK)
  /\ awaiting' = awaiting \cup {current}
  /\ due' = [due EXCEPT ![current] = Data]
  /\ UNCHANGED <<ipcVars, careless>>

\* ScheduleAndActivate, with Activate, which pops the frame at the saved sp.
Activate ==
  /\ mode = "kernel" /\ mode' = "user"
  /\ \E t \in Tasks :
       /\ Runnable(t)
       /\ current' = t
       /\ cpu' = [r0 |-> stack[t][saved[t].sp], rest |-> stack[t][saved[t].sp - 1],
                  pc |-> saved[t].pc]
       /\ stack' = [stack EXCEPT ![t] = SubSeq(@, 1, saved[t].sp - FrameSize)]
  /\ last_activate_at' = clock.timer
  /\ UNCHANGED <<ipcVars, saved, awaiting, clock, due, careless>>

-----------------------------------------------------------------------------
\* Every task has been created, with room for the frame to be popped.
Init ==
  /\ phase = [t \in Tasks |-> "running"] /\ inbox = [t \in Tasks |-> <<>>]
  /\ mode = "kernel" /\ current = Null
  /\ cpu = [r0 |-> Data, rest |-> Data, pc |-> "user"]
  /\ stack = [t \in Tasks |-> <<Data, Data>>]
  /\ saved = [t \in Tasks |-> [sp |-> FrameSize, pc |-> "user"]]
  /\ awaiting = {}
  /\ clock = [timer |-> QUANTUM, mis |-> FALSE, read |-> 0]
  /\ last_activate_at = 0
  /\ due = [t \in Tasks |-> Data]
  /\ careless = {}

UserStep == Compute \/ EnterFunction \/ LeaveFunction \/ Stub
Handler == HandlePass \/ HandleSend \/ HandleReceive \/ HandleReply \/ HandleAwaitEvent
TrapStep == IrqEntry \/ IrqSave \/ SvcEntry \/ Handler \/ Activate

Next == UserStep \/ Tick \/ TrapStep

Spec == Init /\ [][Next]_vars
-----------------------------------------------------------------------------
Words == {Data, RETURN_STATUS_OK, ERR, ERR_COLLECT_DATA} \cup Calls \cup {Size(t) : t \in Tasks}
TypeOK ==
  /\ mode \in {"user", "irq", "svc", "kernel"} /\ current \in Tasks
  /\ cpu \in [r0 : Words, rest : Words, pc : {"user", "stub"}]
  /\ stack \in [Tasks -> Seq(Words)]
  /\ saved \in [Tasks -> [sp : Nat, pc : {"user", "stub"}]]
  /\ awaiting \subseteq Tasks
  /\ clock \in [timer : 0 .. QUANTUM, mis : BOOLEAN, read : 0 .. QUANTUM]
  /\ due \in [Tasks -> Words] /\ careless \subseteq Tasks

\* The task is on the processor and its registers have not been saved yet.
OnCpu(t) == t = current /\ mode # "kernel"

\* What r0 is, or will be once the task is activated.
R0(t) == IF OnCpu(t) THEN cpu.r0 ELSE stack[t][saved[t].sp]

\* include/communication.h: Send and Receive return the size of the reply, or
\* of the message.  Whichever task writes it into whichever stack, a call's
\* return value is in r0 when its caller goes on, and an interrupt, also one in
\* the middle of a stub, leaves r0 as it was.
ReturnValueArrives == \A t \in Tasks : Runnable(t) => R0(t) = due[t]

\* How many frames are on a task's stack.
Frames(t) ==
  IF OnCpu(t) THEN (IF cpu.pc = "stub" THEN 1 ELSE 0) + (IF mode = "irq" THEN 1 ELSE 0)
  ELSE IF saved[t].pc = "stub" THEN 2 ELSE 1

\* A trap leaves all else as it was: a stack is what the program had on it,
\* then the frames, in which the other registers are those of the program or,
\* in a stub, the call.  The exception is a task that has received a queued
\* message deeper in its stack than it was at its last trap.
RestIntact ==
  /\ TypeOK
  /\ \A t \in Tasks \ careless :
       LET n == Len(stack[t])
           f == Frames(t)
       IN  /\ ~ OnCpu(t) => saved[t].sp = n
           /\ 0 <= n - f * FrameSize /\ n - f * FrameSize <= MaxLocals
           /\ \A i \in 1 .. n : \/ stack[t][i] = Data
                                \/ i = n /\ f >= 1
                                \/ i = n - FrameSize /\ f = 2
                                \/ i = n - 1 /\ f = 2 /\ stack[t][i] \in Calls
           /\ OnCpu(t) => IF cpu.pc = "stub" THEN cpu.rest \in Calls ELSE cpu.rest = Data

\* used_user_time grows by no more than was left of the quantum when the task
\* was activated, and never by a difference that has wrapped: the timer may go
\* off at any moment, also between the reading and the saving.
ChargeWithinQuantum ==
  mode \in {"irq", "svc"} => 0 <= Charge /\ Charge <= QUANTUM
=============================================================================
