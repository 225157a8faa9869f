-------------------------------- MODULE Tasks --------------------------------
(***************************************************************************)
(* Task descriptors and the scheduler: kernel/task.c and                   *)
(* kernel/task_queue.c.  A descriptor is named by its slot, its index in   *)
(* task_descriptors; a task by its tid, which is unique for ever while a   *)
(* slot is reused.  The handlers of the system calls are written here as   *)
(* relations on the variables below; Kernel says when they run.            *)
(*                                                                         *)
(* A definition named Mut_... is the one that follows it with a plausible  *)
(* mistake; it is there to see that the properties notice.                 *)
(***************************************************************************)
EXTENDS Queues, FiniteSets

CONSTANTS
  MAX_TASKS,      \* number of task descriptors
  LONG_MAX,       \* largest tid (a small bound instead of 2^31 - 1)
  NULL_PRIORITY,  \* the priority of the null task, the worst one
  Interrupts,     \* interrupt lines, as bit numbers of the PIC
  TimerInterrupt  \* the line of the preemption timer (PIC_TIMER01)

ASSUME TasksAssumption ==
  /\ MAX_TASKS \in Nat /\ MAX_TASKS >= 2
  /\ LONG_MAX \in Nat /\ LONG_MAX >= MAX_TASKS
  /\ NULL_PRIORITY \in Nat /\ NULL_PRIORITY >= 2
  /\ Interrupts \subseteq Nat /\ TimerInterrupt \in Interrupts

VARIABLES
  sched,      \* state and priority of each slot, and the scheduler's queues
  tid,        \* tid of the current (or last, or coming) task of each slot
  parent,     \* parent_tid
  children,   \* children, oldest first, as slots
  awaiting,   \* awaiting_event_id
  avail,      \* available_descriptors
  num_tasks,  \* the kernel's count of tasks
  current,    \* slot of current_task, or NoTask
  enabled,    \* interrupt lines enabled at the PIC
  mode,       \* "user", "kernel" (a trap was handled) or "destroy"
  dstack,     \* the recursion of DestroyHandler: slots, outermost first
  result,     \* the trap being handled, and what a call returns
  corrupt     \* the damage done to the kernel's lists, if any

descVars == <<tid, parent, children>>
taskVars == <<sched, tid, parent, children, awaiting, avail, num_tasks,
              current, enabled, mode, dstack, result, corrupt>>

Slots == 0 .. MAX_TASKS - 1
HIGHEST_PRIORITY == 0
LOW_PRIORITY == NULL_PRIORITY - 1
Priorities == HIGHEST_PRIORITY .. NULL_PRIORITY
NoTask == -1
NoInterrupt == -1

\* enum TaskState: the states that index scheduler.states, the living ones
\* (> 0), and all of them (FREE and DESTROYED are negative).
QueuedStates == {"ZOMBIE", "READY", "ACTIVE", "SEND_BLOCKED",
                 "RECEIVE_BLOCKED", "REPLY_BLOCKED", "EVENT_BLOCKED"}
AliveStates == QueuedStates \ {"ZOMBIE"}
DeadStates == {"FREE", "DESTROYED"}
TaskStates == QueuedStates \cup DeadStates

\* Return codes of include/task.h, communication.h, interrupt.h, common.h.
RETURN_STATUS_OK == 0

SlotOf(t) == t % MAX_TASKS
IsValidTid(t) == 0 <= t /\ t <= LONG_MAX
IsDead(s) == sched.state[s] \in DeadStates
Mut_TidNotCompared(t) ==
  IsValidTid(t) /\ sched.state[SlotOf(t)] \in AliveStates
IsTaskAlive(t) ==
  /\ IsValidTid(t)
  /\ tid[SlotOf(t)] = t
  /\ sched.state[SlotOf(t)] \in AliveStates

\* Written in the code with the bounds the wrong way round: never true.
IsValidPriority(p) == LOW_PRIORITY <= p /\ p <= HIGHEST_PRIORITY

\* system.c: the mask register of the interrupt controller.
Mut_NotEnabled(i) == enabled
EnableInterrupt(i) == enabled \cup {i}
DisableInterrupt(i) == enabled \ {i}

-----------------------------------------------------------------------------
(* task_queue.c and the scheduler's lists.  sc is a value of sched.        *)

Mut_EnqueuedFirst(sc, s) ==
  [sc EXCEPT !.queue[sc.state[s]][sc.priority[s]] = <<s>> \o @]
EnqueueTask(sc, s) ==
  [sc EXCEPT !.queue[sc.state[s]][sc.priority[s]] = EnqueueQueue(@, s)]

Mut_NotRemoved(sc, s) == sc
RemoveTask(sc, s) ==
  [sc EXCEPT !.queue[sc.state[s]][sc.priority[s]] = RemoveQueueNode(@, s)]

\* Of the running task, which no queue holds.
SetCurrentTaskState(sc, to) == [sc EXCEPT !.state[current] = to]

\* Nothing when the slot has passed to another task; the running task is
\* not queued: ScheduleAndActivate does that.
SetTaskState(sc, t, to) ==
  LET s == SlotOf(t)
      moved == [RemoveTask(sc, s) EXCEPT !.state[s] = to]
  IN  IF tid[s] # t THEN sc
      ELSE IF s # current /\ to \in QueuedStates THEN EnqueueTask(moved, s)
      ELSE moved

ReadyPriorities(sc) == {p \in Priorities : sc.queue["READY"][p] # <<>>}

\* DequeuePriorityTaskQueue( &scheduler.states[READY] ), then ACTIVE.
Mut_WorstFirst(sc) == CHOOSE p \in ReadyPriorities(sc) :
                        \A q \in ReadyPriorities(sc) : q <= p
Best(sc) == CHOOSE p \in ReadyPriorities(sc) :
              \A q \in ReadyPriorities(sc) : p <= q
ActivateNext(sc) ==
  [sc EXCEPT !.queue["READY"][Best(sc)] = DequeueQueue(@),
             !.state[Head(sc.queue["READY"][Best(sc)])] = "ACTIVE"]

-----------------------------------------------------------------------------
NoResult == [call |-> "none", arg |-> 0, value |-> 0]
NotCorrupt == "no"

\* The handler is over: the kernel loop goes on to ScheduleAndActivate.
Returns(call, arg, value) ==
  /\ result' = [call |-> call, arg |-> arg, value |-> value]
  /\ mode' = "kernel"
  /\ UNCHANGED <<dstack, corrupt>>

\* The handler has damaged the kernel's memory: what follows is undefined.
Damage(how) ==
  /\ corrupt' = how
  /\ UNCHANGED <<sched, tid, parent, children, awaiting, avail, num_tasks,
                 current, enabled, mode, dstack, result>>

\* Handlers that change nothing but the caller's saved r0.
Answers(call, arg, value) ==
  /\ Returns(call, arg, value)
  /\ UNCHANGED <<sched, tid, parent, children, awaiting, avail, num_tasks,
                 current, enabled>>

\* A slot's tids are its index, then MAX_TASKS more each time it is reused.
Mut_TidReused(s) == IF tid[s] < 0 THEN tid[s] + MAX_TASKS ELSE tid[s]
NextTid(s) == tid[s] + MAX_TASKS

CreateTask(p) ==
  LET s == Head(avail)
      t == NextTid(s)
      fresh == [sched EXCEPT !.state[s] = "READY", !.priority[s] = p]
  IN  /\ avail' = DequeueQueue(avail)
      /\ tid' = [tid EXCEPT ![s] = t]
      /\ parent' = [parent EXCEPT ![s] = tid[current]]
      /\ awaiting' = [awaiting EXCEPT ![s] = NoInterrupt]
      /\ children' = [children EXCEPT ![s] = <<>>,
                                      ![current] = EnqueueQueue(@, s)]
      /\ sched' = EnqueueTask(fresh, s)
      /\ num_tasks' = num_tasks + 1
      /\ Returns("Create", p, t)
      /\ UNCHANGED <<current, enabled>>

\* -1 ERR_INVALID_PRIORITY, -2 ERR_UNAVAILABLE_DESCRIPTOR.
Mut_NegativePriorityAccepted(p) ==
  IF LOW_PRIORITY < p THEN Answers("Create", p, -1)
  ELSE IF avail = <<>> THEN Answers("Create", p, -2)
  ELSE CreateTask(p)
CreateTaskSafe(p) ==
  IF p < HIGHEST_PRIORITY \/ LOW_PRIORITY < p THEN Answers("Create", p, -1)
  ELSE IF avail = <<>> THEN Answers("Create", p, -2)
  ELSE CreateTask(p)

ExitTask ==
  /\ num_tasks' = num_tasks - 1
  /\ sched' = SetCurrentTaskState(sched, "ZOMBIE")
  /\ Returns("Exit", 0, 0)
  /\ UNCHANGED <<descVars, awaiting, avail, current, enabled>>

Nop == Answers("Pass", 0, 0)
GetCurrentTid == Answers("MyTid", 0, tid[current])
Mut_ParentNotChecked ==
  Answers("MyParentTid", 0,
          IF parent[current] = -1 THEN -2 ELSE parent[current])
GetParentTid ==
  Answers("MyParentTid", 0,
          IF parent[current] = -1 THEN -2
          ELSE IF ~ IsTaskAlive(parent[current]) THEN -1
          ELSE parent[current])
GetCurrentTaskPriority == Answers("GetMyPriority", 0, sched.priority[current])

\* The code answers with .state, the number of the task's state.
StateNumber(st) ==
  CASE st = "DESTROYED" -> -2      [] st = "FREE" -> -1
    [] st = "ZOMBIE" -> 0          [] st = "READY" -> 1
    [] st = "ACTIVE" -> 2          [] st = "SEND_BLOCKED" -> 3
    [] st = "RECEIVE_BLOCKED" -> 4 [] st = "REPLY_BLOCKED" -> 5
    [] st = "EVENT_BLOCKED" -> 6
GetTaskPriority(t) ==
  Answers("GetPriority", t,
          IF ~ IsValidTid(t) THEN -1
          ELSE IF ~ IsTaskAlive(t) THEN -2
          ELSE StateNumber(sched.state[SlotOf(t)]))

\* Enums compare as unsigned here: only too large a priority is refused.
SetCurrentTaskPriority(p) ==
  IF LOW_PRIORITY < p THEN Answers("SetMyPriority", p, -1)
  ELSE /\ sched' = [sched EXCEPT !.priority[current] = p]
       /\ Returns("SetMyPriority", p, RETURN_STATUS_OK)
       /\ UNCHANGED <<descVars, awaiting, avail, num_tasks, current, enabled>>

\* The task_descriptors[tid] of the code, without the modulo, is kept: it
\* names a slot only for the first incarnations.
Reprioritised(t, p) ==
  LET removed == RemoveTask(sched, SlotOf(t))
      changed == IF t \in Slots THEN [removed EXCEPT !.priority[t] = p]
                 ELSE removed
  IN  IF SlotOf(t) # current THEN EnqueueTask(changed, SlotOf(t)) ELSE changed
SetTaskPriority(t, p) ==
  IF ~ IsValidPriority(p) THEN Answers("SetPriority", t, -1)
  ELSE IF ~ IsValidTid(t) THEN Answers("SetPriority", t, -2)
  ELSE IF ~ IsTaskAlive(t) THEN Answers("SetPriority", t, -3)
  ELSE /\ sched' = Reprioritised(t, p)
       /\ Returns("SetPriority", t, RETURN_STATUS_OK)
       /\ UNCHANGED <<descVars, awaiting, avail, num_tasks, current, enabled>>

\* The walk over all the lists, the running task queued for its duration:
\* num_alive_tasks is the counter, num_tasks what the walk lists, one task for
\* each place in a list.
Places(sc) ==
  UNION {{<<st, p, k>> : k \in DOMAIN sc.queue[st][p]} :
           st \in QueuedStates, p \in Priorities}
ListedTasks(sc) == Cardinality(Places(sc))
Mut_CallerNotListed ==
  Answers("GetTasksStats", num_tasks, ListedTasks(sched))
Mut_ListedAsAlive ==
  LET listed == ListedTasks(EnqueueTask(sched, current))
  IN  Answers("GetTasksStats", listed, listed)
TasksStatsHandler ==
  Answers("GetTasksStats", num_tasks, ListedTasks(EnqueueTask(sched, current)))

-----------------------------------------------------------------------------
AwaitEventHandler(i) ==
  /\ awaiting' = [awaiting EXCEPT ![current] = i]
  /\ sched' = SetCurrentTaskState(sched, "EVENT_BLOCKED")
  /\ enabled' = EnableInterrupt(i)
  /\ Returns("AwaitEvent", i, RETURN_STATUS_OK)
  /\ UNCHANGED <<descVars, avail, num_tasks, current>>

\* The first task found awaiting i: best priority, then queue order.
Mut_AnyWaiter(i, p) == DOMAIN sched.queue["EVENT_BLOCKED"][p]
WaitersAt(i, p) ==
  LET q == sched.queue["EVENT_BLOCKED"][p]
  IN  {k \in DOMAIN q : awaiting[q[k]] = i}
FirstWaiter(i) ==
  LET p == CHOOSE p \in Priorities : /\ WaitersAt(i, p) # {}
                                     /\ \A q \in Priorities :
                                          WaitersAt(i, q) # {} => p <= q
      k == CHOOSE k \in WaitersAt(i, p) : \A j \in WaitersAt(i, p) : k <= j
  IN  sched.queue["EVENT_BLOCKED"][p][k]
UnblockTaskWaitingOnEvent(i) ==
  sched' = IF \A p \in Priorities : WaitersAt(i, p) = {} THEN sched
           ELSE SetTaskState(sched, tid[FirstWaiter(i)], "READY")

\* The timer's interrupt is cleared at the timer, any other line is masked.
HandleIrq(i) ==
  /\ enabled' = IF i = TimerInterrupt THEN enabled ELSE DisableInterrupt(i)
  /\ UnblockTaskWaitingOnEvent(i)
  /\ Returns("HandleIrq", i, 0)
  /\ UNCHANGED <<descVars, awaiting, avail, num_tasks, current>>

-----------------------------------------------------------------------------
(* DestroyHandler, one step per call of the recursion.  ch is the value of *)
(* children when the call for slot s is entered.                           *)

\* RemoveQueueNode( &parent->children, &task->siblings ).  Tasks 0 and 1 have
\* no parent: the code looks before the array and finds nothing to unlink.
Mut_NotForgotten(ch, s) == ch
ForgottenByParent(ch, s) ==
  IF parent[s] = -1 THEN ch
  ELSE [ch EXCEPT ![SlotOf(parent[s])] = RemoveQueueNode(@, s)]

\* The tests, then the removal from the parent's children.  A slot that is
\* FREE still carries the tid of its last task and passes the test: its
\* state, -1, then indexes scheduler.states and the descriptor is put a
\* second time on the free list.
EnterDestroy(s, ch) ==
  IF IsDead(s) THEN Damage("destroyed twice")
  ELSE /\ children' = ForgottenByParent(ch, s)
       /\ dstack' = Append(dstack, s)
       /\ mode' = "destroy"
       /\ UNCHANGED <<sched, tid, parent, awaiting, avail, num_tasks, current,
                      enabled, result, corrupt>>

DestroyHandler(t) ==
  IF ~ IsValidTid(t) THEN Answers("Destroy", t, -1)
  ELSE IF tid[SlotOf(t)] # t THEN Answers("Destroy", t, -2)
  ELSE EnterDestroy(SlotOf(t), children)

Destroying == dstack[Len(dstack)]

\* while ( node = DequeueQueue( &task->children ) ) DestroyHandler( ... )
DestroyChild ==
  /\ mode = "destroy"
  /\ children[Destroying] # <<>>
  /\ EnterDestroy(Head(children[Destroying]),
                  [children EXCEPT ![Destroying] = DequeueQueue(@)])

\* There is a next tid for the slot.
Mut_TidWrapsAround(s) == tid[s] < LONG_MAX
Reusable(s) == tid[s] < LONG_MAX - MAX_TASKS

Mut_AlwaysFree(s) == "FREE"
StateOnceDestroyed(s) == IF Reusable(s) THEN "FREE" ELSE "DESTROYED"

\* Destroy self, and return to the caller.
DestroySelf ==
  LET s == Destroying
  IN  /\ mode = "destroy"
      /\ children[s] = <<>>
      /\ sched' = SetTaskState(sched, tid[s], StateOnceDestroyed(s))
      /\ avail' = IF Reusable(s) THEN EnqueueQueue(avail, s) ELSE avail
      /\ enabled' = IF awaiting[s] >= 0 THEN DisableInterrupt(awaiting[s])
                    ELSE enabled
      /\ num_tasks' = num_tasks - 1
      /\ dstack' = SubSeq(dstack, 1, Len(dstack) - 1)
      /\ mode' = IF Len(dstack) = 1 THEN "kernel" ELSE "destroy"
      /\ result' = IF Len(dstack) = 1
                   THEN [call |-> "Destroy", arg |-> tid[s], value |-> RETURN_STATUS_OK]
                   ELSE result
      /\ UNCHANGED <<descVars, awaiting, current, corrupt>>

-----------------------------------------------------------------------------
\* The outgoing task goes to the end of the queue of its state (ACTIVE has
\* become READY) unless it is no more.  On the first call there is none.
Requeued ==
  IF current = NoTask THEN sched
  ELSE IF sched.state[current] = "ACTIVE"
  THEN EnqueueTask(SetCurrentTaskState(sched, "READY"), current)
  ELSE IF sched.state[current] \in QueuedStates THEN EnqueueTask(sched, current)
  ELSE sched

ScheduleAndActivate ==
  /\ ReadyPriorities(Requeued) # {}
  /\ sched' = ActivateNext(Requeued)
  /\ current' = Head(Requeued.queue["READY"][Best(Requeued)])
  /\ mode' = "user"
  /\ result' = NoResult
  /\ UNCHANGED <<descVars, awaiting, avail, num_tasks, enabled, dstack, corrupt>>

\* GetNextScheduledTask returns NULL and it is written through.
ActivateNobody ==
  /\ ReadyPriorities(Requeued) = {}
  /\ Damage("no task to run")

-----------------------------------------------------------------------------
\* After InitTasks, CreateTask( NULL_PRIORITY, NullProcess ) and
\* CreateTask( LOW_PRIORITY, Init ), before the first ScheduleAndActivate.
\* Of a descriptor not yet used, only tid and state are ever read.
TasksInit ==
  /\ sched = [state |-> [s \in Slots |-> IF s < 2 THEN "READY" ELSE "FREE"],
              priority |-> [s \in Slots |-> IF s = 0 THEN NULL_PRIORITY
                                            ELSE IF s = 1 THEN LOW_PRIORITY
                                            ELSE HIGHEST_PRIORITY],
              queue |-> [st \in QueuedStates |-> [p \in Priorities |->
                           IF st # "READY" THEN <<>>
                           ELSE IF p = NULL_PRIORITY THEN <<0>>
                           ELSE IF p = LOW_PRIORITY THEN <<1>>
                           ELSE <<>>]]]
  /\ tid = [s \in Slots |-> IF s < 2 THEN s ELSE s - MAX_TASKS]
  /\ parent = [s \in Slots |-> -1]
  /\ children = [s \in Slots |-> <<>>]
  /\ awaiting = [s \in Slots |-> NoInterrupt]
  /\ avail = [i \in 1 .. MAX_TASKS - 2 |-> i + 1]
  /\ num_tasks = 2
  /\ current = NoTask
  /\ enabled = {TimerInterrupt}
  /\ mode = "kernel"
  /\ dstack = <<>>
  /\ result = NoResult
  /\ corrupt = NotCorrupt
=============================================================================
