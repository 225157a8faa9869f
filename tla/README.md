# Verification of rtk

rtk is a small real-time kernel for an ARM board: tasks with priorities, synchronous
message passing in the style of QNX (Send, Receive, Reply), events for interrupts, and a
user level of servers (names, clock, serial lines) that are ordinary tasks.  This
directory holds TLA+ models of it, the TLC configurations that check them, and proofs
that TLAPS checks.

All paths below are relative to `src/`.

## 1. Inventory

| Component | State | Operations | Interacts with |
|---|---|---|---|
| queue library (`lib/queue.c`) | first and last, the links of the nodes | enqueue, dequeue, remove a node | embedded in descriptors and message nodes |
| tasks and scheduler (`kernel/task.c`, `task_queue.c`) | the descriptors, lists per state and priority, free list, the family tree, the current task, the enabled interrupts, `num_tasks` | CreateTask, ExitTask, DestroyHandler, Nop, the getters and setters, AwaitEventHandler, HandleIrq, ScheduleAndActivate, TasksStatsHandler | every handler ends in ScheduleAndActivate |
| message passing (`kernel/communication.c`) | one message node and one queue of nodes per descriptor | SendProxy, ReceiveProxy, CompleteReceive, ReplyProxy | changes tasks' states through SetTaskState |
| kernel loop and traps (`kernel/rtk.c`, `arch/arm`) | registers and stacks | svc_entry, irq_entry, Activate | calls one handler per trap, interrupts disabled |
| name server (`usr/nameserver.c`, `lib/hashtable.c`) | `nameserver_tid`, the hash table | RegisterAs, WhoIs | everybody calls it |
| clock server (`usr/clockserver.c`, `lib/sortedlist.c`) | `num_ticks`, the list of delayed tasks | Time, Delay, DelayUntil, a tick | TimerNotifier, the timer |
| serial server (`usr/serialserver.c`, `lib/cyclicbuffer.c`) | two cyclic buffers, who is awaited | Putc, Getc, an interrupt | notifier, courier, two secretaries, a UART |
| semaphore server (`usr/semaphore.c`, `lib/osacquire.c`) | counters, queues of tids | SemV, SemP | started by nobody |
| rock-paper-scissors (`usr/rps.c`) | games by tid, who is unmatched | sign up, play, quit | its clients |
| shell (`usr/shell.c`) | a line being edited, what the terminal shows of it | keys, commands | serial and name server, the commands |
| top (`usr/top.c`) | a child task | start, `q` | creates and destroys a client of the servers |

What is hard in it:

* **Shared slots.**  A descriptor, a message node and a message queue belong to a slot, not
  to a task.  Destroy and Create reuse the slot while others still hold tids, nodes and
  queue entries of its former task.
* **One node, many lists.**  A task is in exactly one list, chosen by its state and
  priority at the time; each path that changes either has to relink it.
* **Recursion over what is being changed.**  DestroyHandler walks a list of children that
  its inner calls unlink, frees them, and may be destroying its own caller.
* **Boundaries.**  Tids grow until they would overflow; descriptors run out; a hash table
  is read beyond its end; `int` time can wrap.
* **Servers between callers and devices.**  A tick can come while the last is being
  reported; a character while the courier is away; a client can be destroyed while a
  server holds its tid.
* **Everything is somewhere else.**  A blocked task's return value is written into its stack by
  whoever wakes it, an interrupt may come between any two instructions of a system call's stub, and
  the timer may start again between being read and being used.

What makes each part correct is stated as the properties of section 3; `PROJECT.json`
lists the hazards with the line where each bites.

## 2. Modules

```
Queues            the lists, as sequences            QueueHeap: their pointers
 Tasks            descriptors, scheduler, interrupts, destruction     task.c
  Communication   Send, Receive, Reply                                 communication.c
   Kernel         system calls, interrupts, activation, Next           rtk.c, arch/arm
    KernelProperties   what is checked                MCKernel: the instances
Rendezvous        the promise of Send, Receive and Reply (abstract)
 ContextSwitch    registers, stacks, return values, times              MCContextSwitch
 Ipc              the same with messages, as a user task calls it
  ClockServer     MCClockServer
  NameServer      over HashTable; NameRegistry is its abstract form    MCNameServer
  SerialServer    over CyclicBuffer                                    MCSerialServer
  SemaphoreServer over QueueHeap; CountingSemaphore is abstract        MCSemaphoreServer
  Rps             MCRps
LineEditor        the shell; TextLine is its abstract form             MCLineEditor
Lemmas and theorems:
KernelProofs      the operations of lib/queue.c on sequences; lists, tids,
                  family; who is in which state, the rendezvous
ContextSwitchProofs
IpcProofs         what Send, Receive and Reply do to a server and its callers
 NameServerProofs, ClockServerProofs, SerialServerProofs, RpsProofs
 SemaphoreServerProofs                                with the pointers of lib/queue.c
```

### The kernel

`Kernel` is one machine with a processor: `mode` is "user" while the task `current` runs,
"kernel" once a trap has been handled and before ScheduleAndActivate, and "destroy" inside the
recursion of DestroyHandler.  Each system call and the interrupt is an action that does all
its handler does; `Activate` is ScheduleAndActivate, which requeues the task that was running and picks
the next one.  As handlers run with interrupts disabled, this split adds no interleaving; it only shows the
state between, as the code has it, with the current task in no list.

| In the code | In the model |
|---|---|
| `task_descriptors[slot]` | functions of `Slots`: `tid`, `parent`, `children`, `awaiting`; `sched.state` and `sched.priority` |
| `scheduler.states[s].queues[p]`, `available_descriptors` | `sched.queue[s][p]` and `avail`, sequences of slots |
| a tid | a number, the slot being `tid % MAX_TASKS`; `LONG_MAX` is where reuse stops |
| `msg_queues[slot]`, `msg_queue_nodes[slot]` | `msgq[slot]`, `nodes[slot]`: `from`, `to`, and in `put` whose `put_tid` and `receive_buffer` it holds |
| a message | nothing but who sent it to whom, and into whose buffers it was written (`delivery`) |
| return values | `result`: the call, its argument, its value |
| damage to the lists, and a NULL task activated | `corrupt`: what happened; the model is not followed further (`Damaged`), and the invariants about lists are stated of `Sound` states |

The uninitialised `put_tid` and `receive_buffer` that SendProxy copies from its stack are
`Garbage` in the model; a delivery through them goes to any slot's buffers, or to none.

`DestroyHandler` is recursive in the code and a stack of frames in the model
(`dstack`, with `EnterDestroy`, `DestroyChild`, `DestroySelf`): one step per entry, child and exit.

`Calls`, `SharedEvents` and `CleanDestroy` restrict what the tasks of an instance do, never
what a handler does: which calls they make, whether two may await one event, and whether
Destroy is only used on tasks with no message under way.

### Registers and stacks

`Kernel` has tasks that call; `ContextSwitch` has the instructions between.  It keeps, over the same
`Rendezvous`, a stack per task, the registers on the processor, the saved sp and pc, and the timer.
A call is a step for its stub (registers are pushed, the call is put into them), one for svc_entry up to
the handler, and one for the handler with all that follows it; an interrupt is a step for
irq_entry with HandleIrq and one that saves.  It can come between the stub's push and its svc, and
then the task has two frames.  The stack is a sequence of words, of which a frame takes two: r0, and one for all the other
registers.  `due` notes, where a call is decided, what its caller has to find in r0: the models of who is
woken and of how the value travels are thereby independent of each other.

### The servers

The servers are modelled over `Ipc`, that is over the promise `Rendezvous`, one step for
each system call and one for the work between two.  The kernel implements
`Rendezvous` (`ImplementsRendezvous`), with one exception that the runs also show: with two senders
queued Receive misplaces its buffers (`ReceiveBuffer`).  The server models describe
the servers given a Receive that works; on the kernel as it is, a burst of two senders to a busy
server hits that fault first.

* `ClockServer`: the loop over Receive is `Expire` (the while loop at its end, one step per
  reply), `ReceiveRequest` and `Handle`.  The timer expires at any time; `lost` counts the
  expiries that came while the notifier was elsewhere.  Arithmetic wraps at a small
  `INT_MAX`.  Clients may be destroyed at any time they are not in the server's inbox, as Top is.
* `NameServer` and `HashTable`: names are represented by their hashes, all different from 0.
  Reading beyond the table finds keys that hash anywhere and arbitrary data (`beyond`).
* `SerialServer`: one channel after set-up.  Only a task of the best priority that can run
  takes a step (`Active`), with the priorities of the code.  The UART has its FIFOs disabled, as
  after reset: a character is received when nothing else is held; writing the
  data register clears the transmitter's interrupt and sending the character raises it.
* `SemaphoreServer` and `QueueHeap`: the queues are the linked lists of the code, with nodes[] uninitialised
  at first.  `Waiting` walks them; `CountingSemaphore` is what they amount to.  Up to one client is destroyed.
* `Rps`: the replies that a request leads to wait in `outbox`, one step each.  `thrown` and `told` record
  what each player has thrown and been told.
* `LineEditor`: the byte array with its uninitialised contents, memmove byte by byte in the direction that
  string.c chooses, and the row of the terminal, written cell by cell.  A key is one step, an arrow three.

Operators named `Mut_...` are plausible mistakes in the definition that follows.
No specification uses them; they show that the properties notice the mistake.

## 3. What is checked

Passing runs (two workers, each within two to three minutes):

| Run | Instance | Properties |
|---|---|---|
| LifeCycle | 4 descriptors, tids up to 7, every priority argument; Create, Exit, Destroy, SetMyPriority, GetTasksStats | `SchedulerConsistent`: every task is in the list of its state and priority, once. `FreeListConsistent`, `FamilyTree`, `BestPriorityRuns`, `DeathIsFinal` |
| Messages | 4 descriptors, tids up to 7; Create, Exit, Send, Receive, Reply, and Destroy of whoever has no message under way | `WaitingReceiverHasNoMail` (no lost wake-up), `SenderNodes`, `ReceivedByAddressee`, `SendCompletes`, `SenderRunsBeforeReplier`, `ImplementsRendezvous`, `NeverDamaged`: reuse of slots is harmless as long as nobody is destroyed with a message under way |
| Events | 4 descriptors, timer and one UART; fair | `AwaitedEventEnabled`; `EventWakesItsWaiter`: who awaits an event is woken by its interrupt and nothing else, and an interrupt does wake somebody who awaits it. `StatsAgree`, `ParentAnswer`, `NoStarvation`. Here no task sends or receives; that no message wakes who awaits an event is the theorem `EventsServed` |
| Switch | 2 tasks and the null task, 2 stack depths, a quantum of 1 | `ReturnValueArrives`, `RestIntact`: who goes on has its registers, its stack and the value it is due. `ChargeWithinQuantum`: no difference of times wraps |
| Clock | 2 clients, delays of 0 to 2, `INT_MAX` 4, 3 expiries; fair | `ClockConsistent`: counted + lost + under way = expired, and the list holds who is delayed, in order. `NotBeforeDeadline`: nobody returns before as many ticks were counted as it asked for. `DueReturns` |
| Names | 2 clients, 5 names, table of 4, neighbourhood of 2; fair | `ImplementsRegistry` (refinement of `NameRegistry`): no registration is lost but to its own name or another one of its bucket. `WhoIsAnswers`, `RegisterAsAnswers`, `CallsReturn` |
| Serial | buffers of 2, 2 callers of Putc and 3 characters, 1 of Getc and 3 arrivals; fair | `ChannelConsistent`: characters leave in the order of the calls, and the server knows who waits. `ReceivedInOrder`, `GetcReturns` |
| Semaphore | 4 clients, one of which may be destroyed, 2 semaphores of 1 unit; fair | `QueuesConsistent`: counters, pointers and who waits agree. `ImplementsSemaphore` (refinement of `CountingSemaphore`). `SemVReturns`: nobody returns from SemV without a unit, and the first to wait does return when a SemP is under way |
| Rps | 3 players, who stop at 3 points; fair | `GamesConsistent`, `ResultsMatchThrows`: each k-th result is that of both k-th throws. `CallsReturn` |
| Line | a buffer of 5 that holds anything, 2 characters and all other keys | `ImplementsTextLine` (refinement of `TextLine`), `ScreenShowsLine` |

Each also has a type invariant, alone or as the first part of another.

Why the bounds are enough.  Four descriptors are init, the null task and two more: enough
for a parent, a child and a grandchild, for two senders to one receiver, and for running out.
Tids up to 7 (or 6, or 8) let every slot be reused once or twice and then be retired.  The
priorities collapse to those that are compared.  Two clients of a
server meet in its inbox; five names in four buckets collide and the last
bucket reads beyond the table; three arrivals overflow a buffer of two; a wrapped deadline needs
only `data + num_ticks > INT_MAX`.  Four clients make queues of three, of which the first, the middle and the last
differ; of three players one is left over; a player may be a round ahead of the other or has quit.  A line of four characters has a beginning, a middle and
an end on both sides of the cursor.  In `Switch` a stack is a word deeper or not than at the last trap, and the
timer is at its end or before.

Violations, each a disagreement between the code and what its documentation says:

| Run | Property | What happens |
|---|---|---|
| ReceiveBuffer | `ReceivedIntoOwnBuffer` | two senders are queued; Receive stores its buffers in the last node (communication.c:87) and CompleteReceive uses the first one, whose pointers nobody set |
| SerialStall | `PutcReturns` | the server starts a buffered character without noting it (serialserver.c:251). Its interrupt is then never cleared and keeps notifier, courier and server busy; and a Putc that filled the buffer is not replied to |

Other disagreements met while modelling.  The models follow the code in these, and no run is
spent on them:

* A FREE descriptor keeps its tid, so that a second Destroy of it is accepted (task.c:346; include/task.h:124 has an
  error for it): its state -1 indexes the scheduler and the descriptor is freed twice.
* Destroying a task with a message under way.  Its node stays in the receiver's queue, and Receive then puts a free
  descriptor into the scheduler (communication.c:106); and a new task receives the mail of the destroyed one whose
  slot it has.  With `CleanDestroy = FALSE` in `Messages.cfg`, TLC finds `NeverDamaged` and
  `ReceivedByAddressee` violated.  TopServer can do this (top.c:87): Top spends its time in Putc.
* A Receive that finds a message writes the size through the sp of the task's last trap (communication.c:108), before
  the present one is saved.  If the task is deeper in its stack now, a word of the functions in between is overwritten; `RestIntact`
  excepts that task (`careless`).
* Only the first of two tasks that await one event is woken and the line is masked; the other sleeps until somebody awaits
  it again (task.c:301).
* GetPriority returns the task's state (task.c:92), not its priority (include/task.h:93).
* IsValidPriority has its bounds the wrong way round (task.c:281): SetPriority refuses every priority.
* `num_tasks` is decremented by Exit and again by Destroy (task.c:129, 375), so
  `num_alive_tasks` is too small after a ZOMBIE has been destroyed.  `StatsAgree` therefore is checked without Destroy.
* `awaiting_event_id` is never reset (task.c:371): destroying a task that once awaited an event
  disables the line, even if another task awaits it, or it is the timer's.  `AwaitedEventEnabled` is checked without Destroy.
* The serial server takes the character that it popped at serialserver.c:251 for sent: the next Putc writes the data
  register while the transmitter is busy (serialserver.c:283) and, with the FIFOs disabled, that character is lost.
  `StartTransmitter` overwrites `tx` accordingly; `TransmittedInOrder` is about what is written to the register.
* Destroying the null task leaves nothing to activate; the model's `corrupt` records it.
* A name overwrites any other of its bucket (hashtable.c:70 writes `nodes[bucket]`, not
  `nodes[insert_at]`), although include/nameserver.h:13-14 promises that a registration
  lasts until it is overwritten under its name.  `NameRegistry` permits this loss and no other, and does not require it: with an
  insertion that writes the node it has found, `ImplementsRegistry` holds as well (`TypeOK` then does not: it says that a key is in its own bucket,
  which is what the lookups of this table rest on).  So the property does not find this disagreement; it bounds it.
* With its neighbourhood full, a name that is already in the table is refused (hashtable.c:66): `RegisterAsAnswers` permits it.
* A lookup in one of the last buckets reads beyond the table (hashtable.c:87): `WhoIsAnswers` lets it answer anything about a name that is not registered.
* DelayUntil returns when the time equals its argument (clockserver.c:140); include/clockserver.h:31
  says "greater than".  `NotBeforeDeadline` therefore demands no more than that the time has been reached.
* A Delay by more than `INT_MAX - num_ticks` returns at once: its deadline is past (clockserver.c:121).  `NotBeforeDeadline`
  excepts it (`DeadlineWrapped`).
* The clock server's `nodes[MAX_TASKS]` is indexed with the tid itself (clockserver.c:120).
* SemV is replied to only if it had to wait, by another task's SemP, and SemP never (semaphore.c:58-74): who acquires a free
  semaphore, or releases one, does not go on.  Nothing in the repository says when the two calls return.  `SemVReturns` allows a reply to either, and
  to a SemV only with a unit; with a server that replies to a SemV that takes a free unit it holds as well.
* A unit released while the first waiter has been destroyed is lost (semaphore.c:70).  `CountingSemaphore` hands it over without
  asking whether the waiter is alive.
* When a player of rps.c quits while its opponent waits, the answer QUIT goes to the one who quits (rps.c:200; the text at line
  193 says "informing" of the opponent), and the opponent waits for ever: `CallsReturn` excepts it.  Rock and scissors
  against each other are a win for both (rps.c:82: 2 > 0).
* After a form feed the shell prints its prompt, not the line that is still in its buffer (shell.c:91-97): `ScreenShowsLine`
  excepts it.  A shell whose Receive has failed prints that it aborts, and goes on (shell.c:189-191).

### Fairness

* `Events`: weak fairness of the kernel's own steps (a trap once taken is handled to its end and a
  task activated) and of the timer's interrupt, which is periodic (system.c: TimersInit)
  and whose line nobody disables for good in this instance.  Nothing is assumed of the tasks, which may compute for ever.
* `Clock`: weak fairness of server and notifier.  They have the two best priorities, are
  never destroyed, and others of these priorities wait for requests.  Neither timer nor clients are assumed to do anything.
* `Names`: weak fairness of the server, of better priority than those it serves.
* `Semaphore`: weak fairness of the server, which is never destroyed.  Clients need not call.
* `Rps`: weak fairness of the server and of each player, none of which computes for ever between two calls.
* `Serial`: weak fairness of every member of the staff, of the interrupt and of the transmitter.
  A step of a secretary is only enabled while nobody of a better priority can run, so weak
  fairness does not promise that it ever runs: `GetcReturns` has the exception `Unacknowledged` for that reason.

### Deadlock

Some runs allow the system to stop.  `ReceiveBuffer`: no timer interrupts the null task.  The serial runs: once the server
owes a reply nobody has anything to do.  `Semaphore`: who is not replied to never calls again.  `Rps`: in the end the players have quit.
`Line`: the shell exits.

## 4. What is proved

Every theorem holds for all values of the constants that the assumptions of its modules allow: any number of
descriptors, bound on tids, set of interrupts, set of priorities, number of clients, size of table and so on.

| Theorem | Statement | In |
|---|---|---|
| `TypeCorrect` | `Spec => []TypeOK` of the kernel | `KernelProofs` |
| `SchedulerAgrees` | `Spec => []SchedulerConsistent` | |
| `FreeListAgrees` | `Spec => []FreeListConsistent` | |
| `TidsStayInRange` | `Spec => []TidsInRange` | |
| `FamilyTreeAgrees` | `Spec => []FamilyTree` | |
| `NoLostWakeUp` | `Spec => []WaitingReceiverHasNoMail` | |
| `SendersFiled` | `Spec => []SenderNodes` | |
| `BestTaskRuns` | `Spec => []BestPriorityRuns` | |
| `ParentAnswers` | `Spec => []ParentAnswer` | |
| `DeadForGood` | `Spec => DeathIsFinal` | |
| `SendsComplete` | `Spec => SendCompletes` | |
| `EventsServed` | `Spec => EventWakesItsWaiter` | |
| `SenderFirst` | `Spec => SenderRunsBeforeReplier` | |
| `EventsEnabled` | `OneWaiterEach => (Spec => []AwaitedEventEnabled)` | |
| `StatsCorrect` | `"Destroy" \notin Calls => (Spec => []StatsAgree)` | |
| `KernelUndamaged` | `OrderlyDestroy => (Spec => []NeverDamaged)` | |
| `AddresseeReceives` | `OrderlyDestroy => (Spec => []ReceivedByAddressee)` | |
| `KernelImplementsRendezvous` | `OrderlyDestroy => (Spec => ImplementsRendezvous)` | |
| `QueueOperations`, `OtherQueuesUntouched` | what `lib/queue.c` does to the pointers is what `Queues` does to a sequence | `SemaphoreServerProofs` |
| `ChargesStayWithinQuantum` | `Spec => ChargeWithinQuantum` | `ContextSwitchProofs` |
| `ReturnValuesArrive` | `Spec => []ReturnValueArrives` | |
| `TheRestIsKept` | `Spec => []RestIntact` | |
| `NamesTyped` | `Spec => []TypeOK` of the name server | `NameServerProofs` |
| `WhoIsCorrect`, `RegisterAsCorrect` | `Spec => WhoIsAnswers`, `Spec => RegisterAsAnswers` | |
| `NameServerImplementsRegistry` | `Spec => ImplementsRegistry` | |
| `ClockBooks` | `Spec => []ClockConsistent` | `ClockServerProofs` |
| `DelaysLastLongEnough` | `Spec => NotBeforeDeadline` | |
| `CounterCountsWaiters` | `Spec => []QueuesConsistent` | `SemaphoreServerProofs` |
| `ServerIsSemaphore` | `Spec => ImplementsSemaphore` | |
| `NoReturnWithoutUnit` | `Spec => ReturnsWithUnit`, the first half of `SemVReturns` | |
| `ChannelBooks` | `Spec => []ChannelConsistent` | `SerialServerProofs` |
| `GetcInOrder` | `Spec => ReceivedInOrder` | |
| `GamesAreConsistent` | `Spec => []GamesConsistent` | `RpsProofs` |
| `ResultsAreRight` | `Spec => []ResultsMatchThrows` | |

The kernel's invariants speak of undamaged states: once `corrupt` is set, as a second Destroy of a FREE
descriptor sets it, they claim nothing.  Five theorems have a hypothesis on what tasks do, each because the code does
not keep the property without it:

* `OrderlyDestroy == CleanDestroy \/ "Destroy" \notin Calls`: nobody is destroyed with a message under way, nor twice.  Otherwise
  a FREE descriptor gets into the scheduler, or the next task of a slot receives the mail of the last.
* `OneWaiterEach == ~ SharedEvents /\ "Destroy" \notin Calls`: the interrupt of an event wakes one waiter and masks the line for the other;
  and destroying a task masks the line it once awaited.
* `"Destroy" \notin Calls` for `StatsAgree`: `num_tasks` is decremented twice for a task that exits and is destroyed.

`LifeCycle`, `Messages` and `Events` are instances in which these hypotheses hold where they are needed.

**KernelProofs, first half.**  None of its theorems is inductive alone.  They follow from `Invariance`, `Spec => []IInv`, with

    IInv == TypeOK /\ SchedulerConsistent /\ Existence /\ Modes /\ NodeSlots

* SchedulerConsistent needs that a handler which changes a task's state finds it where it
  should be: that its tid names its slot (`TidsValid`) and that the running task is in no list while a handler runs
  (`Modes`).
* In the middle of DestroyHandler the tasks being destroyed have been unlinked from their parents'
  lists and still exist; `Recursion` says that none of them is dead yet.  That the
  recursion does not meet itself follows from `Ranked`: tasks can be given ranks, a child above its parent, such that the recursion climbs them.
* CompleteReceive changes the states of the tasks that its node names: `NodeSlots` says that the node of a
  sender names its own slot and the one it is queued for.

The argument: `Init => IInv` by computation; each action of Next is decomposed into the
operations on lists that it is made of, for which there are lemmas at the start: what enqueuing, removing and taking the first does to who
is linked, once (`EnqueueProperties`, `RemoveProperties`, `DequeueProperties`), and what EnqueueTask, RemoveTask and SetTaskState do
to SchedulerConsistent; then one step per action and per conjunct it can disturb.

**KernelProofs, second half,** classifies what a step does to each task.  A step other than Send and Receive is `Quiet`: it
leaves nodes and queues alone, each task stays the same or makes one of seven moves (`Born`, `Woken`, `Answered`
and so on), and all but one only give way to one another.  Send and Receive are `Talks`: each task stays, blocks, is received or resumes.
`QuietStep`, `SendMail` and `ReceiveMail` prove that; three action properties are then read off the moves.

* WaitingReceiverHasNoMail and SenderNodes follow from `MailInv`: a waiting receiver's queue is empty and its node holds its own
  buffers; a sender that is not received yet is linked in the queue its node names, with its own tid; and one that has been received, or
  waits itself, is linked nowhere.  The last is what lets a Send find its node free.  It is not what the code
  looks at: SendProxy overwrites the node without a test.  Nodes of destroyed senders are why the invariant says nothing of dead tasks.
* BestPriorityRuns and ParentAnswer need `TurnsInv`: nobody but the current task is ACTIVE, and a result is forgotten before user
  code runs again.  SenderRunsBeforeReplier adds `ReplyInv`: between Reply and the choice of the next task the sender is READY.
* EventsServed: of the seven moves `Woken` is the only one out of EVENT_BLOCKED of a task that lives on, and only HandleIrq makes it, to one task, of the line it
  awaits.  That an interrupt finds a waiter where there is one (`WaiterWoken`) needs SchedulerConsistent: HandleIrq looks for it in the lists of EVENT_BLOCKED tasks.
* AwaitedEventEnabled is not inductive: an interrupt disables its line and wakes one task.  `EventInv` adds that no other awaits it.
* StatsAgree: the places of all lists are put in one-to-one correspondence with the tasks that exist (`WalkListsAll`), and `CountInv`
  says that `num_tasks` is the number of those alive.
* The rendezvous: `CleanInv` says that whoever is linked in a queue is a living sender, blocked in the Send that its node describes,
  that no task under destruction is in a queue or has one, and that the null task stays.  With it every step but Send and Receive changes the phase of one task, a Send is
  SendToWaiting or SendToBusy, a Receive is ReceiveNothing or ReceiveFirst, Reply is ReplyTo, and the rest are Start, Stop or
  stuttering (`StepSimulates`).  That the node taken is the first of the queue, and its sender alive, is what damage would break.

**ContextSwitchProofs.**  `TimeInv` says that in user mode the timer shows no more than `last_activate_at`,
unless its masked interrupt status says that it has started again; the difference that is charged
is then between 0 and the quantum.  `StackInv` describes every stack by what its task is doing: on what the program has there, the frame of
a stub, that of an interrupt, or both, and nothing in between has changed (`Whole`, for tasks that are not `careless`); and for every task, careless or not, the sp that the
kernel has saved points at the top, so that a handler of another task which writes through it writes the r0 that will be popped (`Held`).

**IpcProofs** says what each of Send, Receive and Reply does to the phase, message and inbox of every task, given that
whoever is in an inbox is blocked in Send and is there once.  The proofs of the servers are built on these lemmas alone.

**NameServerProofs.**  `NameInv`: every client that is blocked has sent a request, the server that handles one
has it from a client that is waiting, and a name is in the node of its own bucket or nowhere (`TableInv`), because that is the node an insertion writes.
The last is what makes the first match of a lookup the only one, and what `Register` permits to be lost, a name of the same bucket, the whole of what an insertion destroys.

**ClockServerProofs.**  `ClockInv` has six parts.  ClockConsistent needs `NotifierInv` (the tick is under way exactly while the notifier has it), and
`ListInv`: the list is sorted and its entries belong to different clients, all of them received and not being handled.  NotBeforeDeadline needs a fact about the time of the call, which the server does not know: each entry of
a Delay carries `DeadlineOK`, that its deadline is at least `data` ticks after `since`, the value of `num_ticks` when the client called, for the request
is handled later than it is sent and the count never goes back.  A deadline that has wrapped is negative, and nothing is claimed of it.
`InsertKeepsOrder` says of the sorted list, for every length, that the new node is put between those before and those after it.

**SemaphoreServerProofs** starts with the pointers: `Represents` relates those of a queue to a sequence, and `QueueOperations` says that QueueEnqueue,
QueueDequeue and QueueRemove keep it, for queues of any length, without following any induction: the sequence is given and its links are
compared position by position.  `WalkIs` says that the walk along the links, long enough, is that sequence; that it is long enough follows from its being
without repetition (`QueueIs`).  `SemInv` then speaks of sequences: the counter is minus the length of the queue, the queues share no client (without this an operation
on one would change the links of another), and who is in a queue has called SemV on it and is not being handled.  Of destroyed clients
it claims the same, which is why their nodes do no harm.  `EnqueueDoes` and `DequeueDoes` translate the two handlers; the refinement compares them with StartWaiting and
HandOver, or with TakeUnit and ReturnUnit when nobody waits.

**SerialServerProofs** follows the characters.  `SerialInv` says where each of them is.  `PipelineInv`: the characters of Putc are those accepted (written or in the
buffer), at most one that the transmit secretary carries, and one with each caller in its inbox, numbered on from there in that order.  What the secretary
carries depends on three places at once, its own, its message's and the server's: `Carries` ends at the very step that pushes the character, while the secretary is still
waiting for the reply.  `TransmitterInv`: the buffer continues where the transmitter is, and while it is full the secretary is
left waiting (`LeftWaiting`), so that a push never finds it full, which CyclicBufferPush would not report to anybody.  `OrderInv` orders the
characters received along their way, from the callers over the secretary's last answer and the buffer to the UART.  `WaiterInv` says that
awaiting_receive means a secretary that has been handled and not replied to, which lets TakeCharacter reply without looking at the buffer.
`PushDoes` and `PopDoes` say what the two operations of `lib/cyclicbuffer.c` do to the i-th element, for a buffer of any size and any place of its first element.

**RpsProofs.**  Neither property of `Rps` is inductive; `RpsInv` is.  `RequestInv` and `EntryInv` tie what a player has done to its entry in games[]: no
opponent and a state that is still garbage until its signup is handled, WAITING exactly while it is left waiting in RpsPlay, QUIT from the moment its last request is
handled.  `OutboxInv` says who the replies left of one request are for: tasks that wait, one reply each, but for a player that has quit, which may get two and is refused the second.
`CountInv` makes a player one throw ahead of its results exactly while it is in RpsPlay, and RPS_QUIT its last result.  The heart is `RoundsInv`: with a result counted
as soon as it is decided, still in the outbox, two opponents have equally many, until one of them learns that the other has quit.  Without it the choice in
the entry of a WAITING player could belong to another round than the throw it is compared with (`SameRound`, `SecondThrowKeeps`).  And since a player's results are compared with throws of its
opponent that go on being made, `Right` is stated so that later steps keep it (`RightKept`): throws and the news of a quit are for ever, and who has quit is told nothing any more (`Forward`).
`PlayFacts` shows on the way that the test for a player that is not ACTIVE never ignores a request of an RpsClient.

Only model-checked: `ScreenShowsLine` and `ImplementsTextLine` of `LineEditor`, because they rest on what memmove, a fold, computes for every length, which
is an induction over data; and liveness (`NoStarvation`, `DueReturns`, `CallsReturn`, `GetcReturns`, the second half of
`SemVReturns`), as the provers at hand have no ENABLED.

## 5. Not modelled, and what comes next

* The call GetTaskStats, which copies one descriptor to its caller and changes nothing (of any tid, whose task may be gone: task.c:409);
  the counters num_activates and allowed_user_time, which only grow and are only shown; the kernel's own
  stack; boot (`arch/arm/boot.s`), which runs once, in a straight line; bwputc and bwgetc, which wait busily.
* The contents of messages where no server decides by them.  The copying of a message that is longer than its
  receiver's buffer is cut off, which nothing notices.
* Strings, printing, sorting and random numbers (`lib/string.c`, `print.c`, `stdlib.c`, `random.c`): sequential functions on bytes,
  except for the memmove that the shell uses.
* What Top shows; EchoServer, WhoIsServer, RandServer, each a loop of Receive, print and Reply; Init, a list of Creates; the test tasks.
* Serial line: the exchange of SerialConfig messages at the start, channel 2, and characters that arrive while the receiver's register is full.
* RpsCmdServer and RpsCmdClient, players who never quit: the former throws what a command tells it to.  Their throws have no bound that a
  finite instance could keep without holding up their opponents.
* Shell: the colours of the prompt and the value before it; control characters without a meaning.
* Clients with tids of MAX_TASKS or more, for which ClockServer and SemaphoreServer write beyond their arrays.

Next: Top with ClockServer, the client being any of several incarnations of one slot.
