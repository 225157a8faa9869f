----------------------------- MODULE ClockServer -----------------------------
(***************************************************************************)
(* The clock server of usr/clockserver.c, its timer notifier, and the      *)
(* tasks that call Time, Delay and DelayUntil.  Each system call of the    *)
(* code is a step of its own; what a task does between two of them only    *)
(* touches its own memory.                                                 *)
(*                                                                         *)
(* Clients are told apart by tids below MAX_TASKS, their slot's first: the *)
(* code indexes nodes[MAX_TASKS] with the tid itself.                      *)
(***************************************************************************)
EXTENDS SequencesExt, Ipc

CONSTANTS
  Clients,    \* the tasks that call the server
  DelayArgs,  \* the arguments they pass
  INT_MAX,    \* of the int that holds times, a small one
  MaxElapsed  \* bound: the timer expires this often

Server == "clock-server"
Notifier == "TimerNotifier"

ASSUME ClockAssumption ==
  /\ Tasks = Clients \cup {Server, Notifier}
  /\ {Server, Notifier} \cap Clients = {}
  /\ DelayArgs \subseteq 0 .. INT_MAX
  /\ INT_MAX \in Nat /\ MaxElapsed \in Nat /\ MaxElapsed <= INT_MAX

VARIABLES
  num_ticks,
  delayed_queue, \* of [tid, priority] records, where priority is a time
  server,        \* where ClockServer is: "register", "create", "expire", "handle"
  notifier,      \* where TimerNotifier is: "await", "awaiting", "send", "sent"
  elapsed,       \* how often the timer has expired
  lost,          \* how often while the notifier was not waiting for it
  since          \* num_ticks, at each client's latest call

clockVars == <<num_ticks, delayed_queue>>
vars == <<ipcVars, clockVars, server, notifier, elapsed, lost, since>>

\* Signed addition, the way two's complement machines do it.
Mut_Unbounded(n) == n
Wrapped(n) == IF n > INT_MAX THEN n - 2 * (INT_MAX + 1) ELSE n

\* Before the first node of a greater priority.
Mut_Appended(lst, node) == Append(lst, node)
SortedListInsert(lst, node) ==
  LET at == CHOOSE i \in 1 .. Len(lst) + 1 :
              /\ \A j \in 1 .. i - 1 : lst[j].priority <= node.priority
              /\ i <= Len(lst) => lst[i].priority > node.priority
  IN  InsertAt(lst, at, node)

-----------------------------------------------------------------------------
(* Clients: Time, Delay, DelayUntil; Top is destroyed at any moment.       *)

Requests == {[type |-> "CS_TIME", data |-> 0]}
  \cup [type : {"CS_DELAY", "CS_DELAY_UNTIL"}, data : DelayArgs]

\* WhoIs finds the server once it has registered; before, the call fails.
Call(c) ==
  /\ server # "register" /\ Runs(c)
  /\ \E req \in Requests : Send(c, Server, req)
  /\ since' = [since EXCEPT ![c] = num_ticks]
  /\ UNCHANGED <<clockVars, server, notifier, elapsed, lost>>

ClientDestroyed(c) ==
  /\ Destroyed(c)
  /\ UNCHANGED <<clockVars, server, notifier, elapsed, lost, since>>

-----------------------------------------------------------------------------
(* TimerNotifier and the timer's interrupt.                                *)

AwaitTimer ==
  /\ notifier = "await" /\ Runs(Notifier)
  /\ notifier' = "awaiting"
  /\ UNCHANGED <<ipcVars, clockVars, server, elapsed, lost, since>>

\* The kernel clears the timer's interrupt whether or not a task awaits it.
TimerExpires ==
  /\ elapsed < MaxElapsed
  /\ elapsed' = elapsed + 1
  /\ notifier' = IF notifier = "awaiting" THEN "send" ELSE notifier
  /\ lost' = IF notifier = "awaiting" THEN lost ELSE lost + 1
  /\ UNCHANGED <<ipcVars, clockVars, server, since>>

SendTick ==
  /\ notifier = "send"
  /\ Send(Notifier, Server, [type |-> "CS_TICK", data |-> 0])
  /\ notifier' = "sent"
  /\ UNCHANGED <<clockVars, server, elapsed, lost, since>>

\* Send returns.
TickSent ==
  /\ notifier = "sent" /\ Runs(Notifier)
  /\ notifier' = "await"
  /\ UNCHANGED <<ipcVars, clockVars, server, elapsed, lost, since>>

-----------------------------------------------------------------------------
(* ClockServer.                                                            *)

Register ==
  /\ server = "register"
  /\ server' = "create"
  /\ UNCHANGED <<ipcVars, clockVars, notifier, elapsed, lost, since>>

CreateNotifier ==
  /\ server = "create"
  /\ Started(Notifier)
  /\ notifier' = "await"
  /\ server' = "expire"
  /\ UNCHANGED <<clockVars, elapsed, lost, since>>

\* The head of the list need not wait any longer.
Mut_DueOnTheTick == delayed_queue # <<>> /\ Head(delayed_queue).priority = num_ticks
Due == delayed_queue # <<>> /\ Head(delayed_queue).priority <= num_ticks

\* While a client is due it is replied to; delayed_queue is assigned after
\* the loop, which nobody else can tell.
Expire ==
  /\ server = "expire" /\ Due
  /\ Reply(Head(delayed_queue).tid)
  /\ delayed_queue' = Tail(delayed_queue)
  /\ UNCHANGED <<num_ticks, server, notifier, elapsed, lost, since>>

ReceiveRequest ==
  /\ server = "expire" /\ ~ Due
  /\ Receive(Server)
  /\ server' = "handle"
  /\ UNCHANGED <<clockVars, notifier, elapsed, lost, since>>

Mut_Absolute(req) == req.data
Deadline(req) ==
  IF req.type = "CS_DELAY" THEN Wrapped(req.data + num_ticks) ELSE req.data

Mut_NoBreak(req) == Wrapped(num_ticks + 1)
TicksAfter(req) == IF req.type = "CS_TICK" THEN Wrapped(num_ticks + 1) ELSE num_ticks

\* In CS_TICK num_ticks is incremented after the reply, which only the server
\* can tell.
Handle ==
  LET tid == sender[Server]
      req == Received(Server)
  IN  /\ server = "handle" /\ Runs(Server)
      /\ IF req.type \in {"CS_TIME", "CS_TICK"} THEN Reply(tid)
         ELSE UNCHANGED ipcVars
      /\ num_ticks' = TicksAfter(req)
      /\ delayed_queue' =
           IF req.type \in {"CS_DELAY", "CS_DELAY_UNTIL"}
           THEN SortedListInsert(delayed_queue,
                                 [tid |-> tid, priority |-> Deadline(req)])
           ELSE delayed_queue
      /\ server' = "expire"
      /\ UNCHANGED <<notifier, elapsed, lost, since>>

-----------------------------------------------------------------------------
Init ==
  /\ IpcInit(Clients \cup {Server})
  /\ num_ticks = 0
  /\ delayed_queue = <<>>
  /\ server = "register"
  /\ notifier = "none"
  /\ elapsed = 0
  /\ lost = 0
  /\ since = [c \in Clients |-> 0]

ServerStep == Register \/ CreateNotifier \/ Expire \/ ReceiveRequest \/ Handle
NotifierStep == AwaitTimer \/ SendTick \/ TickSent

\* The bound, not the timer, ends the run.
TimeIsUp == elapsed = MaxElapsed /\ UNCHANGED vars

Next ==
  \/ ServerStep \/ NotifierStep
  \/ TimerExpires
  \/ \E c \in Clients : Call(c) \/ ClientDestroyed(c)
  \/ TimeIsUp

Spec == Init /\ [][Next]_vars

\* Notifier and server have the two best priorities and are never destroyed:
\* when they can run they do.
FairSpec == Spec /\ WF_vars(ServerStep) /\ WF_vars(NotifierStep)
-----------------------------------------------------------------------------
ClockTypeOK ==
  /\ num_ticks \in 0 .. INT_MAX
  /\ delayed_queue \in Seq([tid : Clients, priority : -INT_MAX - 1 .. INT_MAX])
  /\ server \in {"register", "create", "expire", "handle"}
  /\ notifier \in {"none", "await", "awaiting", "send", "sent"}
  /\ elapsed \in 0 .. MaxElapsed /\ lost \in 0 .. MaxElapsed
  /\ since \in [Clients -> 0 .. MaxElapsed]

\* The notifier has seen the timer expire and the server has not counted it.
TickUnderWay ==
  \/ notifier = "send"
  \/ notifier = "sent" /\ Blocked(Notifier)

\* include/clockserver.h on Time: the number of ticks since the clock server
\* was created.  Each tick is counted once; those are missing that came while
\* the notifier was not waiting for the timer, and the one it is reporting.
TicksAccounted ==
  num_ticks + lost + (IF TickUnderWay THEN 1 ELSE 0) = elapsed

\* A request has been received and the client waits for its reply.
Delayed(c) ==
  /\ phase[c] = "awaiting reply"
  /\ ~ (server = "handle" /\ Runs(Server) /\ sender[Server] = c)

\* A client left waiting is in delayed_queue, once, and the list is in the
\* order of the deadlines: the head's is the next one.
DelayedClients ==
  /\ \A c \in Clients : Delayed(c) => \E i \in DOMAIN delayed_queue :
                                        delayed_queue[i].tid = c
  /\ \A i, j \in DOMAIN delayed_queue : i < j =>
       /\ delayed_queue[i].tid # delayed_queue[j].tid
       /\ delayed_queue[i].priority <= delayed_queue[j].priority

\* The clock server's own books.
ClockConsistent == ClockTypeOK /\ TicksAccounted /\ DelayedClients

\* The sum of ticks and time did not fit: the deadline is in the past.
DeadlineWrapped(c) ==
  \E i \in DOMAIN delayed_queue :
    delayed_queue[i].tid = c /\ delayed_queue[i].priority < 0

\* include/clockserver.h, where time is what Time counts: Delay "returns after
\* the given number of ticks has elapsed".  Between the call and its return
\* num_ticks has grown by that many at least, whatever ticks were under way or
\* were lost meanwhile; only a Delay whose deadline exceeds INT_MAX is excepted,
\* which returns at once.  DelayUntil returns when num_ticks has reached the
\* given number.  The header says "greater than", and that the server does not
\* keep: it replies when they are equal.
NotBeforeDeadline ==
  [][\A c \in Clients : Blocked(c) /\ phase'[c] = "running" =>
       LET req == sent[c]
       IN  /\ req.type = "CS_DELAY_UNTIL" => num_ticks >= req.data
           /\ req.type = "CS_DELAY" /\ ~ DeadlineWrapped(c) =>
                num_ticks - since[c] >= req.data]_vars

\* A client whose deadline has come returns, whatever the others do; a call
\* of Time returns without waiting for any.
DueReturns ==
  \A c \in Clients :
    /\ (Delayed(c) /\ \E i \in DOMAIN delayed_queue :
          /\ delayed_queue[i].tid = c
          /\ delayed_queue[i].priority <= num_ticks) ~> ~ Delayed(c)
    /\ (Blocked(c) /\ sent[c].type = "CS_TIME") ~> ~ Blocked(c)
=============================================================================
