--------------------------- MODULE SemaphoreServer ---------------------------
(***************************************************************************)
(* The semaphore server of usr/semaphore.c and the tasks that call SemV,   *)
(* which acquires, and SemP, which releases (OSAcquire and OSRelease of    *)
(* lib/osacquire.c).  Each system call is a step of its own.               *)
(*                                                                         *)
(* The one reply of the server is to a task that SemP lets go on.  A SemV  *)
(* that need not wait and every SemP are left waiting for a reply that     *)
(* never comes.                                                            *)
(***************************************************************************)
EXTENDS QueueHeap, FiniteSets, Ipc

CONSTANTS
  Clients,    \* the tasks that call the server; nodes[] is indexed by their tids
  Semaphores,
  Initial,      \* of SemInit
  MaxDestroyed  \* bound: as many clients are destroyed

Server == "semaphore-server"

ASSUME SemaphoreAssumption ==
  /\ Tasks = Clients \cup {Server} /\ Server \notin Clients
  /\ Nodes = Clients /\ IsFiniteSet(Clients)
  /\ Initial \in Nat /\ MaxDestroyed \in Nat

VARIABLES
  counter,  \* of each semaphore
  heap,     \* blocked of each semaphore, and nodes[]
  server    \* where SemaphoreServer is: "register", "receive", "handle"

vars == <<ipcVars, counter, heap, server>>

\* What nodes[] holds before anything is stored to it: no node, nor NULL.
Garbage == "garbage"

-----------------------------------------------------------------------------
\* SemV and SemP.  Before the server has registered WhoIs fails and so does
\* Send: the call returns at once, which leaves everything as it is.
Call(c, type, s) ==
  /\ server # "register" /\ Runs(c)
  /\ Send(c, Server, [type |-> type, sem |-> s])
  /\ UNCHANGED <<counter, heap, server>>

SemV(c) == \E s \in Semaphores : Call(c, "SEM_V", s)
SemP(c) == \E s \in Semaphores : Call(c, "SEM_P", s)

ClientDestroyed(c) ==
  /\ Cardinality({d \in Clients : phase[d] = "none"}) < MaxDestroyed
  /\ Destroyed(c) /\ UNCHANGED <<counter, heap, server>>

Register ==
  /\ server = "register" /\ server' = "receive"
  /\ UNCHANGED <<ipcVars, counter, heap>>

ReceiveRequest ==
  /\ server = "receive" /\ Receive(Server) /\ server' = "handle"
  /\ UNCHANGED <<counter, heap>>

Handles(type) ==
  /\ server = "handle" /\ Runs(Server) /\ server' = "receive"
  /\ Received(Server).type = type

\* The caller has to wait; somebody has been waiting.
Exhausted(s) == counter[s] - 1 < 0
Mut_OneForgotten(s) == counter[s] + 1 < 0
SomebodyWaits(s) == counter[s] + 1 <= 0

HandleSemV ==
  LET s == Received(Server).sem
  IN  /\ Handles("SEM_V")
      /\ counter' = [counter EXCEPT ![s] = @ - 1]
      /\ heap' = IF Exhausted(s) THEN EnqueueQueue(heap, s, sender[Server]) ELSE heap
      /\ UNCHANGED ipcVars

Mut_ReplyToReleaser ==
  LET s == Received(Server).sem
  IN  /\ Handles("SEM_P")
      /\ counter' = [counter EXCEPT ![s] = @ + 1]
      /\ IF SomebodyWaits(s)
         THEN Reply(sender[Server]) /\ heap' = DequeueQueue(heap, s)
         ELSE UNCHANGED <<ipcVars, heap>>
\* If anybody waits the first one goes on, if it still exists.
HandleSemP ==
  LET s == Received(Server).sem
  IN  /\ Handles("SEM_P")
      /\ counter' = [counter EXCEPT ![s] = @ + 1]
      /\ IF SomebodyWaits(s)
         THEN Reply(heap.first[s]) /\ heap' = DequeueQueue(heap, s)
         ELSE UNCHANGED <<ipcVars, heap>>

-----------------------------------------------------------------------------
Init ==
  /\ IpcInit(Tasks)
  /\ counter = [s \in Semaphores |-> Initial]
  /\ heap = [first |-> [s \in Semaphores |-> NULL], last |-> [s \in Semaphores |-> NULL],
             next |-> [c \in Clients |-> Garbage], prev |-> [c \in Clients |-> Garbage]]
  /\ server = "register"

ServerStep == Register \/ ReceiveRequest \/ HandleSemV \/ HandleSemP

Next == ServerStep \/ \E c \in Clients : SemV(c) \/ SemP(c) \/ ClientDestroyed(c)

Spec == Init /\ [][Next]_vars

\* The server is never destroyed and serves whoever calls.
FairSpec == Spec /\ WF_vars(ServerStep)
-----------------------------------------------------------------------------
Waiting(s) == Walk(heap, s, Cardinality(Clients) + 1)
Waits(c, s) == LET queue == Waiting(s) IN \E i \in DOMAIN queue : queue[i] = c

TypeOK ==
  /\ counter \in [Semaphores -> Int]
  /\ heap \in [first : [Semaphores -> Clients \cup {NULL}],
               last : [Semaphores -> Clients \cup {NULL}],
               next : [Clients -> Clients \cup {NULL, Garbage}],
               prev : [Clients -> Clients \cup {NULL, Garbage}]]
  /\ server \in {"register", "receive", "handle"}

\* A negative counter is the number of tasks in the queue.  Those are in it
\* once, in no other, and are waiting for the reply to a SemV unless they have
\* been destroyed; and on every queue that comes about, the pointers of
\* lib/queue.c do what the kernel takes them to do.
QueuesConsistent ==
  /\ TypeOK
  /\ \A s \in Semaphores :
       /\ OperationsAgree(heap, s, Waiting(s))
       /\ Len(Waiting(s)) = IF counter[s] < 0 THEN -counter[s] ELSE 0
  /\ \A c \in Clients, s \in Semaphores : Waits(c, s) =>
       /\ phase[c] = "awaiting reply" => sent[c] = [type |-> "SEM_V", sem |-> s]
       /\ phase[c] \in {"awaiting reply", "none"}
       /\ \A t \in Semaphores \ {s} : ~ Waits(c, t)

Abstract == INSTANCE CountingSemaphore WITH
  Tasks <- Clients,
  available <- [s \in Semaphores |-> IF counter[s] > 0 THEN counter[s] ELSE 0],
  waiting <- [s \in Semaphores |-> Waiting(s)]

\* Counter and queue are a counting semaphore, first come, first served.
ImplementsSemaphore == Abstract!Spec

\* A task comes back from SemV only with a unit: it is handed one when it is
\* the first to wait and the server handles a SemP of that semaphore, or takes
\* a free one (which here it never comes back from; nothing is said against it,
\* nor against coming back from SemP).  And nobody leaves a queue but by coming
\* back, or after it has been destroyed.
ReturnsWithUnit ==
  [][\A c \in Clients, s \in Semaphores :
       /\ Blocked(c) /\ phase'[c] = "running" /\ sent[c] = [type |-> "SEM_V", sem |-> s] =>
            \/ counter[s] > 0 /\ counter'[s] = counter[s] - 1 /\ sender[Server] = c
            \/ /\ heap.first[s] = c /\ ~ Waits(c, s)'
               /\ Received(Server) = [type |-> "SEM_P", sem |-> s]
       /\ Waits(c, s) /\ ~ Waits(c, s)' => phase[c] = "none" \/ phase'[c] = "running"]_vars

\* A SemP of s has been sent and not been handled: it is queued behind other
\* requests, or the server has received it, be it that it was waiting for one.
ReleaseUnderWay(s) ==
  \E d \in Clients :
    /\ sent[d] = [type |-> "SEM_P", sem |-> s]
    /\ phase[d] = "sending" \/ (server = "handle" /\ Runs(Server) /\ sender[Server] = d)

\* SemV in usr/semaphore.c: a task comes back only with a unit, and does come
\* back if it is the first to wait while a SemP is under way.
SemVReturns ==
  /\ ReturnsWithUnit
  /\ \A c \in Clients, s \in Semaphores :
       heap.first[s] = c /\ phase[c] = "awaiting reply" /\ ReleaseUnderWay(s)
       ~> phase[c] # "awaiting reply"
=============================================================================
