-------------------------- MODULE ClockServerProofs --------------------------
(***************************************************************************)
(* For any number of clients, arguments and expiries: the clock server     *)
(* accounts for every tick and every client that it delays, and delays     *)
(* nobody for less than it was asked to.                                   *)
(***************************************************************************)
EXTENDS ClockServer, IpcProofs

Times == -INT_MAX - 1 .. INT_MAX
Entries == [tid : Clients, priority : Times]

Ordered(lst) ==
  \A i, j \in 1 .. Len(lst) : i < j =>
    lst[i].tid # lst[j].tid /\ lst[i].priority <= lst[j].priority

Listed(c) == \E i \in 1 .. Len(delayed_queue) : delayed_queue[i].tid = c
Handling(t) == server = "handle" /\ Runs(Server) /\ sender[Server] = t

-----------------------------------------------------------------------------
(* The list.                                                               *)

LEMMA NodeTyped ==
  ASSUME NEW node \in Entries
  PROVE  node.tid \in Clients /\ node.priority \in Int /\ node.priority \in Times
<1>1. Times \subseteq Int
  BY ClockAssumption DEF Times
<1> QED BY <1>1 DEF Entries

LEMMA ListTyped ==
  ASSUME NEW lst \in Seq(Entries)
  PROVE  /\ Len(lst) \in Nat /\ DOMAIN lst = 1 .. Len(lst)
         /\ \A i \in 1 .. Len(lst) : /\ lst[i] \in Entries
                                    /\ lst[i].tid \in Clients /\ lst[i].priority \in Int
<1>1. Len(lst) \in Nat /\ DOMAIN lst = 1 .. Len(lst)
  BY LenProperties
<1>2. \A i \in 1 .. Len(lst) : lst[i] \in Entries
  BY ElementOfSeq
<1> QED BY <1>1, <1>2, NodeTyped

\* The loop of SortedListInsert stops at the first node of a greater priority.
LEMMA PlaceExists ==
  ASSUME NEW lst \in Seq(Entries), NEW node \in Entries
  PROVE  \E i \in 1 .. Len(lst) + 1 :
           /\ \A j \in 1 .. i - 1 : lst[j].priority <= node.priority
           /\ i <= Len(lst) => lst[i].priority > node.priority
<1>1. Len(lst) \in Nat /\ \A i \in 1 .. Len(lst) : lst[i].priority \in Int
  BY ListTyped
<1>2. node.priority \in Int
  BY NodeTyped
<1> DEFINE n == Len(lst)
           p(i) == lst[i].priority
           v == node.priority
           greater == {i \in 1 .. n : p(i) > v}
<1>3. CASE greater = {}
  <2>1. \A j \in 1 .. n : p(j) <= v
    BY <1>1, <1>2, <1>3
  <2>2. n + 1 \in 1 .. n + 1 /\ 1 .. (n + 1) - 1 = 1 .. n /\ ~ (n + 1 <= n)
    BY <1>1
  <2> QED BY <2>1, <2>2
<1>4. CASE greater # {}
  <2>1. greater \in SUBSET Nat
    OBVIOUS
  <2>2. PICK i \in greater : \A j \in greater : i <= j
    BY <1>4, <2>1, LeastElement
  <2>3. i \in 1 .. n + 1 /\ p(i) > v
    BY <1>1, <2>2
  <2>4. \A j \in 1 .. i - 1 : p(j) <= v
    BY <1>1, <1>2, <2>2
  <2> QED BY <2>3, <2>4
<1> QED BY <1>3, <1>4

\* The node is put at a place between those before and those after it.
LEMMA InsertIs ==
  ASSUME NEW lst \in Seq(Entries), NEW node \in Entries
  PROVE  \E at \in 1 .. Len(lst) + 1 :
           LET new == SortedListInsert(lst, node)
           IN  /\ new \in Seq(Entries) /\ Len(new) = Len(lst) + 1
               /\ \A i \in 1 .. at - 1 : new[i] = lst[i]
               /\ new[at] = node
               /\ \A i \in at + 1 .. Len(lst) + 1 : new[i] = lst[i - 1]
               /\ \A j \in 1 .. at - 1 : lst[j].priority <= node.priority
               /\ at <= Len(lst) => lst[at].priority > node.priority
<1> DEFINE n == Len(lst)
           P(i) == /\ \A j \in 1 .. i - 1 : lst[j].priority <= node.priority
                   /\ i <= Len(lst) => lst[i].priority > node.priority
           at == CHOOSE i \in 1 .. Len(lst) + 1 : P(i)
           front == SubSeq(lst, 1, at - 1)
           back == SubSeq(lst, at, n)
           one == <<node>>
           left == front \o one
           new == left \o back
<1>1. n \in Nat /\ \A i \in 1 .. n : lst[i] \in Entries
  BY LenProperties, ElementOfSeq
<1>2. at \in 1 .. n + 1 /\ P(at)
  <2>1. \E i \in 1 .. n + 1 : P(i)
    BY PlaceExists
  <2> HIDE DEF P
  <2> QED BY <2>1
<1>3. SortedListInsert(lst, node) = new
  BY DEF SortedListInsert, InsertAt
<1> HIDE DEF at
<1>4. front \in Seq(Entries) /\ Len(front) = at - 1 /\ \A i \in 1 .. at - 1 : front[i] = lst[i]
  <2> DEFINE b == at - 1
  <2>1. b \in Int /\ 1 \in Int /\ 0 <= b /\ b <= n /\ \A i \in 1 .. b : lst[i] \in Entries
    BY <1>1, <1>2
  <2> HIDE DEF b
  <2>2. /\ SubSeq(lst, 1, b) \in Seq(Entries)
        /\ Len(SubSeq(lst, 1, b)) = IF 1 <= b THEN b - 1 + 1 ELSE 0
        /\ \A i \in 1 .. b - 1 + 1 : SubSeq(lst, 1, b)[i] = lst[1 + i - 1]
    BY <2>1, SubSeqProperties
  <2>3. /\ SubSeq(lst, 1, b) \in Seq(Entries) /\ Len(SubSeq(lst, 1, b)) = b
        /\ \A i \in 1 .. b : SubSeq(lst, 1, b)[i] = lst[i]
    BY <2>1, <2>2
  <2> QED BY <2>3 DEF b
<1>5. /\ back \in Seq(Entries) /\ Len(back) = n - at + 1
      /\ \A i \in 1 .. n - at + 1 : back[i] = lst[at + i - 1]
  <2>1. at \in Int /\ n \in Int /\ \A i \in at .. n : lst[i] \in Entries
    BY <1>1, <1>2
  <2> HIDE DEF n
  <2>2. /\ back \in Seq(Entries)
        /\ Len(back) = IF at <= n THEN n - at + 1 ELSE 0
        /\ \A i \in 1 .. n - at + 1 : back[i] = lst[at + i - 1]
    BY <2>1, SubSeqProperties
  <2> QED BY <1>1, <1>2, <2>2
<1>6. one \in Seq(Entries) /\ Len(one) = 1 /\ one[1] = node
  OBVIOUS
<1> HIDE DEF front, back, one, n
<1>7. /\ left \in Seq(Entries) /\ Len(left) = Len(front) + Len(one)
      /\ \A i \in 1 .. Len(front) + Len(one) :
           left[i] = IF i <= Len(front) THEN front[i] ELSE one[i - Len(front)]
  BY <1>4, <1>6, ConcatProperties, Zenon
<1> HIDE DEF left
<1>8. /\ new \in Seq(Entries) /\ Len(new) = Len(left) + Len(back)
      /\ \A i \in 1 .. Len(left) + Len(back) :
           new[i] = IF i <= Len(left) THEN left[i] ELSE back[i - Len(left)]
  <2>1. left \in Seq(Entries) /\ back \in Seq(Entries)
    BY <1>5, <1>7
  <2> QED BY <2>1, ConcatProperties, Zenon
<1> HIDE DEF new
<1>9. Len(left) = at /\ left[at] = node /\ \A i \in 1 .. at - 1 : left[i] = lst[i]
  BY <1>1, <1>2, <1>4, <1>6, <1>7
<1>10. Len(new) = n + 1 /\ new[at] = node /\ \A i \in 1 .. at - 1 : new[i] = lst[i]
  BY <1>1, <1>2, <1>5, <1>8, <1>9
<1>11. ASSUME NEW i \in at + 1 .. n + 1
       PROVE  new[i] = lst[i - 1]
  <2>1. i - at \in 1 .. n - at + 1 /\ at + (i - at) - 1 = i - 1
    BY <1>1, <1>2
  <2>2. back[i - at] = lst[i - 1]
    BY <1>5, <2>1
  <2> QED BY <1>1, <1>2, <1>5, <1>8, <1>9, <2>2
<1> QED BY <1>2, <1>3, <1>8, <1>10, <1>11 DEF n

\* The list stays in order, and holds the node and those it held before.
LEMMA InsertKeepsOrder ==
  ASSUME NEW lst \in Seq(Entries), NEW node \in Entries, Ordered(lst),
         \A i \in 1 .. Len(lst) : lst[i].tid # node.tid
  PROVE  LET new == SortedListInsert(lst, node)
         IN  /\ new \in Seq(Entries) /\ Ordered(new)
             /\ \E i \in 1 .. Len(new) : new[i] = node
             /\ \A i \in 1 .. Len(lst) : \E j \in 1 .. Len(new) : new[j] = lst[i]
             /\ \A j \in 1 .. Len(new) : new[j] = node \/ \E i \in 1 .. Len(lst) : new[j] = lst[i]
<1> DEFINE n == Len(lst)
           new == SortedListInsert(lst, node)
<1>1. PICK at \in 1 .. n + 1 :
        /\ new \in Seq(Entries) /\ Len(new) = n + 1
        /\ \A i \in 1 .. at - 1 : new[i] = lst[i]
        /\ new[at] = node
        /\ \A i \in at + 1 .. n + 1 : new[i] = lst[i - 1]
        /\ \A j \in 1 .. at - 1 : lst[j].priority <= node.priority
        /\ at <= n => lst[at].priority > node.priority
  BY InsertIs
<1>2. n \in Nat /\ node.priority \in Int /\ \A i \in 1 .. n : lst[i].priority \in Int
  BY ListTyped, NodeTyped
<1> HIDE DEF new, n
<1>3. \A i, j \in 1 .. n : i < j => lst[i].tid # lst[j].tid /\ lst[i].priority <= lst[j].priority
  BY DEF Ordered, n
<1>4. \A i \in 1 .. n : lst[i].tid # node.tid
  BY DEF n
<1>5. \A i \in at .. n : node.priority <= lst[i].priority
  <2> SUFFICES ASSUME NEW i \in at .. n PROVE node.priority <= lst[i].priority
    OBVIOUS
  <2>1. at <= n /\ at \in 1 .. n /\ i \in 1 .. n /\ lst[at].priority > node.priority
    BY <1>1, <1>2
  <2>2. lst[at].priority <= lst[i].priority
    BY <1>2, <1>3, <2>1
  <2> QED BY <1>2, <2>1, <2>2
<1>6. Ordered(new)
  <2> SUFFICES ASSUME NEW i \in 1 .. n + 1, NEW j \in 1 .. n + 1, i < j
               PROVE  new[i].tid # new[j].tid /\ new[i].priority <= new[j].priority
    BY <1>1 DEF Ordered
  <2>1. CASE j < at
    BY <1>1, <1>2, <1>3, <2>1
  <2>2. CASE j = at
    BY <1>1, <1>2, <1>4, <2>2
  <2>3. CASE i < at /\ at < j
    <3>1. /\ i \in 1 .. at - 1 /\ j \in at + 1 .. n + 1
          /\ i \in 1 .. n /\ j - 1 \in 1 .. n /\ i < j - 1
      BY <1>1, <1>2, <2>3
    <3>2. new[i] = lst[i] /\ new[j] = lst[j - 1]
      BY <1>1, <3>1
    <3> QED BY <1>3, <3>1, <3>2
  <2>4. CASE i = at
    <3>1. new[i] = node /\ new[j] = lst[j - 1] /\ j - 1 \in at .. n /\ j - 1 \in 1 .. n
      BY <1>1, <1>2, <2>4
    <3> QED BY <1>4, <1>5, <3>1
  <2>5. CASE at < i
    <3>1. /\ new[i] = lst[i - 1] /\ new[j] = lst[j - 1]
          /\ i - 1 \in 1 .. n /\ j - 1 \in 1 .. n /\ i - 1 < j - 1
      BY <1>1, <1>2, <2>5
    <3> QED BY <1>3, <3>1
  <2> QED BY <1>1, <1>2, <2>1, <2>2, <2>3, <2>4, <2>5
<1>7. \A i \in 1 .. n : \E j \in 1 .. n + 1 : new[j] = lst[i]
  <2> SUFFICES ASSUME NEW i \in 1 .. n PROVE \E j \in 1 .. n + 1 : new[j] = lst[i]
    OBVIOUS
  <2>1. CASE i < at
    BY <1>1, <1>2, <2>1
  <2>2. CASE i >= at
    <3>1. i + 1 \in at + 1 .. n + 1 /\ i + 1 \in 1 .. n + 1 /\ (i + 1) - 1 = i
      BY <1>1, <1>2, <2>2
    <3> QED BY <1>1, <3>1
  <2> QED BY <1>1, <1>2, <2>1, <2>2
<1>8. \A j \in 1 .. n + 1 : new[j] = node \/ \E i \in 1 .. n : new[j] = lst[i]
  <2> SUFFICES ASSUME NEW j \in 1 .. n + 1, j # at PROVE \E i \in 1 .. n : new[j] = lst[i]
    BY <1>1
  <2>1. CASE j < at
    BY <1>1, <1>2, <2>1
  <2>2. CASE j > at
    <3>1. j \in at + 1 .. n + 1 /\ j - 1 \in 1 .. n
      BY <1>1, <1>2, <2>2
    <3> QED BY <1>1, <3>1
  <2> QED BY <1>1, <1>2, <2>1, <2>2
<1>9. at \in 1 .. Len(new) /\ new[at] = node
  BY <1>1
<1> QED BY <1>1, <1>6, <1>7, <1>8, <1>9 DEF new, n

-----------------------------------------------------------------------------
(* The invariant.                                                          *)

\* The books: every expiry is counted, lost or under way, and time has not gone
\* back since any client called.
Counts ==
  /\ num_ticks \in Nat /\ lost \in Nat /\ elapsed \in Nat /\ elapsed <= MaxElapsed
  /\ TicksAccounted
  /\ since \in [Clients -> Nat]
  /\ \A c \in Clients : since[c] <= num_ticks

NotifierInv ==
  /\ notifier \in {"none", "await", "awaiting", "send", "sent"}
  /\ notifier = "none" <=> server \in {"register", "create"}
  /\ notifier = "none" => phase[Notifier] = "none"
  /\ notifier \in {"await", "awaiting", "send"} => phase[Notifier] = "running"
  /\ notifier = "sent" => phase[Notifier] \in {"running", "sending", "awaiting reply"}
  /\ Blocked(Notifier) => sent[Notifier].type = "CS_TICK"

ServerInv ==
  /\ server \in {"register", "create", "expire", "handle"}
  /\ phase[Server] \in {"running", "receiving"}
  /\ server # "handle" => Runs(Server)
  /\ \A t : Handling(t) =>
       \/ t = Notifier /\ phase[Notifier] = "awaiting reply"
       \/ t \in Clients /\ phase[t] \in {"awaiting reply", "none"} /\ sent[t] \in Requests

\* Whoever waits for a reply is being handled or is in the list.
ClientInv ==
  \A c \in Clients :
    /\ phase[c] \in {"none", "running", "sending", "awaiting reply"}
    /\ Blocked(c) => sent[c] \in Requests
    /\ phase[c] = "awaiting reply" => Listed(c) \/ Handling(c)

\* The deadline of an entry is late enough; its client, unless it has been
\* destroyed, waits for the reply, and is not being handled any more.
DeadlineOK(e) ==
  LET req == sent[e.tid]
  IN  \/ req.type = "CS_DELAY_UNTIL" /\ e.priority = req.data
      \/ /\ req.type = "CS_DELAY"
         /\ e.priority < 0 \/ since[e.tid] <= e.priority - req.data
EntryOK(e) ==
  /\ phase[e.tid] \in {"awaiting reply", "none"} /\ ~ Handling(e.tid)
  /\ sent[e.tid] \in Requests /\ DeadlineOK(e)

ListInv ==
  /\ delayed_queue \in Seq(Entries) /\ Ordered(delayed_queue)
  /\ \A i \in 1 .. Len(delayed_queue) : EntryOK(delayed_queue[i])

ClockInv == IpcInv /\ Counts /\ NotifierInv /\ ServerInv /\ ClientInv /\ ListInv

LEMMA TasksAre ==
  /\ Server \in Tasks /\ Notifier \in Tasks /\ Clients \subseteq Tasks
  /\ Tasks = Clients \cup {Server, Notifier}
  /\ Server # Notifier /\ Server \notin Clients /\ Notifier \notin Clients
BY ClockAssumption DEF Server, Notifier

LEMMA RequestsAre ==
  ASSUME NEW req \in Requests
  PROVE  /\ req.type \in {"CS_TIME", "CS_DELAY", "CS_DELAY_UNTIL"}
         /\ req.data \in 0 .. INT_MAX /\ req.data \in Nat
<1>0. /\ 0 \in 0 .. INT_MAX /\ DelayArgs \subseteq 0 .. INT_MAX
      /\ \A x \in 0 .. INT_MAX : x \in Nat
  BY ClockAssumption
<1>1. CASE req = [type |-> "CS_TIME", data |-> 0]
  <2>1. req.type = "CS_TIME" /\ req.data = 0
    BY <1>1
  <2> QED BY <1>0, <2>1, Zenon
<1>2. CASE req \in [type : {"CS_DELAY", "CS_DELAY_UNTIL"}, data : DelayArgs]
  <2>1. req.type \in {"CS_DELAY", "CS_DELAY_UNTIL"} /\ req.data \in DelayArgs
    BY <1>2
  <2> QED BY <1>0, <2>1, Zenon
<1> QED BY <1>1, <1>2 DEF Requests

LEMMA ClockInit == Init => ClockInv
<1> SUFFICES ASSUME Init PROVE ClockInv
  OBVIOUS
<1>1. IpcInv
  BY IpcInitially DEF Init
<1>2. /\ \A t \in Tasks : phase[t] = IF t \in Clients \cup {Server} THEN "running" ELSE "none"
      /\ num_ticks = 0 /\ delayed_queue = <<>> /\ server = "register" /\ notifier = "none"
      /\ elapsed = 0 /\ lost = 0 /\ since = [c \in Clients |-> 0]
  BY DEF Init, IpcInit
<1>3. /\ phase[Server] = "running" /\ phase[Notifier] = "none"
      /\ \A c \in Clients : phase[c] = "running"
  BY <1>2, TasksAre
<1>4. Counts
  BY <1>2, ClockAssumption DEF Counts, TicksAccounted, TickUnderWay
<1>5. NotifierInv /\ ServerInv /\ ClientInv
  BY <1>2, <1>3 DEF NotifierInv, ServerInv, ClientInv, Blocked, Runs, Handling
<1>6. ListInv
  <2>1. <<>> \in Seq(Entries) /\ Len(<<>>) = 0
    OBVIOUS
  <2> QED BY <1>2, <2>1 DEF ListInv, Ordered
<1> QED BY <1>1, <1>4, <1>5, <1>6 DEF ClockInv

-----------------------------------------------------------------------------
(* The steps.                                                              *)

\* An entry stays right while its client is left alone.
LEMMA EntryKept ==
  ASSUME NEW e \in Entries, EntryOK(e), sent'[e.tid] = sent[e.tid], since'[e.tid] = since[e.tid],
         phase'[e.tid] \in {"awaiting reply", "none"}, ~ Handling(e.tid)'
  PROVE  EntryOK(e)'
BY DEF EntryOK, DeadlineOK

LEMMA ListKept ==
  ASSUME ClockInv, delayed_queue' = delayed_queue,
         \A c \in Clients : phase[c] \in {"awaiting reply", "none"} /\ ~ Handling(c) =>
           /\ sent'[c] = sent[c] /\ since'[c] = since[c]
           /\ phase'[c] \in {"awaiting reply", "none"} /\ ~ Handling(c)'
  PROVE  ListInv'
<1>1. ASSUME NEW i \in 1 .. Len(delayed_queue)
      PROVE  EntryOK(delayed_queue[i])'
  <2>0. PICK e \in Entries : e = delayed_queue[i]
    BY ListTyped DEF ClockInv, ListInv
  <2>1. e.tid \in Clients /\ EntryOK(e)
    BY <2>0, NodeTyped DEF ClockInv, ListInv
  <2>2. /\ sent'[e.tid] = sent[e.tid] /\ since'[e.tid] = since[e.tid]
        /\ phase'[e.tid] \in {"awaiting reply", "none"} /\ ~ Handling(e.tid)'
    BY <2>1 DEF EntryOK
  <2>3. EntryOK(e)'
    BY <2>1, <2>2, EntryKept DEF ClockInv
  <2>4. delayed_queue'[i] = e
    BY <2>0
  <2> QED BY <2>3, <2>4 DEF EntryOK, DeadlineOK
<1>2. Ordered(delayed_queue)' /\ delayed_queue' \in Seq(Entries)
  BY DEF ClockInv, ListInv, Ordered
<1> QED BY <1>1, <1>2 DEF ListInv

\* Counts where no tick is counted.
LEMMA CountsKept ==
  ASSUME ClockInv, UNCHANGED <<num_ticks, lost, elapsed, since>>,
         TickUnderWay' <=> TickUnderWay
  PROVE  Counts'
BY DEF ClockInv, Counts, TicksAccounted

LEMMA CountsAre ==
  ASSUME Counts
  PROVE  /\ num_ticks \in Nat /\ lost \in Nat /\ elapsed \in Nat /\ MaxElapsed \in Nat
         /\ elapsed <= num_ticks + lost + 1 /\ num_ticks + lost <= elapsed
         /\ num_ticks <= INT_MAX
BY ClockAssumption DEF Counts, TicksAccounted

\* A task sends to the server.
LEMMA SendToServer ==
  ASSUME ClockInv, NEW s \in Clients \cup {Notifier}, NEW m, Send(s, Server, m)
  PROVE  /\ IpcInv' /\ phase[s] = "running" /\ phase'[s] \in {"sending", "awaiting reply"}
         /\ sent'[s] = m /\ \A t \in Tasks \ {s} : sent'[t] = sent[t]
         /\ \A t \in Tasks \ {s, Server} : phase'[t] = phase[t]
         /\ phase'[Server] = "running"
         /\ \/ /\ phase[Server] = "receiving" /\ server = "handle"
               /\ phase'[s] = "awaiting reply" /\ sender'[Server] = s
            \/ /\ phase[Server] = "running" /\ phase'[s] = "sending"
               /\ sender'[Server] = sender[Server]
<1> DEFINE r == Server
<1>1. /\ IpcInv /\ r \in Tasks /\ s \in Tasks /\ s # r /\ Send(s, r, m)
      /\ phase[r] \in {"running", "receiving"} /\ (server # "handle" => phase[r] = "running")
  BY TasksAre DEF ClockInv, ServerInv, Runs
<1> HIDE DEF r
<1>2. /\ IpcInv'
      /\ phase[s] = "running"
      /\ sent'[s] = m /\ \A t \in Tasks \ {s} : sent'[t] = sent[t]
      /\ \/ /\ phase[r] = "receiving" /\ s # r
            /\ phase'[s] = "awaiting reply" /\ phase'[r] = "running"
            /\ \A t \in Tasks \ {r, s} : phase'[t] = phase[t]
            /\ sender'[r] = s /\ \A t \in Tasks \ {r} : sender'[t] = sender[t]
            /\ inbox' = inbox
         \/ /\ phase[r] \notin {"receiving", "none"} /\ phase'[s] = "sending"
            /\ \A t \in Tasks \ {s} : phase'[t] = phase[t]
            /\ sender' = sender
            /\ inbox' = [inbox EXCEPT ![r] = Append(inbox[r], s)]
  BY <1>1, SendDoes, Zenon
<1> QED BY <1>1, <1>2 DEF r

\* Time, Delay or DelayUntil of any client.
LEMMA CallKept ==
  ASSUME ClockInv, NEW c \in Clients, Call(c)
  PROVE  ClockInv' /\ \A d \in Clients : Blocked(d) => phase'[d] # "running"
<1>1. PICK req \in Requests : Send(c, Server, req)
  BY DEF Call
<1>2. /\ server # "register" /\ since' = [since EXCEPT ![c] = num_ticks]
      /\ UNCHANGED <<num_ticks, delayed_queue, server, notifier, elapsed, lost>>
  BY DEF Call, clockVars
<1>3. /\ IpcInv' /\ phase[c] = "running" /\ phase'[c] \in {"sending", "awaiting reply"}
      /\ sent'[c] = req /\ \A t \in Tasks \ {c} : sent'[t] = sent[t]
      /\ \A t \in Tasks \ {c, Server} : phase'[t] = phase[t]
      /\ phase'[Server] = "running"
      /\ \/ /\ phase[Server] = "receiving" /\ server = "handle"
            /\ phase'[c] = "awaiting reply" /\ sender'[Server] = c
         \/ /\ phase[Server] = "running" /\ phase'[c] = "sending"
            /\ sender'[Server] = sender[Server]
  BY <1>1, SendToServer
<1>4. /\ phase'[Notifier] = phase[Notifier] /\ sent'[Notifier] = sent[Notifier]
      /\ \A d \in Clients \ {c} : phase'[d] = phase[d] /\ sent'[d] = sent[d]
  BY <1>3, TasksAre
<1>5. Counts'
  <2>1. TickUnderWay' <=> TickUnderWay
    BY <1>2, <1>4 DEF TickUnderWay, Blocked
  <2>2. num_ticks \in Nat
    BY CountsAre DEF ClockInv
  <2>3. /\ since' \in [Clients -> Nat]
        /\ \A d \in Clients : since'[d] = IF d = c THEN num_ticks ELSE since[d]
    BY <1>2, <2>2 DEF ClockInv, Counts
  <2> QED BY <1>2, <2>1, <2>2, <2>3 DEF ClockInv, Counts, TicksAccounted
<1>6. NotifierInv'
  BY <1>2, <1>4 DEF ClockInv, NotifierInv, Blocked
<1>7. /\ \A t : Handling(t)' <=> \/ Handling(t)
                                 \/ t = c /\ phase'[c] = "awaiting reply"
      /\ ~ Handling(c)
  BY <1>2, <1>3, TasksAre DEF Handling, Runs, ClockInv, ServerInv
<1>8. ServerInv'
  BY <1>2, <1>3, <1>4, <1>7 DEF ClockInv, ServerInv, Runs
<1>9. \A d : Listed(d)' <=> Listed(d)
  BY <1>2 DEF Listed
<1>10. ClientInv'
  BY <1>3, <1>4, <1>7, <1>9 DEF ClockInv, ClientInv, Blocked
<1>11. ListInv'
  <2>1. \A d \in Clients : phase[d] \in {"awaiting reply", "none"} /\ ~ Handling(d) =>
          /\ sent'[d] = sent[d] /\ since'[d] = since[d]
          /\ phase'[d] \in {"awaiting reply", "none"} /\ ~ Handling(d)'
    <3>1. \A d \in Clients \ {c} : since'[d] = since[d]
      BY <1>2 DEF ClockInv, Counts
    <3> QED BY <1>3, <1>4, <1>7, <3>1
  <2> QED BY <1>2, <2>1, ListKept
<1>12. \A d \in Clients : Blocked(d) => phase'[d] # "running"
  BY <1>3, <1>4 DEF Blocked
<1> QED BY <1>3, <1>5, <1>6, <1>8, <1>10, <1>11, <1>12 DEF ClockInv

\* TimerNotifier reports a tick.
LEMMA SendTickKept ==
  ASSUME ClockInv, SendTick
  PROVE  ClockInv' /\ \A d \in Clients : phase'[d] = phase[d]
<1> DEFINE tick == [type |-> "CS_TICK", data |-> 0]
<1>1. /\ notifier = "send" /\ Send(Notifier, Server, tick) /\ notifier' = "sent"
      /\ UNCHANGED <<num_ticks, delayed_queue, server, elapsed, lost, since>>
      /\ tick.type = "CS_TICK"
  BY DEF SendTick, clockVars
<1> HIDE DEF tick
<1>2. /\ IpcInv' /\ phase'[Notifier] \in {"sending", "awaiting reply"}
      /\ sent'[Notifier] = tick /\ \A t \in Tasks \ {Notifier} : sent'[t] = sent[t]
      /\ \A t \in Tasks \ {Notifier, Server} : phase'[t] = phase[t]
      /\ phase'[Server] = "running"
      /\ \/ /\ phase[Server] = "receiving" /\ server = "handle"
            /\ phase'[Notifier] = "awaiting reply" /\ sender'[Server] = Notifier
         \/ /\ phase[Server] = "running" /\ sender'[Server] = sender[Server]
  <2>1. Notifier \in Clients \cup {Notifier}
    OBVIOUS
  <2> DEFINE s == Notifier
  <2>2. s \in Clients \cup {Notifier} /\ Send(s, Server, tick)
    BY <1>1, <2>1
  <2> HIDE DEF s
  <2>3. /\ IpcInv' /\ phase[s] = "running" /\ phase'[s] \in {"sending", "awaiting reply"}
        /\ sent'[s] = tick /\ \A t \in Tasks \ {s} : sent'[t] = sent[t]
        /\ \A t \in Tasks \ {s, Server} : phase'[t] = phase[t]
        /\ phase'[Server] = "running"
        /\ \/ /\ phase[Server] = "receiving" /\ server = "handle"
              /\ phase'[s] = "awaiting reply" /\ sender'[Server] = s
           \/ /\ phase[Server] = "running" /\ phase'[s] = "sending"
              /\ sender'[Server] = sender[Server]
    BY <2>2, SendToServer, Zenon
  <2> QED BY <2>3 DEF s
<1>3. \A d \in Clients : phase'[d] = phase[d] /\ sent'[d] = sent[d]
  BY <1>2, TasksAre
<1>4. Counts'
  <2>1. TickUnderWay' <=> TickUnderWay
    BY <1>1, <1>2 DEF TickUnderWay, Blocked
  <2> QED BY <1>1, <2>1, CountsKept
<1>5. NotifierInv'
  BY <1>1, <1>2 DEF ClockInv, NotifierInv, Blocked
<1>6. \A t : Handling(t)' <=> \/ Handling(t)
                              \/ /\ t = Notifier /\ server = "handle"
                                 /\ phase[Server] = "receiving"
                                 /\ phase'[Notifier] = "awaiting reply"
  BY <1>1, <1>2 DEF Handling, Runs
<1>7. ~ Handling(Notifier)
  BY <1>1, TasksAre DEF ClockInv, ServerInv, NotifierInv
<1>8. ServerInv'
  BY <1>1, <1>2, <1>3, <1>6, <1>7 DEF ClockInv, ServerInv, Runs
<1>9. ClientInv'
  <2>1. \A d : Listed(d)' <=> Listed(d)
    BY <1>1 DEF Listed
  <2> QED BY <1>3, <1>6, <2>1 DEF ClockInv, ClientInv, Blocked
<1>10. ListInv'
  <2>1. \A d \in Clients : phase[d] \in {"awaiting reply", "none"} /\ ~ Handling(d) =>
          /\ sent'[d] = sent[d] /\ since'[d] = since[d]
          /\ phase'[d] \in {"awaiting reply", "none"} /\ ~ Handling(d)'
    BY <1>1, <1>3, <1>6, TasksAre
  <2> QED BY <1>1, <1>4, <2>1, ListKept
<1> QED BY <1>2, <1>3, <1>4, <1>5, <1>8, <1>9, <1>10 DEF ClockInv

\* Nobody sends, receives or is replied to; a client may be destroyed.
LEMMA StandsStill ==
  ASSUME ClockInv, UNCHANGED <<delayed_queue, since, sent, sender>>,
         server' = server \/ (server # "handle" /\ server' # "handle"),
         phase'[Server] = phase[Server],
         \A c \in Clients : phase'[c] = phase[c] \/ (phase'[c] = "none" /\ phase[c] # "sending")
  PROVE  /\ ClientInv' /\ ListInv'
         /\ \A t : Handling(t)' <=> Handling(t)
         /\ \A c \in Clients : Blocked(c) => phase'[c] # "running"
<1>1. \A t : Handling(t)' <=> Handling(t)
  BY DEF Handling, Runs
<1>2. \A t : Listed(t)' <=> Listed(t)
  BY DEF Listed
<1>3. ListInv'
  <2>1. \A d \in Clients : phase[d] \in {"awaiting reply", "none"} /\ ~ Handling(d) =>
          /\ sent'[d] = sent[d] /\ since'[d] = since[d]
          /\ phase'[d] \in {"awaiting reply", "none"} /\ ~ Handling(d)'
    BY <1>1
  <2> QED BY <2>1, ListKept
<1>4. ClientInv'
  BY <1>1, <1>2 DEF ClockInv, ClientInv, Blocked
<1> QED BY <1>1, <1>3, <1>4 DEF Blocked

LEMMA TimerKept ==
  ASSUME ClockInv, AwaitTimer \/ TickSent \/ TimerExpires
  PROVE  ClockInv' /\ \A c \in Clients : Blocked(c) => phase'[c] # "running"
<1>1. UNCHANGED <<phase, inbox, sent, sender, num_ticks, delayed_queue, server, since>>
  BY DEF AwaitTimer, TickSent, TimerExpires, ipcVars, clockVars
<1>2. IpcInv'
  BY <1>1, IpcUnchanged DEF ClockInv, ipcVars
<1>3. Counts' /\ NotifierInv'
  <2>1. CASE AwaitTimer \/ TickSent
    <3>1. UNCHANGED <<elapsed, lost>>
      BY <2>1 DEF AwaitTimer, TickSent
    <3>2. TickUnderWay' <=> TickUnderWay
      BY <1>1, <2>1 DEF AwaitTimer, TickSent, TickUnderWay, Blocked, Runs
    <3>3. NotifierInv'
      BY <1>1, <2>1 DEF AwaitTimer, TickSent, ClockInv, NotifierInv, Blocked, Runs
    <3> QED BY <1>1, <3>1, <3>2, <3>3, CountsKept
  <2>2. CASE TimerExpires
    <3>1. /\ elapsed < MaxElapsed /\ elapsed' = elapsed + 1
          /\ notifier' = IF notifier = "awaiting" THEN "send" ELSE notifier
          /\ lost' = IF notifier = "awaiting" THEN lost ELSE lost + 1
      BY <2>2 DEF TimerExpires
    <3>2. CASE notifier = "awaiting"
      <4>1. TickUnderWay' /\ ~ TickUnderWay
        BY <3>1, <3>2 DEF TickUnderWay
      <4>2. Counts'
        BY <1>1, <3>1, <3>2, <4>1, ClockAssumption DEF ClockInv, Counts, TicksAccounted
      <4>3. NotifierInv'
        BY <1>1, <3>1, <3>2 DEF ClockInv, NotifierInv, Blocked
      <4> QED BY <4>2, <4>3
    <3>3. CASE notifier # "awaiting"
      <4>1. TickUnderWay' <=> TickUnderWay
        BY <1>1, <3>1, <3>3 DEF TickUnderWay, Blocked
      <4>2. Counts'
        BY <1>1, <3>1, <3>3, <4>1, ClockAssumption DEF ClockInv, Counts, TicksAccounted
      <4>3. NotifierInv'
        BY <1>1, <3>1, <3>3 DEF ClockInv, NotifierInv, Blocked
      <4> QED BY <4>2, <4>3
    <3> QED BY <3>2, <3>3
  <2> QED BY <2>1, <2>2
<1>4. /\ ClientInv' /\ ListInv' /\ \A t : Handling(t)' <=> Handling(t)
      /\ \A c \in Clients : Blocked(c) => phase'[c] # "running"
  BY <1>1, <1>3, StandsStill
<1>5. ServerInv'
  BY <1>1, <1>4 DEF ClockInv, ServerInv, Runs
<1> QED BY <1>2, <1>3, <1>4, <1>5 DEF ClockInv

LEMMA DestroyedKept ==
  ASSUME ClockInv, NEW c \in Clients, ClientDestroyed(c)
  PROVE  ClockInv' /\ \A d \in Clients : Blocked(d) => phase'[d] # "running"
<1>1. /\ Destroyed(c)
      /\ UNCHANGED <<num_ticks, delayed_queue, server, notifier, elapsed, lost, since>>
  BY DEF ClientDestroyed, clockVars
<1>2. /\ IpcInv' /\ UNCHANGED <<inbox, sent, sender>>
      /\ phase[c] \notin {"none", "sending"} /\ phase'[c] = "none"
      /\ \A u \in Tasks \ {c} : phase'[u] = phase[u]
  <2>1. IpcInv /\ c \in Tasks
    BY TasksAre DEF ClockInv
  <2> QED BY <1>1, <2>1, DestroyedDoes
<1>3. phase'[Server] = phase[Server] /\ phase'[Notifier] = phase[Notifier]
  BY <1>2, TasksAre
<1>4. Counts'
  <2>1. TickUnderWay' <=> TickUnderWay
    BY <1>1, <1>3 DEF TickUnderWay, Blocked
  <2> QED BY <1>1, <2>1, CountsKept
<1>5. \A d \in Clients : phase'[d] = phase[d] \/ (phase'[d] = "none" /\ phase[d] # "sending")
  BY <1>2, TasksAre
<1>6. /\ ClientInv' /\ ListInv' /\ \A t : Handling(t)' <=> Handling(t)
      /\ \A d \in Clients : Blocked(d) => phase'[d] # "running"
  BY <1>1, <1>2, <1>3, <1>4, <1>5, StandsStill
<1>7. NotifierInv'
  BY <1>1, <1>2, <1>3 DEF ClockInv, NotifierInv, Blocked
<1>8. ServerInv'
  BY <1>1, <1>2, <1>3, <1>5, <1>6 DEF ClockInv, ServerInv, Runs
<1> QED BY <1>2, <1>4, <1>6, <1>7, <1>8 DEF ClockInv

LEMMA StartKept ==
  ASSUME ClockInv, Register \/ CreateNotifier
  PROVE  ClockInv' /\ \A d \in Clients : Blocked(d) => phase'[d] # "running"
<1>1. /\ UNCHANGED <<num_ticks, delayed_queue, elapsed, lost, since>>
      /\ server \in {"register", "create"} /\ server' # "handle"
      /\ server' \in {"create", "expire"}
  BY DEF Register, CreateNotifier, clockVars
<1>2. /\ IpcInv' /\ UNCHANGED <<inbox, sent, sender>>
      /\ \A u \in Tasks \ {Notifier} : phase'[u] = phase[u]
      /\ NotifierInv' /\ (TickUnderWay' <=> TickUnderWay)
  <2>1. CASE Register
    <3>1. UNCHANGED <<ipcVars, notifier>> /\ server = "register" /\ server' = "create"
      BY <2>1 DEF Register
    <3>2. IpcInv'
      BY <3>1, IpcUnchanged DEF ClockInv
    <3> QED BY <3>1, <3>2 DEF ipcVars, ClockInv, NotifierInv, TickUnderWay, Blocked
  <2>2. CASE CreateNotifier
    <3>1. /\ Started(Notifier) /\ notifier' = "await" /\ server = "create" /\ server' = "expire"
          /\ IpcInv /\ Notifier \in Tasks
      BY <2>2, TasksAre DEF CreateNotifier, ClockInv
    <3> DEFINE n == Notifier
    <3>2. Started(n) /\ n \in Tasks /\ IpcInv
      BY <3>1
    <3> HIDE DEF n
    <3>3. /\ IpcInv' /\ UNCHANGED <<inbox, sent, sender>> /\ phase'[n] = "running"
          /\ \A u \in Tasks \ {n} : phase'[u] = phase[u]
      BY <3>2, StartedDoes
    <3>4. notifier = "none"
      BY <3>1 DEF ClockInv, NotifierInv
    <3> QED BY <3>1, <3>3, <3>4 DEF n, NotifierInv, TickUnderWay, Blocked
  <2> QED BY <2>1, <2>2
<1>3. phase'[Server] = phase[Server] /\ \A c \in Clients : phase'[c] = phase[c]
  BY <1>2, TasksAre
<1>4. Counts'
  BY <1>1, <1>2, CountsKept
<1>5. /\ ClientInv' /\ ListInv' /\ \A t : Handling(t)' <=> Handling(t)
      /\ \A d \in Clients : Blocked(d) => phase'[d] # "running"
  BY <1>1, <1>2, <1>3, <1>4, StandsStill
<1>6. ServerInv'
  BY <1>1, <1>3, <1>5 DEF ClockInv, ServerInv, Runs, Handling
<1> QED BY <1>2, <1>4, <1>5, <1>6 DEF ClockInv

\* What NotBeforeDeadline says of a step.
Returns ==
  \A c \in Clients : Blocked(c) /\ phase'[c] = "running" =>
    LET req == sent[c]
    IN  /\ req.type = "CS_DELAY_UNTIL" => num_ticks >= req.data
        /\ req.type = "CS_DELAY" /\ ~ DeadlineWrapped(c) =>
             num_ticks - since[c] >= req.data

\* An entry that is due has waited long enough.
LEMMA DueIsLate ==
  ASSUME Counts, NEW e \in Entries, EntryOK(e), e.priority <= num_ticks
  PROVE  LET req == sent[e.tid]
         IN  /\ req.type = "CS_DELAY_UNTIL" => num_ticks >= req.data
             /\ req.type = "CS_DELAY" =>
                  e.priority < 0 \/ num_ticks - since[e.tid] >= req.data
<1> DEFINE data == sent[e.tid].data
           p == e.priority
           then == since[e.tid]
           type == sent[e.tid].type
<1>1. data \in Nat /\ p \in Int /\ then \in Nat /\ p <= num_ticks /\ num_ticks \in Nat
  BY NodeTyped, RequestsAre DEF EntryOK, Counts
<1>2. \/ type = "CS_DELAY_UNTIL" /\ p = data
      \/ type = "CS_DELAY" /\ (p < 0 \/ then <= p - data)
  BY DEF EntryOK, DeadlineOK
<1> HIDE DEF data, p, then, type
<1>3. type = "CS_DELAY_UNTIL" => num_ticks >= data
  BY <1>1, <1>2
<1>4. type = "CS_DELAY" => p < 0 \/ num_ticks - then >= data
  BY <1>1, <1>2
<1> QED BY <1>3, <1>4 DEF data, p, then, type

\* The first client of the list is replied to.
LEMMA ExpireKept ==
  ASSUME ClockInv, Expire
  PROVE  ClockInv' /\ Returns
<1> DEFINE n == Len(delayed_queue)
<1>1. /\ server = "expire" /\ delayed_queue # <<>> /\ Head(delayed_queue).priority <= num_ticks
      /\ Reply(Head(delayed_queue).tid) /\ delayed_queue' = Tail(delayed_queue)
      /\ UNCHANGED <<num_ticks, server, notifier, elapsed, lost, since>>
  BY DEF Expire, Due
<1>2. /\ delayed_queue \in Seq(Entries) /\ Ordered(delayed_queue) /\ n \in Nat /\ 0 < n
      /\ Head(delayed_queue) = delayed_queue[1]
      /\ delayed_queue' \in Seq(Entries) /\ Len(delayed_queue') = n - 1
      /\ \A i \in 1 .. n - 1 : delayed_queue'[i] = delayed_queue[i + 1]
  <2> DEFINE q == delayed_queue
             x == Tail(q)
  <2>1. q \in Seq(Entries) /\ q # <<>> /\ Ordered(q)
    BY <1>1 DEF ClockInv, ListInv
  <2> HIDE DEF q
  <2>2. /\ Head(q) \in Entries /\ x \in Seq(Entries) /\ Len(x) = Len(q) - 1
        /\ \A i \in 1 .. Len(x) : x[i] = q[i + 1]
    BY <2>1, HeadTailProperties
  <2>3. Len(q) \in Nat \ {0}
    BY <2>1, EmptySeq, LenProperties, Zenon
  <2>4. Head(q) = q[1]
    BY <2>1, <2>3
  <2> HIDE DEF x
  <2>5. \A i \in 1 .. Len(q) - 1 : x[i] = q[i + 1]
    BY <2>2
  <2>6. 0 < Len(q)
    BY <2>3
  <2> QED BY <1>1, <2>1, <2>2, <2>3, <2>4, <2>5, <2>6 DEF q, x
<1>3. PICK e \in Entries : e = delayed_queue[1]
  BY <1>2, ListTyped
<1>4. PICK h \in Clients : h = e.tid
  BY NodeTyped
<1>5. EntryOK(e) /\ e.priority <= num_ticks /\ Reply(h)
  BY <1>1, <1>2, <1>3, <1>4 DEF ClockInv, ListInv
<1>6. phase[h] \in {"awaiting reply", "none"}
  BY <1>4, <1>5 DEF EntryOK
<1>7. /\ IpcInv' /\ UNCHANGED <<inbox, sender>>
      /\ \A t \in Tasks \ {h} : phase'[t] = phase[t] /\ sent'[t] = sent[t]
      /\ phase'[h] \in {"running", "none"}
  <2>1. /\ IpcInv' /\ UNCHANGED <<inbox, sender>>
        /\ \A t \in Tasks \ {h} : phase'[t] = phase[t] /\ sent'[t] = sent[t]
        /\ phase[h] = "awaiting reply" => phase'[h] = "running" /\ sent'[h] = NoMessage
        /\ phase[h] # "awaiting reply" => phase' = phase /\ sent' = sent
    <3>1. IpcInv /\ h \in Tasks
      BY TasksAre DEF ClockInv
    <3> QED BY <1>5, <3>1, ReplyDoes
  <2> QED BY <1>6, <2>1
<1>8. /\ phase'[Server] = phase[Server]
      /\ phase'[Notifier] = phase[Notifier] /\ sent'[Notifier] = sent[Notifier]
      /\ \A c \in Clients \ {h} : phase'[c] = phase[c] /\ sent'[c] = sent[c]
  BY <1>7, TasksAre
<1>9. Counts'
  <2>1. TickUnderWay' <=> TickUnderWay
    BY <1>1, <1>8 DEF TickUnderWay, Blocked
  <2> QED BY <1>1, <2>1, CountsKept
<1>10. NotifierInv'
  BY <1>1, <1>8 DEF ClockInv, NotifierInv, Blocked
<1>11. \A t : ~ Handling(t) /\ ~ Handling(t)'
  BY <1>1 DEF Handling
<1>12. ServerInv'
  BY <1>1, <1>8, <1>11 DEF ClockInv, ServerInv, Runs
<1>13. ASSUME NEW i \in 1 .. n, NEW j \in 1 .. n, i < j
       PROVE  /\ delayed_queue[i].tid # delayed_queue[j].tid
              /\ delayed_queue[i].priority <= delayed_queue[j].priority
  <2>1. Ordered(delayed_queue)
    BY <1>2
  <2> QED BY <1>13, <2>1 DEF Ordered
<1>14. ClientInv'
  <2> SUFFICES ASSUME NEW c \in Clients
               PROVE  /\ phase'[c] \in {"none", "running", "sending", "awaiting reply"}
                      /\ Blocked(c)' => sent'[c] \in Requests
                      /\ phase'[c] = "awaiting reply" => Listed(c)' \/ Handling(c)'
    BY DEF ClientInv
  <2>1. CASE c = h
    BY <1>7, <2>1 DEF Blocked
  <2>2. CASE c # h
    <3>1. phase'[c] = phase[c] /\ sent'[c] = sent[c]
      BY <1>8, <2>2
    <3>2. ASSUME Listed(c) PROVE Listed(c)'
      <4>1. PICK i \in 1 .. n : delayed_queue[i].tid = c
        BY <3>2 DEF Listed
      <4>2. i # 1
        BY <1>3, <1>4, <2>2, <4>1
      <4>3. i - 1 \in 1 .. n - 1 /\ (i - 1) + 1 = i
        BY <1>2, <4>2
      <4>4. delayed_queue'[i - 1].tid = c /\ i - 1 \in 1 .. Len(delayed_queue')
        BY <1>2, <4>1, <4>3
      <4> QED BY <4>4 DEF Listed
    <3> QED BY <1>11, <3>1, <3>2 DEF ClockInv, ClientInv, Blocked
  <2> QED BY <2>1, <2>2
<1>15. ListInv'
  <2>1. Ordered(delayed_queue')
    <3> SUFFICES ASSUME NEW i \in 1 .. n - 1, NEW j \in 1 .. n - 1, i < j
                 PROVE  /\ delayed_queue'[i].tid # delayed_queue'[j].tid
                        /\ delayed_queue'[i].priority <= delayed_queue'[j].priority
      BY <1>2 DEF Ordered
    <3>1. i + 1 \in 1 .. n /\ j + 1 \in 1 .. n /\ i + 1 < j + 1
      BY <1>2
    <3>2. delayed_queue'[i] = delayed_queue[i + 1] /\ delayed_queue'[j] = delayed_queue[j + 1]
      BY <1>2
    <3> QED BY <1>13, <3>1, <3>2
  <2>2. ASSUME NEW i \in 1 .. Len(delayed_queue')
        PROVE  EntryOK(delayed_queue[i])'
    <3>0. i + 1 \in 1 .. n /\ 1 \in 1 .. n /\ 1 < i + 1 /\ i \in 1 .. n - 1
      BY <1>2
    <3>1. PICK x \in Entries : x = delayed_queue[i + 1]
      BY <1>2, <3>0, ListTyped
    <3>2. x.tid \in Clients /\ EntryOK(x) /\ x.tid # h
      BY <1>3, <1>4, <1>13, <3>0, <3>1, NodeTyped DEF ClockInv, ListInv
    <3>3. /\ sent'[x.tid] = sent[x.tid] /\ since'[x.tid] = since[x.tid]
          /\ phase'[x.tid] \in {"awaiting reply", "none"} /\ ~ Handling(x.tid)'
      BY <1>1, <1>8, <1>11, <3>2 DEF EntryOK
    <3>4. EntryOK(x)'
      BY <1>9, <3>2, <3>3, EntryKept DEF ClockInv
    <3>5. delayed_queue'[i] = x
      BY <1>2, <3>0, <3>1
    <3> QED BY <3>4, <3>5 DEF EntryOK, DeadlineOK
  <2> QED BY <1>2, <2>1, <2>2 DEF ListInv
<1>16. Returns
  <2> SUFFICES ASSUME NEW c \in Clients, Blocked(c), phase'[c] = "running"
               PROVE  LET req == sent[c]
                      IN  /\ req.type = "CS_DELAY_UNTIL" => num_ticks >= req.data
                          /\ req.type = "CS_DELAY" /\ ~ DeadlineWrapped(c) =>
                               num_ticks - since[c] >= req.data
    BY DEF Returns
  <2>1. c = h
    BY <1>8 DEF Blocked
  <2>2. 1 \in DOMAIN delayed_queue
    BY <1>2
  <2>3. e.priority < 0 => DeadlineWrapped(c)
    BY <1>3, <1>4, <2>1, <2>2 DEF DeadlineWrapped
  <2> QED BY <1>4, <1>5, <2>1, <2>3, DueIsLate DEF ClockInv
<1> QED BY <1>7, <1>9, <1>10, <1>12, <1>14, <1>15, <1>16 DEF ClockInv

\* ClockServer calls Receive.
LEMMA ReceiveKept ==
  ASSUME ClockInv, ReceiveRequest
  PROVE  ClockInv' /\ Returns
<1>1. /\ server = "expire" /\ Receive(Server) /\ server' = "handle"
      /\ UNCHANGED <<num_ticks, delayed_queue, notifier, elapsed, lost, since>>
  BY DEF ReceiveRequest, clockVars
<1>2. /\ IpcInv' /\ sent' = sent /\ phase[Server] = "running"
      /\ \/ /\ phase'[Server] = "receiving"
            /\ \A t \in Tasks \ {Server} : phase'[t] = phase[t]
         \/ \E s \in Tasks : /\ phase[s] = "sending" /\ phase'[s] = "awaiting reply"
                             /\ \A t \in Tasks \ {s} : phase'[t] = phase[t]
                             /\ sender'[Server] = s
  <2> DEFINE r == Server
  <2>1. IpcInv /\ r \in Tasks /\ Receive(r)
    BY <1>1, TasksAre DEF ClockInv
  <2> HIDE DEF r
  <2>2. /\ IpcInv'
        /\ phase[r] = "running" /\ sent' = sent
        /\ \/ /\ phase'[r] = "receiving" /\ \A t \in Tasks \ {r} : phase'[t] = phase[t]
              /\ sender' = sender /\ inbox' = inbox /\ inbox[r] = <<>>
           \/ \E s \in Tasks :
                /\ phase[s] = "sending" /\ s # r /\ inbox[r] # <<>> /\ s = Head(inbox[r])
                /\ phase'[s] = "awaiting reply"
                /\ \A t \in Tasks \ {s} : phase'[t] = phase[t]
                /\ sender'[r] = s /\ \A t \in Tasks \ {r} : sender'[t] = sender[t]
                /\ inbox' = [inbox EXCEPT ![r] = Tail(inbox[r])]
    BY <2>1, ReceiveDoes, Zenon
  <2> QED BY <2>2, Zenon DEF r
<1>3. \A t : ~ Handling(t)
  BY <1>1 DEF Handling
<1>4. CASE phase'[Server] = "receiving"
  <2>1. \A t \in Tasks \ {Server} : phase'[t] = phase[t]
    BY <1>2, <1>4, TasksAre
  <2>2. phase'[Notifier] = phase[Notifier] /\ \A c \in Clients : phase'[c] = phase[c]
    BY <2>1, TasksAre
  <2>3. \A t : ~ Handling(t)'
    BY <1>4 DEF Handling, Runs
  <2>4. Counts'
    <3>1. TickUnderWay' <=> TickUnderWay
      BY <1>1, <2>2 DEF TickUnderWay, Blocked
    <3> QED BY <1>1, <3>1, CountsKept
  <2>5. NotifierInv'
    BY <1>1, <1>2, <2>2 DEF ClockInv, NotifierInv, Blocked
  <2>6. ServerInv'
    BY <1>1, <1>4, <2>3 DEF ServerInv
  <2>7. ClientInv'
    BY <1>1, <1>2, <1>3, <2>2 DEF ClockInv, ClientInv, Listed, Blocked
  <2>8. ListInv'
    <3>1. \A d \in Clients : phase[d] \in {"awaiting reply", "none"} /\ ~ Handling(d) =>
            /\ sent'[d] = sent[d] /\ since'[d] = since[d]
            /\ phase'[d] \in {"awaiting reply", "none"} /\ ~ Handling(d)'
      BY <1>1, <1>2, <2>2, <2>3
    <3> QED BY <1>1, <2>4, <3>1, ListKept
  <2>9. Returns
    BY <2>2 DEF Returns, Blocked
  <2> QED BY <1>2, <2>4, <2>5, <2>6, <2>7, <2>8, <2>9 DEF ClockInv
<1>5. CASE \E s \in Tasks : /\ phase[s] = "sending" /\ phase'[s] = "awaiting reply"
                            /\ \A t \in Tasks \ {s} : phase'[t] = phase[t]
                            /\ sender'[Server] = s
  <2>1. PICK s \in Tasks : /\ phase[s] = "sending" /\ phase'[s] = "awaiting reply"
                           /\ \A t \in Tasks \ {s} : phase'[t] = phase[t]
                           /\ sender'[Server] = s
    BY <1>5
  <2>2. s \in Clients \cup {Notifier} /\ s # Server
    BY <1>2, <2>1, TasksAre
  <2>3. /\ phase'[Server] = "running"
        /\ \A c \in Clients \ {s} : phase'[c] = phase[c]
        /\ Notifier # s => phase'[Notifier] = phase[Notifier]
    BY <1>2, <2>1, <2>2, TasksAre
  <2>4. \A t : Handling(t)' <=> t = s
    BY <1>1, <2>1, <2>3 DEF Handling, Runs
  <2>5. Blocked(Notifier)' <=> Blocked(Notifier)
    BY <2>1, <2>3 DEF Blocked
  <2>6. Counts'
    <3>1. TickUnderWay' <=> TickUnderWay
      BY <1>1, <2>5 DEF TickUnderWay
    <3> QED BY <1>1, <3>1, CountsKept
  <2>7. NotifierInv'
    <3>1. phase'[Notifier] = phase[Notifier]
          \/ (phase[Notifier] = "sending" /\ phase'[Notifier] = "awaiting reply")
      BY <2>1, <2>3
    <3> QED BY <1>1, <1>2, <2>5, <3>1 DEF ClockInv, NotifierInv
  <2>8. ServerInv'
    <3>1. s = Notifier \/ (s \in Clients /\ sent[s] \in Requests)
      BY <2>1, <2>2 DEF ClockInv, ClientInv, Blocked
    <3> QED BY <1>1, <1>2, <2>1, <2>3, <2>4, <3>1 DEF ServerInv, Runs
  <2>9. ClientInv'
    <3> SUFFICES ASSUME NEW c \in Clients
                 PROVE  /\ phase'[c] \in {"none", "running", "sending", "awaiting reply"}
                        /\ Blocked(c)' => sent'[c] \in Requests
                        /\ phase'[c] = "awaiting reply" => Listed(c)' \/ Handling(c)'
      BY DEF ClientInv
    <3>1. CASE c = s
      BY <1>2, <2>1, <2>4, <3>1 DEF ClockInv, ClientInv, Blocked
    <3>2. CASE c # s
      BY <1>1, <1>2, <1>3, <2>3, <3>2 DEF ClockInv, ClientInv, Blocked, Listed
    <3> QED BY <3>1, <3>2
  <2>10. ListInv'
    <3>1. \A d \in Clients : phase[d] \in {"awaiting reply", "none"} /\ ~ Handling(d) =>
            /\ sent'[d] = sent[d] /\ since'[d] = since[d]
            /\ phase'[d] \in {"awaiting reply", "none"} /\ ~ Handling(d)'
      BY <1>1, <1>2, <2>1, <2>3, <2>4
    <3> QED BY <1>1, <2>6, <3>1, ListKept
  <2>11. Returns
    BY <2>1, <2>3 DEF Returns, Blocked
  <2> QED BY <1>2, <2>6, <2>7, <2>8, <2>9, <2>10, <2>11 DEF ClockInv
<1> QED BY <1>2, <1>4, <1>5

\* No sum of a time and an argument leaves the int but once around.
LEMMA DeadlineTyped ==
  ASSUME Counts, num_ticks <= INT_MAX, NEW req \in Requests
  PROVE  /\ Deadline(req) \in Times
         /\ req.type = "CS_DELAY" =>
              Deadline(req) = req.data + num_ticks \/ Deadline(req) < 0
<1> DEFINE data == req.data
<1>1. data \in Nat /\ data <= INT_MAX /\ INT_MAX \in Nat /\ num_ticks \in Nat
  BY RequestsAre, ClockAssumption DEF Counts
<1>2. Deadline(req) = IF req.type = "CS_DELAY" THEN Wrapped(data + num_ticks) ELSE data
  BY DEF Deadline
<1> HIDE DEF data
<1>3. data \in Times
  BY <1>1 DEF Times
<1>4. /\ Wrapped(data + num_ticks) \in Times
      /\ Wrapped(data + num_ticks) = data + num_ticks \/ Wrapped(data + num_ticks) < 0
  BY <1>1 DEF Times, Wrapped
<1> QED BY <1>2, <1>3, <1>4 DEF data

\* A tick is counted and the notifier goes on.
LEMMA HandleTickKept ==
  ASSUME ClockInv, Handle, sender[Server] = Notifier
  PROVE  ClockInv' /\ Returns
<1>1. /\ server = "handle" /\ Handling(Notifier) /\ phase[Server] = "running"
      /\ server' = "expire" /\ UNCHANGED <<notifier, elapsed, lost, since>>
  BY DEF Handle, Handling, Runs
<1>2. phase[Notifier] = "awaiting reply" /\ sent[Notifier].type = "CS_TICK"
  BY <1>1, TasksAre DEF ClockInv, ServerInv, NotifierInv, Blocked
<1>3. /\ Reply(Notifier) /\ delayed_queue' = delayed_queue /\ num_ticks' = Wrapped(num_ticks + 1)
  BY <1>2 DEF Handle, Received, TicksAfter
<1>4. /\ IpcInv' /\ phase'[Notifier] = "running" /\ phase'[Server] = phase[Server]
      /\ \A c \in Clients : phase'[c] = phase[c] /\ sent'[c] = sent[c]
  <2> DEFINE s == Notifier
  <2>1. IpcInv /\ s \in Tasks /\ Reply(s) /\ phase[s] = "awaiting reply"
    BY <1>2, <1>3, TasksAre DEF ClockInv
  <2> HIDE DEF s
  <2>2. /\ IpcInv' /\ phase'[s] = "running"
        /\ \A t \in Tasks \ {s} : phase'[t] = phase[t] /\ sent'[t] = sent[t]
    BY <2>1, ReplyDoes
  <2> QED BY <2>2, TasksAre DEF s
<1>5. notifier = "sent" /\ TickUnderWay /\ ~ TickUnderWay'
  <2>1. notifier = "sent"
    BY <1>2 DEF ClockInv, NotifierInv
  <2> QED BY <1>1, <1>2, <1>4, <2>1 DEF TickUnderWay, Blocked
<1>6. num_ticks' = num_ticks + 1
  BY <1>3, <1>5, ClockAssumption DEF ClockInv, Counts, TicksAccounted, Wrapped
<1>7. Counts'
  BY <1>1, <1>5, <1>6, ClockAssumption DEF ClockInv, Counts, TicksAccounted
<1>8. NotifierInv'
  BY <1>1, <1>4, <1>5 DEF NotifierInv, Blocked
<1>9. (\A t : ~ Handling(t)') /\ \A c \in Clients : ~ Handling(c)
  BY <1>1, TasksAre DEF Handling
<1>10. ServerInv'
  BY <1>1, <1>4, <1>9 DEF ServerInv, Runs
<1>11. ClientInv'
  BY <1>3, <1>4, <1>9 DEF ClockInv, ClientInv, Blocked, Listed
<1>12. ListInv'
  <2>1. \A d \in Clients : phase[d] \in {"awaiting reply", "none"} /\ ~ Handling(d) =>
          /\ sent'[d] = sent[d] /\ since'[d] = since[d]
          /\ phase'[d] \in {"awaiting reply", "none"} /\ ~ Handling(d)'
    BY <1>1, <1>4, <1>9
  <2> QED BY <1>3, <1>7, <2>1, ListKept
<1>13. Returns
  BY <1>4 DEF Returns, Blocked
<1> QED BY <1>4, <1>7, <1>8, <1>10, <1>11, <1>12, <1>13 DEF ClockInv

\* A client is told the time, or put into the list.
LEMMA HandleCallKept ==
  ASSUME ClockInv, Handle, NEW c \in Clients, sender[Server] = c
  PROVE  ClockInv' /\ Returns
<1> DEFINE req == sent[c]
<1>1. /\ server = "handle" /\ Handling(c) /\ phase[Server] = "running"
      /\ server' = "expire" /\ UNCHANGED <<notifier, elapsed, lost, since>>
  BY DEF Handle, Handling, Runs
<1>2. phase[c] \in {"awaiting reply", "none"} /\ req \in Requests
  BY <1>1, TasksAre DEF ClockInv, ServerInv
<1>3. req.type \in {"CS_TIME", "CS_DELAY", "CS_DELAY_UNTIL"}
  BY <1>2, RequestsAre
<1>4. num_ticks' = num_ticks
  BY <1>3 DEF Handle, Received, TicksAfter
<1>5. /\ \A t : ~ Handling(t)'
      /\ \A t : Handling(t) => t = c
  BY <1>1 DEF Handling
<1>6. CASE req.type = "CS_TIME"
  <2>1. Reply(c) /\ delayed_queue' = delayed_queue
    BY <1>6 DEF Handle, Received
  <2>2. /\ IpcInv' /\ \A t \in Tasks \ {c} : phase'[t] = phase[t] /\ sent'[t] = sent[t]
        /\ phase'[c] \in {"running", "none"}
    <3>1. IpcInv /\ c \in Tasks
      BY TasksAre DEF ClockInv
    <3>2. /\ IpcInv' /\ UNCHANGED <<inbox, sender>>
          /\ \A t \in Tasks \ {c} : phase'[t] = phase[t] /\ sent'[t] = sent[t]
          /\ phase[c] = "awaiting reply" => phase'[c] = "running" /\ sent'[c] = NoMessage
          /\ phase[c] # "awaiting reply" => phase' = phase /\ sent' = sent
      BY <2>1, <3>1, ReplyDoes
    <3> QED BY <1>2, <3>2
  <2>3. /\ phase'[Server] = phase[Server]
        /\ phase'[Notifier] = phase[Notifier] /\ sent'[Notifier] = sent[Notifier]
        /\ \A d \in Clients \ {c} : phase'[d] = phase[d] /\ sent'[d] = sent[d]
    BY <2>2, TasksAre
  <2>4. Counts'
    <3>1. TickUnderWay' <=> TickUnderWay
      BY <1>1, <2>3 DEF TickUnderWay, Blocked
    <3> QED BY <1>1, <1>4, <3>1, CountsKept
  <2>5. NotifierInv'
    BY <1>1, <2>3 DEF ClockInv, NotifierInv, Blocked
  <2>6. ServerInv'
    BY <1>1, <1>5, <2>3 DEF ServerInv, Runs
  <2>7. ClientInv'
    <3> SUFFICES ASSUME NEW d \in Clients
                 PROVE  /\ phase'[d] \in {"none", "running", "sending", "awaiting reply"}
                        /\ Blocked(d)' => sent'[d] \in Requests
                        /\ phase'[d] = "awaiting reply" => Listed(d)' \/ Handling(d)'
      BY DEF ClientInv
    <3>1. CASE d = c
      BY <2>2, <3>1 DEF Blocked
    <3>2. CASE d # c
      BY <1>5, <2>1, <2>3, <3>2 DEF ClockInv, ClientInv, Blocked, Listed
    <3> QED BY <3>1, <3>2
  <2>8. ListInv'
    <3>1. \A d \in Clients : phase[d] \in {"awaiting reply", "none"} /\ ~ Handling(d) =>
            /\ sent'[d] = sent[d] /\ since'[d] = since[d]
            /\ phase'[d] \in {"awaiting reply", "none"} /\ ~ Handling(d)'
      BY <1>1, <1>5, <2>3
    <3> QED BY <1>1, <2>1, <2>4, <3>1, ListKept
  <2>9. Returns
    BY <1>6, <2>3 DEF Returns, Blocked
  <2> QED BY <2>2, <2>4, <2>5, <2>6, <2>7, <2>8, <2>9 DEF ClockInv
<1>7. CASE req.type \in {"CS_DELAY", "CS_DELAY_UNTIL"}
  <2>1. /\ UNCHANGED <<phase, inbox, sent, sender>>
        /\ delayed_queue' = SortedListInsert(delayed_queue,
                                              [tid |-> c, priority |-> Deadline(req)])
    BY <1>7 DEF Handle, Received, ipcVars
  <2>2. IpcInv'
    BY <2>1, IpcUnchanged DEF ClockInv, ipcVars
  <2>3. Counts'
    <3>1. TickUnderWay' <=> TickUnderWay
      BY <1>1, <2>1 DEF TickUnderWay, Blocked
    <3> QED BY <1>1, <1>4, <3>1, CountsKept
  <2>4. NotifierInv'
    BY <1>1, <2>1 DEF ClockInv, NotifierInv, Blocked
  <2>5. ServerInv'
    BY <1>1, <1>5, <2>1 DEF ServerInv, Runs
  <2>6. /\ Deadline(req) \in Times
        /\ req.type = "CS_DELAY" =>
             Deadline(req) = req.data + num_ticks \/ Deadline(req) < 0
    BY <1>2, CountsAre, DeadlineTyped DEF ClockInv
  <2>7. PICK node \in Entries : /\ node.tid = c /\ node.priority = Deadline(req)
                                /\ delayed_queue' = SortedListInsert(delayed_queue, node)
    BY <2>1, <2>6 DEF Entries
  <2>8. \A i \in 1 .. Len(delayed_queue) : delayed_queue[i].tid # node.tid
    BY <1>1, <2>7 DEF ClockInv, ListInv, EntryOK
  <2>9. /\ delayed_queue' \in Seq(Entries) /\ Ordered(delayed_queue')
        /\ \E i \in 1 .. Len(delayed_queue') : delayed_queue'[i] = node
        /\ \A i \in 1 .. Len(delayed_queue) :
             \E j \in 1 .. Len(delayed_queue') : delayed_queue'[j] = delayed_queue[i]
        /\ \A j \in 1 .. Len(delayed_queue') :
             delayed_queue'[j] = node
             \/ \E i \in 1 .. Len(delayed_queue) : delayed_queue'[j] = delayed_queue[i]
    <3>1. delayed_queue \in Seq(Entries) /\ Ordered(delayed_queue)
      BY DEF ClockInv, ListInv
    <3> DEFINE new == SortedListInsert(delayed_queue, node)
    <3>2. /\ new \in Seq(Entries) /\ Ordered(new)
          /\ \E i \in 1 .. Len(new) : new[i] = node
          /\ \A i \in 1 .. Len(delayed_queue) :
               \E j \in 1 .. Len(new) : new[j] = delayed_queue[i]
          /\ \A j \in 1 .. Len(new) :
               new[j] = node \/ \E i \in 1 .. Len(delayed_queue) : new[j] = delayed_queue[i]
      BY <2>8, <3>1, InsertKeepsOrder
    <3>3. delayed_queue' = new
      BY <2>7
    <3> HIDE DEF new
    <3> QED BY <3>2, <3>3
  <2>10. DeadlineOK(node)'
    <3> DEFINE data == req.data
               p == node.priority
               then == since[c]
    <3>1. /\ data \in Nat /\ p \in Int /\ then \in Nat /\ num_ticks \in Nat
          /\ INT_MAX \in Nat /\ then <= num_ticks
      <4>1. data \in Nat /\ p \in Int
        BY <1>2, <2>7, RequestsAre, NodeTyped
      <4> QED BY <4>1, ClockAssumption DEF ClockInv, Counts
    <3>2. req.type = "CS_DELAY_UNTIL" => p = data
      BY <2>7 DEF Deadline
    <3>3. req.type = "CS_DELAY" => p = data + num_ticks \/ p < 0
      BY <2>6, <2>7
    <3> HIDE DEF data, p, then
    <3>4. p = data + num_ticks => then <= p - data
      BY <3>1
    <3>5. \/ req.type = "CS_DELAY_UNTIL" /\ p = data
          \/ req.type = "CS_DELAY" /\ (p < 0 \/ then <= p - data)
      BY <1>7, <3>2, <3>3, <3>4
    <3> QED BY <1>1, <2>1, <2>7, <3>5 DEF DeadlineOK, data, p, then
  <2>11. EntryOK(node)'
    BY <1>2, <1>5, <2>1, <2>7, <2>10 DEF EntryOK
  <2>12. ASSUME NEW j \in 1 .. Len(delayed_queue')
         PROVE  EntryOK(delayed_queue[j])'
    <3>1. CASE delayed_queue'[j] = node
      BY <2>11, <3>1 DEF EntryOK, DeadlineOK
    <3>2. CASE \E i \in 1 .. Len(delayed_queue) : delayed_queue'[j] = delayed_queue[i]
      <4>1. PICK i \in 1 .. Len(delayed_queue) : delayed_queue'[j] = delayed_queue[i]
        BY <3>2
      <4>2. PICK e \in Entries : e = delayed_queue[i]
        BY ListTyped DEF ClockInv, ListInv
      <4>3. e.tid \in Clients /\ EntryOK(e)
        BY <4>2, NodeTyped DEF ClockInv, ListInv
      <4>4. /\ sent'[e.tid] = sent[e.tid] /\ since'[e.tid] = since[e.tid]
            /\ phase'[e.tid] \in {"awaiting reply", "none"} /\ ~ Handling(e.tid)'
        BY <1>1, <1>5, <2>1, <4>3 DEF EntryOK
      <4>5. EntryOK(e)'
        BY <2>3, <4>3, <4>4, EntryKept DEF ClockInv
      <4> QED BY <4>1, <4>2, <4>5 DEF EntryOK, DeadlineOK
    <3> QED BY <2>9, <3>1, <3>2
  <2>13. ListInv'
    BY <2>9, <2>12 DEF ListInv
  <2>14. ClientInv'
    <3> SUFFICES ASSUME NEW d \in Clients, phase'[d] = "awaiting reply"
                 PROVE  Listed(d)'
      BY <2>1 DEF ClockInv, ClientInv, Blocked
    <3>1. CASE d = c
      BY <2>7, <2>9, <3>1 DEF Listed
    <3>2. CASE d # c
      <4>1. Listed(d)
        BY <1>5, <2>1, <3>2 DEF ClockInv, ClientInv
      <4> QED BY <2>9, <4>1 DEF Listed
    <3> QED BY <3>1, <3>2
  <2>15. Returns
    BY <2>1 DEF Returns, Blocked
  <2> QED BY <2>2, <2>3, <2>4, <2>5, <2>13, <2>14, <2>15 DEF ClockInv
<1> QED BY <1>3, <1>6, <1>7

-----------------------------------------------------------------------------
(* The theorems.                                                           *)

LEMMA ClockNext == ClockInv /\ [Next]_vars => ClockInv' /\ Returns
<1> SUFFICES ASSUME ClockInv, [Next]_vars PROVE ClockInv' /\ Returns
  OBVIOUS
<1>0. (\A d \in Clients : Blocked(d) => phase'[d] # "running") => Returns
  BY DEF Returns
<1>1. CASE Register \/ CreateNotifier
  BY <1>0, <1>1, StartKept
<1>2. CASE Expire
  BY <1>2, ExpireKept
<1>3. CASE ReceiveRequest
  BY <1>3, ReceiveKept
<1>4. CASE Handle
  <2>1. Handling(sender[Server])
    BY <1>4 DEF Handle, Handling
  <2>2. sender[Server] \in Clients \cup {Notifier}
    BY <2>1 DEF ClockInv, ServerInv
  <2>3. CASE sender[Server] = Notifier
    BY <1>4, <2>3, HandleTickKept
  <2>4. CASE sender[Server] \in Clients
    <3>1. PICK c \in Clients : sender[Server] = c
      BY <2>4
    <3> QED BY <1>4, <3>1, HandleCallKept
  <2> QED BY <2>2, <2>3, <2>4
<1>5. CASE AwaitTimer \/ TickSent \/ TimerExpires
  BY <1>0, <1>5, TimerKept
<1>6. CASE SendTick
  BY <1>0, <1>6, SendTickKept DEF Blocked
<1>7. CASE \E c \in Clients : Call(c)
  BY <1>0, <1>7, CallKept
<1>8. CASE \E c \in Clients : ClientDestroyed(c)
  BY <1>0, <1>8, DestroyedKept
<1>9. CASE UNCHANGED vars
  <2>1. /\ UNCHANGED <<ipcVars, phase, inbox, sent, sender>>
        /\ UNCHANGED <<num_ticks, delayed_queue, server, notifier, elapsed, lost, since>>
    BY <1>9 DEF vars, ipcVars, clockVars
  <2>2. IpcInv'
    BY <2>1, IpcUnchanged DEF ClockInv
  <2>3. Counts'
    <3>1. TickUnderWay' <=> TickUnderWay
      BY <2>1 DEF TickUnderWay, Blocked
    <3> QED BY <2>1, <3>1, CountsKept
  <2>4. NotifierInv'
    BY <2>1 DEF ClockInv, NotifierInv, Blocked
  <2>5. /\ ClientInv' /\ ListInv' /\ \A t : Handling(t)' <=> Handling(t)
        /\ \A c \in Clients : Blocked(c) => phase'[c] # "running"
    BY <2>1, <2>3, StandsStill
  <2>6. ServerInv'
    BY <2>1, <2>5 DEF ClockInv, ServerInv, Runs
  <2> QED BY <1>0, <2>2, <2>3, <2>4, <2>5, <2>6 DEF ClockInv
<1> QED BY <1>1, <1>2, <1>3, <1>4, <1>5, <1>6, <1>7, <1>8, <1>9
        DEF Next, ServerStep, NotifierStep, TimeIsUp

LEMMA ClockAlways == Spec => []ClockInv
<1>1. Init => ClockInv
  BY ClockInit
<1>2. ClockInv /\ [Next]_vars => ClockInv'
  BY ClockNext
<1> QED BY <1>1, <1>2, PTL DEF Spec

\* The books of usr/clockserver.c are right however many clients call it, with
\* whatever arguments, are destroyed meanwhile, and however long the timer runs:
\* num_ticks counts every expiry but those that came while TimerNotifier was
\* not in AwaitEvent and the one it reports, no deadline leaves the int, and a
\* client that Receive has taken a Delay or DelayUntil from is in
\* delayed_queue, once, at the place of its deadline.
THEOREM ClockBooks == Spec => []ClockConsistent
<1>1. ClockInv => ClockConsistent
  <2> SUFFICES ASSUME ClockInv PROVE ClockConsistent
    OBVIOUS
  <2>1. /\ num_ticks \in Nat /\ lost \in Nat /\ elapsed \in Nat /\ MaxElapsed \in Nat
        /\ num_ticks + lost <= elapsed /\ num_ticks <= INT_MAX /\ elapsed <= MaxElapsed
        /\ INT_MAX \in Nat
    BY CountsAre, ClockAssumption DEF ClockInv, Counts
  <2>2. num_ticks \in 0 .. INT_MAX /\ elapsed \in 0 .. MaxElapsed /\ lost \in 0 .. MaxElapsed
    BY <2>1
  <2>3. since \in [Clients -> 0 .. MaxElapsed]
    <3>1. since \in [Clients -> Nat] /\ \A c \in Clients : since[c] <= num_ticks
      BY DEF ClockInv, Counts
    <3>2. \A c \in Clients : since[c] \in 0 .. MaxElapsed
      BY <2>1, <3>1
    <3> QED BY <3>1, <3>2
  <2>4. delayed_queue \in Seq([tid : Clients, priority : -INT_MAX - 1 .. INT_MAX])
    BY DEF ClockInv, ListInv, Entries, Times
  <2>5. ClockTypeOK
    BY <2>2, <2>3, <2>4 DEF ClockTypeOK, ClockInv, ServerInv, NotifierInv
  <2>6. DOMAIN delayed_queue = 1 .. Len(delayed_queue)
    BY ListTyped DEF ClockInv, ListInv
  <2>7. \A c \in Clients : Delayed(c) => \E i \in DOMAIN delayed_queue :
                                           delayed_queue[i].tid = c
    BY <2>6 DEF Delayed, ClockInv, ClientInv, Listed, Handling
  <2>8. DelayedClients
    BY <2>6, <2>7 DEF DelayedClients, ClockInv, ListInv, Ordered
  <2> QED BY <2>5, <2>8 DEF ClockConsistent, ClockInv, Counts
<1> QED BY <1>1, ClockAlways, PTL

\* A caller of Delay is replied to after num_ticks has grown by what it asked
\* for, unless its deadline left the int; one of DelayUntil once num_ticks is
\* no less than what it gave (equal is enough for the loop over delayed_queue,
\* which is not what include/clockserver.h says).  For any number of clients,
\* arguments and ticks, lost ones among them.
THEOREM DelaysLastLongEnough == Spec => NotBeforeDeadline
<1>1. ClockInv /\ [Next]_vars => Returns
  BY ClockNext
<1> QED BY <1>1, ClockAlways, PTL DEF Spec, NotBeforeDeadline, Returns
=============================================================================
