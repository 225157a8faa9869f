------------------------- MODULE SerialServerProofs -------------------------
(***************************************************************************)
(* The serial server, for any number of tasks that call Putc and Getc, any *)
(* size of its buffers and any number of characters: its books agree with  *)
(* what its callers and secretaries hold, characters are transmitted in    *)
(* the order of Putc, and Getc returns them in the order of arrival.       *)
(***************************************************************************)
EXTENDS SerialServer, IpcProofs

-----------------------------------------------------------------------------
(* The buffers: what is added comes last, what is taken was first.         *)

\* The i-th element.
Item(b, i) == b.data[(b.start + i - 1) % SIZE]

LEMMA Wraps ==
  ASSUME NEW n \in Nat, n >= 1
  PROVE  /\ \A a \in 0 .. n - 1 : a % n = a
         /\ \A a \in n .. 2 * n - 1 : a % n = a - n
OBVIOUS

\* Counting from start, each index is met once.
LEMMA IndexOf ==
  ASSUME NEW start \in Indices, NEW i \in 0 .. SIZE
  PROVE  /\ (start + i) % SIZE = IF start + i < SIZE THEN start + i ELSE start + i - SIZE
         /\ (start + i) % SIZE \in Indices
<1>1. SIZE \in Nat /\ SIZE >= 1 /\ start \in 0 .. SIZE - 1
  BY CyclicBufferAssumption DEF Indices
<1>2. CASE start + i < SIZE
  <2>1. start + i \in 0 .. SIZE - 1
    BY <1>1, <1>2
  <2> QED BY <1>1, <1>2, <2>1, Wraps DEF Indices
<1>3. CASE start + i >= SIZE
  <2>1. start + i \in SIZE .. 2 * SIZE - 1 /\ start + i - SIZE \in 0 .. SIZE - 1
    BY <1>1, <1>3
  <2>2. (start + i) % SIZE = start + i - SIZE
    BY <1>1, <2>1, Wraps
  <2>3. ~ (start + i < SIZE)
    BY <1>1, <1>3
  <2> QED BY <2>1, <2>2, <2>3 DEF Indices
<1> QED BY <1>1, <1>2, <1>3

LEMMA ItemTyped ==
  ASSUME NEW b \in BufferTypes, NEW i \in 1 .. b.num_els
  PROVE  Item(b, i) \in Int /\ Contents(b)[i] = Item(b, i)
<1>1. /\ b.data \in [Indices -> Int] /\ b.start \in Indices /\ b.num_els \in 0 .. SIZE
      /\ SIZE \in Nat
  BY CyclicBufferAssumption DEF BufferTypes
<1>2. i - 1 \in 0 .. SIZE /\ b.start + (i - 1) = b.start + i - 1
  BY <1>1 DEF Indices
<1>3. (b.start + i - 1) % SIZE \in Indices
  BY <1>1, <1>2, IndexOf
<1> QED BY <1>1, <1>3 DEF Item, Contents

\* CyclicBufferPush appends, unless there is no room.
LEMMA PushDoes ==
  ASSUME NEW b \in BufferTypes, ~ IsCyclicBufferFull(b), NEW x \in Int,
         NEW new, new = CyclicBufferPush(b, x)
  PROVE  /\ new \in BufferTypes /\ new.num_els = b.num_els + 1
         /\ \A i \in 1 .. b.num_els : Item(new, i) = Item(b, i)
         /\ Item(new, new.num_els) = x
<1> DEFINE at(i) == (b.start + i) % SIZE
           n == b.num_els
<1>1. /\ b = [data |-> b.data, start |-> b.start, num_els |-> n]
      /\ b.data \in [Indices -> Int] /\ b.start \in Indices /\ n \in 0 .. SIZE
      /\ SIZE \in Nat
  BY CyclicBufferAssumption DEF BufferTypes
<1>2. n \in 0 .. SIZE - 1
  BY <1>1 DEF IsCyclicBufferFull
<1>3. \A i \in 0 .. n : at(i) \in Indices
  BY <1>1, <1>2, IndexOf
<1>4. \A i \in 0 .. n - 1 : at(i) # at(n)
  <2> SUFFICES ASSUME NEW i \in 0 .. n - 1 PROVE at(i) # at(n)
    OBVIOUS
  <2>1. i \in 0 .. SIZE /\ n \in 0 .. SIZE
    BY <1>1
  <2>2. /\ at(i) = IF b.start + i < SIZE THEN b.start + i ELSE b.start + i - SIZE
        /\ at(n) = IF b.start + n < SIZE THEN b.start + n ELSE b.start + n - SIZE
    BY <1>1, <2>1, IndexOf
  <2>3. b.start \in 0 .. SIZE - 1
    BY <1>1 DEF Indices
  <2> HIDE DEF at, n
  <2> QED BY <1>1, <1>2, <2>2, <2>3
<1>5. /\ new.data = [b.data EXCEPT ![at(n)] = x] /\ new.start = b.start /\ new.num_els = n + 1
      /\ new = [data |-> new.data, start |-> new.start, num_els |-> new.num_els]
  BY <1>1 DEF CyclicBufferPush
<1>6. new.data \in [Indices -> Int] /\ n + 1 \in 0 .. SIZE
  <2>1. \A k : [b.data EXCEPT ![k] = x] \in [Indices -> Int]
    BY <1>1
  <2>2. n + 1 \in 0 .. SIZE
    BY <1>1, <1>2
  <2> HIDE DEF at, n
  <2> QED BY <1>5, <2>1, <2>2
<1>7. new \in BufferTypes
  BY <1>1, <1>5, <1>6 DEF BufferTypes
<1>8. ASSUME NEW i \in 1 .. n PROVE Item(new, i) = Item(b, i)
  <2>1. i - 1 \in 0 .. n - 1 /\ i - 1 \in 0 .. n /\ b.start + i - 1 = b.start + (i - 1)
    BY <1>1 DEF Indices
  <2>2. at(i - 1) # at(n) /\ at(i - 1) \in Indices
    BY <1>3, <1>4, <2>1
  <2>3. Item(new, i) = new.data[at(i - 1)] /\ Item(b, i) = b.data[at(i - 1)]
    BY <1>5, <2>1 DEF Item
  <2> HIDE DEF at
  <2> QED BY <1>1, <1>5, <2>2, <2>3
<1>9. Item(new, n + 1) = x
  <2>1. b.start + (n + 1) - 1 = b.start + n /\ n \in 0 .. n
    BY <1>1 DEF Indices
  <2>2. Item(new, n + 1) = new.data[at(n)] /\ at(n) \in Indices
    BY <1>3, <1>5, <2>1 DEF Item
  <2> HIDE DEF at
  <2> QED BY <1>1, <1>5, <2>2
<1> QED BY <1>5, <1>7, <1>8, <1>9

\* CyclicBufferPop takes the first.
LEMMA PopDoes ==
  ASSUME NEW b \in BufferTypes, ~ IsCyclicBufferEmpty(b),
         NEW new, new = CyclicBufferPop(b)
  PROVE  /\ new \in BufferTypes /\ new.num_els = b.num_els - 1 /\ b.num_els >= 1
         /\ First(b) = Item(b, 1)
         /\ \A i \in 1 .. new.num_els : Item(new, i) = Item(b, i + 1)
<1> DEFINE n == b.num_els
           s == b.start
<1>1. /\ b = [data |-> b.data, start |-> s, num_els |-> n]
      /\ b.data \in [Indices -> Int] /\ s \in Indices /\ n \in 0 .. SIZE
      /\ SIZE \in Nat /\ SIZE >= 1 /\ s \in 0 .. SIZE - 1
  BY CyclicBufferAssumption DEF BufferTypes, Indices
<1>2. n \in 1 .. SIZE
  BY <1>1 DEF IsCyclicBufferEmpty
<1>3. /\ new.data = b.data /\ new.start = (s + 1) % SIZE /\ new.num_els = n - 1
      /\ new = [data |-> new.data, start |-> new.start, num_els |-> new.num_els]
  BY <1>1 DEF CyclicBufferPop
<1>4. /\ new.start \in Indices
      /\ new.start = IF s + 1 < SIZE THEN s + 1 ELSE s + 1 - SIZE
  BY <1>1, <1>3, IndexOf
<1>5. new \in BufferTypes
  <2>1. n - 1 \in 0 .. SIZE
    BY <1>2, <1>1
  <2> QED BY <1>1, <1>3, <1>4, <2>1 DEF BufferTypes
<1>6. First(b) = Item(b, 1)
  <2>1. s + 1 - 1 = s /\ s + 0 = s /\ s % SIZE = s
    BY <1>1, Wraps
  <2> QED BY <2>1 DEF First, Item
<1>7. ASSUME NEW i \in 1 .. n - 1 PROVE Item(new, i) = Item(b, i + 1)
  <2> DEFINE t == new.start
  <2>1. i - 1 \in 0 .. SIZE /\ i \in 0 .. SIZE
    BY <1>1, <1>2
  <2>2. /\ (t + (i - 1)) % SIZE = IF t + (i - 1) < SIZE THEN t + (i - 1) ELSE t + (i - 1) - SIZE
        /\ (s + i) % SIZE = IF s + i < SIZE THEN s + i ELSE s + i - SIZE
    BY <1>1, <1>4, <2>1, IndexOf
  <2>3. t \in 0 .. SIZE - 1 /\ t = IF s + 1 < SIZE THEN s + 1 ELSE s + 1 - SIZE
    BY <1>4 DEF Indices
  <2>4. (t + (i - 1)) % SIZE = (s + i) % SIZE
    <3> HIDE DEF t, s, n
    <3> QED BY <1>1, <1>2, <2>1, <2>2, <2>3
  <2>5. t + i - 1 = t + (i - 1) /\ s + (i + 1) - 1 = s + i
    <3> HIDE DEF t, s, n
    <3> QED BY <1>1, <2>1, <2>3
  <2> QED BY <1>3, <2>4, <2>5 DEF Item
<1> QED BY <1>2, <1>3, <1>5, <1>6, <1>7

-----------------------------------------------------------------------------
(* The inductive invariant.                                                *)

Secretaries == {TransmitSecretary, ReceiveSecretary}
Callers(s) == IF s = TransmitSecretary THEN Putters ELSE Getters
KindOf(t) ==
  IF t \in {TransmitSecretary} \cup Putters THEN "SS_TRANSMIT"
  ELSE IF t \in {ReceiveSecretary} \cup Getters THEN "SS_RECEIVE" ELSE "SS_NOTIFIER"

\* Has the server taken a message of t that it has yet to handle?  Has it
\* handled one and kept the reply back?
Handling(t) == pc[Server] = "handle" /\ Runs(Server) /\ sender[Server] = t
LeftWaiting(t) == phase[t] = "awaiting reply" /\ ~ Handling(t)

\* Who sends to whom, and what.
MaySend(s, r) ==
  \/ r = Server /\ s \in {Courier} \cup Secretaries
  \/ r = Notifier /\ s = Courier
  \/ r \in Secretaries /\ s \in Callers(r)
MailInv ==
  \A r \in Tasks : /\ \A i \in 1 .. Len(inbox[r]) : MaySend(inbox[r][i], r)
                   /\ phase[r] = "receiving" => inbox[r] = <<>>
MessagesInv == \A t \in Tasks : sent[t].type \in {"none", KindOf(t)}

\* How the place of a task in its loop limits what it is blocked in.
ServerOK ==
  /\ phase[Server] = "receiving" => pc[Server] = "handle"
  /\ \A t : Handling(t) => /\ t \in {Courier} \cup Secretaries
                           /\ t \in Secretaries => phase[t] = "awaiting reply"
SecretaryOK(s) ==
  /\ pc[s] \in {"receive", "send", "reply"}
  /\ pc[s] = "receive" => phase[s] = "running"
  /\ pc[s] = "send" => phase[s] \in {"running", "receiving"}
  /\ pc[s] = "reply" => phase[s] \in {"running", "sending", "awaiting reply"}
  /\ pc[s] = "receive" \/ phase[s] = "receiving" \/ sender[s] \in Callers(s)
PhasesInv == ServerOK /\ \A s \in Secretaries : SecretaryOK(s)

\* The characters of Putc: those accepted, one with the secretary on its way
\* to the server, and one with each caller that waits for the secretary.
Carries ==
  \/ pc[TransmitSecretary] = "send" /\ Runs(TransmitSecretary)
  \/ phase[TransmitSecretary] = "sending"
  \/ Handling(TransmitSecretary)
Accepted == written + transmit_buffer.num_els
Carried == IF Carries THEN 1 ELSE 0
Character(k) == [type |-> "SS_TRANSMIT", data |-> k]
PipelineInv ==
  /\ put = Accepted + Carried + Len(inbox[TransmitSecretary])
  /\ \A i \in 1 .. Len(inbox[TransmitSecretary]) :
       sent[inbox[TransmitSecretary][i]] = Character(Accepted + Carried + i)
  /\ Carries =>
       /\ phase[sender[TransmitSecretary]] = "awaiting reply"
       /\ sent[sender[TransmitSecretary]] = Character(Accepted + 1)
       /\ pc[TransmitSecretary] # "send" => sent[TransmitSecretary] = Character(Accepted + 1)

\* The buffer of the transmitter.  Only while it is full does the secretary
\* wait with its character already accepted.
TransmitterInv ==
  /\ \A i \in 1 .. transmit_buffer.num_els : Item(transmit_buffer, i) = written + i
  /\ IsCyclicBufferFull(transmit_buffer) => LeftWaiting(TransmitSecretary)
  /\ pc[Server] = "start transmitter" => ~ IsCyclicBufferEmpty(transmit_buffer)

\* Characters received: each is later than all that is further on its way.
OrderInv ==
  /\ \A i \in 1 .. receive_buffer.num_els :
       /\ answer[ReceiveSecretary] < Item(receive_buffer, i)
       /\ Item(receive_buffer, i) <= arrived
       /\ RxFull => Item(receive_buffer, i) < uart.rx
       /\ \A j \in 1 .. i - 1 : Item(receive_buffer, j) < Item(receive_buffer, i)
  /\ RxFull => answer[ReceiveSecretary] < uart.rx /\ uart.rx <= arrived
  /\ answer[ReceiveSecretary] <= arrived
  /\ \A c \in Getters : answer[c] <= answer[ReceiveSecretary]
RepliesInv ==
  pc[ReceiveSecretary] = "reply" /\ Runs(ReceiveSecretary)
    => \A c \in Getters : answer[c] < answer[ReceiveSecretary]
WaiterInv ==
  /\ awaiting_receive => IsCyclicBufferEmpty(receive_buffer)
  /\ awaiting_receive <=> LeftWaiting(ReceiveSecretary)

SerialInv ==
  /\ IpcInv /\ SerialTypeOK /\ MailInv /\ MessagesInv /\ PhasesInv
  /\ PipelineInv /\ TransmitterInv /\ OrderInv /\ RepliesInv /\ WaiterInv

\* What a step may do to the characters received (ReceivedInOrder).
Reads ==
  /\ \A c, d \in Getters : answer'[c] # answer[c] => answer'[c] > answer[d]
  /\ RxFull /\ uart'.rx # uart.rx =>
       \/ answer'[ReceiveSecretary] = uart.rx /\ Blocked(ReceiveSecretary)
       \/ uart.rx \in {Contents(receive_buffer')[i] : i \in 1 .. receive_buffer'.num_els}
       \/ IsCyclicBufferFull(receive_buffer)

-----------------------------------------------------------------------------
(* What the steps have in common.                                          *)

Places == {"receive", "send", "reply", "await", "awaiting", "ask", "tell", "handle",
           "receive character", "transmit character", "start transmitter"}

LEMMA TasksAre ==
  /\ {Server, Notifier, Courier, TransmitSecretary, ReceiveSecretary} \subseteq Staff
  /\ Staff \subseteq Tasks /\ Putters \subseteq Tasks /\ Getters \subseteq Tasks
  /\ \A c \in Putters \cup Getters : c \notin Staff
  /\ Putters \cap Getters = {}
  /\ Server \notin {Notifier, Courier, TransmitSecretary, ReceiveSecretary}
  /\ Notifier \notin {Courier, TransmitSecretary, ReceiveSecretary}
  /\ Courier \notin {TransmitSecretary, ReceiveSecretary}
  /\ TransmitSecretary # ReceiveSecretary
BY SerialAssumption DEF Staff, Clients, Server, Notifier, Courier, TransmitSecretary,
                        ReceiveSecretary

LEMMA SecretariesAre ==
  ASSUME NEW s \in Secretaries
  PROVE  /\ s \in Staff /\ s \in Tasks /\ s # Server /\ s # Notifier /\ s # Courier
         /\ s \notin Putters /\ s \notin Getters /\ Callers(s) \subseteq Tasks
         /\ \A c \in Callers(s) : /\ c \notin Staff /\ c # Server /\ c # Notifier /\ c # Courier
                                  /\ c # TransmitSecretary /\ c # ReceiveSecretary
                                  /\ KindOf(c) = KindOf(s)
BY TasksAre DEF Secretaries, Callers, KindOf

LEMMA ActiveRuns == ASSUME NEW t, Active(t) PROVE phase[t] = "running"
BY DEF Active, Ready, Runs

LEMMA AtIs == ASSUME NEW t, NEW where, At(t, where) PROVE phase[t] = "running" /\ pc[t] = where
BY ActiveRuns DEF At

LEMMA PcMoves ==
  ASSUME SerialTypeOK, NEW t \in Staff, NEW where \in Places, Goes(t, where)
  PROVE  /\ pc' \in [Staff -> Places] /\ pc'[t] = where
         /\ \A u \in Staff \ {t} : pc'[u] = pc[u]
BY DEF SerialTypeOK, Goes, Places

LEMMA CountsAre ==
  ASSUME SerialTypeOK
  PROVE  /\ transmit_buffer \in BufferTypes /\ receive_buffer \in BufferTypes
         /\ transmit_buffer.num_els \in Nat /\ receive_buffer.num_els \in Nat
         /\ written \in Nat /\ put \in Nat /\ arrived \in Nat /\ uart.rx \in Nat
         /\ answer[ReceiveSecretary] \in Nat /\ \A c \in Getters : answer[c] \in Nat
         /\ Accepted \in Nat /\ SIZE \in Nat
<1>0. 0 .. MaxPut \subseteq Nat /\ 0 .. MaxArrived \subseteq Nat
  BY SerialAssumption
<1>1. /\ transmit_buffer \in BufferTypes /\ receive_buffer \in BufferTypes
      /\ written \in Nat /\ put \in Nat /\ arrived \in Nat /\ uart.rx \in Nat
  <2>1. uart \in [rx : 0 .. MaxArrived, tx : 0 .. MaxPut, txint : BOOLEAN]
    BY DEF SerialTypeOK
  <2>2. uart.rx \in 0 .. MaxArrived
    BY <2>1
  <2> QED BY <1>0, <2>2, Zenon DEF SerialTypeOK
<1>2. transmit_buffer.num_els \in Nat /\ receive_buffer.num_els \in Nat /\ SIZE \in Nat
  BY CyclicBufferAssumption, <1>1 DEF BufferTypes
<1>3. answer[ReceiveSecretary] \in Nat /\ \A c \in Getters : answer[c] \in Nat
  <2>1. answer \in [Getters \cup {ReceiveSecretary} -> 0 .. MaxArrived]
    BY DEF SerialTypeOK
  <2>2. \A c \in Getters \cup {ReceiveSecretary} : answer[c] \in 0 .. MaxArrived
    BY <2>1
  <2> QED BY <1>0, <2>2
<1> QED BY <1>1, <1>2, <1>3 DEF Accepted

\* The secretary that carries a character has it from a caller of Putc.
LEMMA CarrierIs ==
  ASSUME PhasesInv, Carries
  PROVE  /\ pc[TransmitSecretary] \in {"send", "reply"}
         /\ phase[TransmitSecretary] # "receiving"
         /\ sender[TransmitSecretary] \in Putters
<1>1. SecretaryOK(TransmitSecretary) /\ Callers(TransmitSecretary) = Putters
  BY DEF PhasesInv, Secretaries, Callers
<1>2. Handling(TransmitSecretary) => phase[TransmitSecretary] = "awaiting reply"
  BY DEF PhasesInv, ServerOK, Secretaries
<1> QED BY <1>1, <1>2 DEF SecretaryOK, Carries, Runs

LEMMA SendKeepsMail ==
  ASSUME SerialInv, NEW s \in Tasks, NEW r \in Tasks, MaySend(s, r),
         NEW m, Send(s, r, m), m.type \in {"none", KindOf(s)}
  PROVE  MailInv' /\ MessagesInv'
<1>1. IpcInv
  BY DEF SerialInv
<1>2. /\ IpcInv'
      /\ phase[s] = "running"
      /\ sent'[s] = m /\ \A t \in Tasks \ {s} : sent'[t] = sent[t]
      /\ \/ /\ phase[r] = "receiving" /\ s # r
            /\ phase'[s] = "awaiting reply" /\ phase'[r] = "running"
            /\ \A t \in Tasks \ {r, s} : phase'[t] = phase[t]
            /\ sender'[r] = s /\ \A t \in Tasks \ {r} : sender'[t] = sender[t]
            /\ inbox' = inbox
         \/ /\ phase[r] \notin {"receiving", "none"} /\ phase'[s] = "sending"
            /\ \A t \in Tasks \ {s} : phase'[t] = phase[t]
            /\ sender' = sender
            /\ inbox' = [inbox EXCEPT ![r] = Append(inbox[r], s)]
  BY <1>1, SendDoes
<1>3. MessagesInv'
  BY <1>2 DEF SerialInv, MessagesInv
<1>4. \A t \in Tasks : phase'[t] = "receiving" => phase[t] = "receiving"
  BY <1>2
<1>5. CASE inbox' = inbox
  BY <1>3, <1>4, <1>5 DEF SerialInv, MailInv, MaySend
<1>6. CASE inbox' = [inbox EXCEPT ![r] = Append(inbox[r], s)] /\ phase[r] # "receiving"
  <2>1. inbox[r] \in Seq(Tasks) /\ inbox \in [Tasks -> Seq(Tasks)]
    BY <1>1, InboxTyped DEF IpcInv, IpcTypes
  <2>2. /\ inbox'[r] = Append(inbox[r], s)
        /\ \A q \in Tasks \ {r} : inbox'[q] = inbox[q]
    BY <1>6, <2>1
  <2>3. /\ Len(inbox'[r]) = Len(inbox[r]) + 1 /\ inbox'[r][Len(inbox[r]) + 1] = s
        /\ \A i \in 1 .. Len(inbox[r]) : inbox'[r][i] = inbox[r][i]
        /\ Len(inbox[r]) \in Nat
    BY <2>1, <2>2, AppendProperties, LenProperties
  <2>4. ASSUME NEW i \in 1 .. Len(inbox'[r]) PROVE MaySend(inbox'[r][i], r)
    <3>1. i \in 1 .. Len(inbox[r]) \/ i = Len(inbox[r]) + 1
      BY <2>3
    <3> QED BY <2>3, <3>1 DEF SerialInv, MailInv
  <2>5. ASSUME NEW q \in Tasks \ {r}, NEW i \in 1 .. Len(inbox'[q]) PROVE MaySend(inbox'[q][i], q)
    BY <2>2 DEF SerialInv, MailInv
  <2>6. \A q \in Tasks : phase'[q] = "receiving" => inbox'[q] = <<>>
    BY <1>4, <1>6, <2>2 DEF SerialInv, MailInv
  <2> QED BY <1>3, <2>4, <2>5, <2>6 DEF MailInv, MaySend
<1> QED BY <1>2, <1>5, <1>6

LEMMA ReceiveKeepsMail ==
  ASSUME SerialInv, NEW r \in Tasks, Receive(r)
  PROVE  /\ MailInv' /\ MessagesInv'
         /\ inbox[r] # <<>> => MaySend(Head(inbox[r]), r)
<1>1. IpcInv
  BY DEF SerialInv
<1>2. /\ IpcInv'
      /\ phase[r] = "running" /\ sent' = sent
      /\ \/ /\ phase'[r] = "receiving" /\ \A t \in Tasks \ {r} : phase'[t] = phase[t]
            /\ sender' = sender /\ inbox' = inbox /\ inbox[r] = <<>>
         \/ \E s \in Tasks :
              /\ phase[s] = "sending" /\ s # r /\ inbox[r] # <<>> /\ s = Head(inbox[r])
              /\ phase'[s] = "awaiting reply"
              /\ \A t \in Tasks \ {s} : phase'[t] = phase[t]
              /\ sender'[r] = s /\ \A t \in Tasks \ {r} : sender'[t] = sender[t]
              /\ inbox' = [inbox EXCEPT ![r] = Tail(inbox[r])]
  BY <1>1, ReceiveDoes, Zenon
<1>3. MessagesInv'
  BY <1>2 DEF SerialInv, MessagesInv
<1>4. inbox[r] \in Seq(Tasks) /\ inbox \in [Tasks -> Seq(Tasks)]
  BY <1>1, InboxTyped DEF IpcInv, IpcTypes
<1>5. ASSUME inbox[r] # <<>> PROVE MaySend(Head(inbox[r]), r)
  <2>1. Len(inbox[r]) \in Nat \ {0}
    BY <1>4, <1>5, EmptySeq, Zenon
  <2>2. Head(inbox[r]) = inbox[r][1] /\ 1 \in 1 .. Len(inbox[r])
    BY <1>4, <1>5, <2>1
  <2> QED BY <2>2 DEF SerialInv, MailInv
<1>6. CASE inbox' = inbox /\ phase'[r] = "receiving" /\ inbox[r] = <<>>
           /\ \A t \in Tasks \ {r} : phase'[t] = phase[t]
  <2>1. \A q \in Tasks : phase'[q] = "receiving" => q = r \/ phase[q] = "receiving"
    BY <1>6
  <2>2. \A q \in Tasks : /\ \A i \in 1 .. Len(inbox'[q]) : MaySend(inbox'[q][i], q)
                         /\ phase'[q] = "receiving" => inbox'[q] = <<>>
    BY <1>6, <2>1 DEF SerialInv, MailInv
  <2> QED BY <1>3, <1>5, <2>2 DEF MailInv, MaySend
<1>7. CASE /\ inbox' = [inbox EXCEPT ![r] = Tail(inbox[r])] /\ inbox[r] # <<>>
           /\ \A t \in Tasks : phase'[t] = "receiving" => phase[t] = "receiving"
  <2>1. /\ inbox'[r] = Tail(inbox[r])
        /\ \A q \in Tasks \ {r} : inbox'[q] = inbox[q]
    BY <1>4, <1>7
  <2>2. /\ Len(inbox'[r]) = Len(inbox[r]) - 1 /\ Len(inbox[r]) \in Nat
        /\ \A i \in 1 .. Len(inbox'[r]) : inbox'[r][i] = inbox[r][i + 1]
    BY <1>4, <1>7, <2>1, HeadTailProperties, LenProperties
  <2>3. ASSUME NEW i \in 1 .. Len(inbox'[r]) PROVE MaySend(inbox'[r][i], r)
    <3>1. i + 1 \in 1 .. Len(inbox[r]) /\ inbox'[r][i] = inbox[r][i + 1]
      BY <2>2
    <3> QED BY <3>1 DEF SerialInv, MailInv
  <2>4. ASSUME NEW q \in Tasks \ {r}, NEW i \in 1 .. Len(inbox'[q]) PROVE MaySend(inbox'[q][i], q)
    BY <2>1 DEF SerialInv, MailInv
  <2>5. \A q \in Tasks : phase'[q] = "receiving" => inbox'[q] = <<>>
    BY <1>2, <1>7, <2>1 DEF SerialInv, MailInv
  <2>6. \A q \in Tasks : \A i \in 1 .. Len(inbox'[q]) : MaySend(inbox'[q][i], q)
    BY <2>3, <2>4
  <2>7. \A q \in Tasks : /\ \A i \in 1 .. Len(inbox'[q]) : MaySend(inbox'[q][i], q)
                         /\ phase'[q] = "receiving" => inbox'[q] = <<>>
    BY <2>5, <2>6
  <2> QED BY <1>3, <1>5, <2>7 DEF MailInv, MaySend
<1>8. MailInv'
  BY <1>2, <1>6, <1>7
<1> QED BY <1>3, <1>5, <1>8

LEMMA ReplyKeepsMail ==
  ASSUME SerialInv, NEW s \in Tasks, Reply(s)
  PROVE  MailInv' /\ MessagesInv'
<1>1. /\ IpcInv' /\ UNCHANGED <<inbox, sender>>
      /\ \A t \in Tasks \ {s} : phase'[t] = phase[t] /\ sent'[t] = sent[t]
      /\ phase[s] = "awaiting reply" => phase'[s] = "running" /\ sent'[s] = NoMessage
      /\ phase[s] # "awaiting reply" => phase' = phase /\ sent' = sent
  BY ReplyDoes DEF SerialInv
<1>2. \A t \in Tasks : phase'[t] = "receiving" => phase[t] = "receiving"
  BY <1>1
<1>3. MailInv'
  BY <1>1, <1>2 DEF SerialInv, MailInv, MaySend
<1>4. ASSUME NEW t \in Tasks PROVE sent'[t].type \in {"none", KindOf(t)}
  <2>1. sent[t].type \in {"none", KindOf(t)}
    BY DEF SerialInv, MessagesInv
  <2>2. sent'[t] = sent[t] \/ sent'[t] = NoMessage
    BY <1>1
  <2>3. NoMessage.type = "none"
    BY DEF NoMessage
  <2> QED BY <2>1, <2>2, <2>3
<1> QED BY <1>3, <1>4 DEF MessagesInv, KindOf

LEMMA SecretaryKept ==
  ASSUME NEW s \in Secretaries, SecretaryOK(s), pc'[s] = pc[s], sender'[s] = sender[s],
         \/ phase'[s] = phase[s]
         \/ phase[s] \in {"sending", "awaiting reply"} /\ phase'[s] \in {"running", "awaiting reply"}
  PROVE  SecretaryOK(s)'
BY DEF SecretaryOK, Callers

\* The server's own place and messages are left alone.
LEMMA ServerKept ==
  ASSUME ServerOK, pc'[Server] = pc[Server], phase'[Server] = phase[Server],
         sender'[Server] = sender[Server],
         \A s \in Secretaries : phase[s] = "awaiting reply" => phase'[s] = "awaiting reply"
  PROVE  ServerOK' /\ \A t : Handling(t)' <=> Handling(t)
BY DEF ServerOK, Handling, Runs, Secretaries

\* A message to the server is handled or waits in the inbox.
LEMMA ToServer ==
  ASSUME SerialInv, NEW s \in {Courier} \cup Secretaries, NEW m, Send(s, Server, m),
         pc'[Server] = pc[Server]
  PROVE  /\ ServerOK' /\ \A t : t # s => (Handling(t)' <=> Handling(t))
         /\ \/ phase'[s] = "awaiting reply" /\ Handling(s)'
            \/ phase'[s] = "sending" /\ (Handling(s)' <=> Handling(s))
         /\ \A t \in Tasks \ {s, Server} : phase'[t] = phase[t] /\ sender'[t] = sender[t]
         /\ phase[s] = "running" /\ sender'[s] = sender[s]
         /\ \A r \in Tasks \ {Server} : inbox'[r] = inbox[r]
<1>1. s \in Tasks /\ Server \in Tasks /\ s # Server
  BY TasksAre DEF Secretaries
<1>2. IpcInv /\ ServerOK
  BY DEF SerialInv, PhasesInv
<1>3. /\ IpcInv'
      /\ phase[s] = "running"
      /\ sent'[s] = m /\ \A t \in Tasks \ {s} : sent'[t] = sent[t]
      /\ \/ /\ phase[Server] = "receiving" /\ s # Server
            /\ phase'[s] = "awaiting reply" /\ phase'[Server] = "running"
            /\ \A t \in Tasks \ {Server, s} : phase'[t] = phase[t]
            /\ sender'[Server] = s /\ \A t \in Tasks \ {Server} : sender'[t] = sender[t]
            /\ inbox' = inbox
         \/ /\ phase[Server] \notin {"receiving", "none"} /\ phase'[s] = "sending"
            /\ \A t \in Tasks \ {s} : phase'[t] = phase[t]
            /\ sender' = sender
            /\ inbox' = [inbox EXCEPT ![Server] = Append(inbox[Server], s)]
  BY <1>1, <1>2, SendDoes
<1>4. inbox = [t \in Tasks |-> inbox[t]]
  BY <1>2 DEF IpcInv, IpcTypes
<1>5. CASE /\ phase[Server] = "receiving" /\ s # Server
           /\ phase'[s] = "awaiting reply" /\ phase'[Server] = "running"
           /\ \A t \in Tasks \ {Server, s} : phase'[t] = phase[t]
           /\ sender'[Server] = s /\ \A t \in Tasks \ {Server} : sender'[t] = sender[t]
           /\ inbox' = inbox
  <2>1. pc[Server] = "handle" /\ \A t : ~ Handling(t)
    BY <1>2, <1>5 DEF ServerOK, Handling, Runs
  <2>2. \A t : Handling(t)' <=> t = s
    BY <1>5, <2>1 DEF Handling, Runs
  <2>3. ServerOK'
    BY <1>5, <2>2 DEF ServerOK, Secretaries
  <2> QED BY <1>1, <1>3, <1>5, <2>1, <2>2, <2>3
<1>6. CASE /\ phase[Server] \notin {"receiving", "none"} /\ phase'[s] = "sending"
           /\ \A t \in Tasks \ {s} : phase'[t] = phase[t]
           /\ sender' = sender
           /\ inbox' = [inbox EXCEPT ![Server] = Append(inbox[Server], s)]
  <2>1. \A t \in Secretaries : phase[t] = "awaiting reply" => phase'[t] = "awaiting reply"
    BY <1>3, <1>6, SecretariesAre
  <2>2. ServerOK' /\ \A t : Handling(t)' <=> Handling(t)
    BY <1>1, <1>2, <1>6, <2>1, ServerKept
  <2> QED BY <1>1, <1>3, <1>4, <1>6, <2>2
<1> QED BY <1>3, <1>5, <1>6

\* Steps that change nothing for the characters of Putc, or move one from the
\* buffer to the transmitter.
LEMMA PipelineKept ==
  ASSUME PipelineInv, MailInv, PhasesInv, IpcInv,
         Accepted' = Accepted, put' = put, Carries' <=> Carries,
         inbox'[TransmitSecretary] = inbox[TransmitSecretary],
         sender'[TransmitSecretary] = sender[TransmitSecretary],
         \A c \in Putters : phase'[c] = phase[c] /\ sent'[c] = sent[c],
         Carries => /\ sent'[TransmitSecretary] = sent[TransmitSecretary]
                    /\ pc'[TransmitSecretary] = pc[TransmitSecretary]
  PROVE  PipelineInv'
<1>1. Carried' = Carried
  BY DEF Carried
<1>2. ASSUME NEW i \in 1 .. Len(inbox[TransmitSecretary])
      PROVE  inbox[TransmitSecretary][i] \in Putters
  BY TasksAre DEF MailInv, MaySend, Secretaries, Callers
<1>3. Carries => sender[TransmitSecretary] \in Putters
  BY CarrierIs
<1>4. put' = Accepted' + Carried' + Len(inbox'[TransmitSecretary])
  BY <1>1 DEF PipelineInv
<1>5. ASSUME NEW i \in 1 .. Len(inbox'[TransmitSecretary])
      PROVE  sent'[inbox'[TransmitSecretary][i]] = Character(Accepted' + Carried' + i)
  <2>1. sent[inbox[TransmitSecretary][i]] = Character(Accepted + Carried + i)
    BY DEF PipelineInv
  <2>2. sent'[inbox[TransmitSecretary][i]] = sent[inbox[TransmitSecretary][i]]
    BY <1>2
  <2> QED BY <1>1, <2>1, <2>2
<1>6. ASSUME Carries'
      PROVE  /\ phase'[sender'[TransmitSecretary]] = "awaiting reply"
             /\ sent'[sender'[TransmitSecretary]] = Character(Accepted' + 1)
             /\ pc'[TransmitSecretary] # "send"
                  => sent'[TransmitSecretary] = Character(Accepted' + 1)
  BY <1>3, <1>6 DEF PipelineInv
<1> HIDE DEF Carries, Accepted, Carried
<1> QED BY <1>4, <1>5, <1>6 DEF PipelineInv, Character

LEMMA TransmitterKept ==
  ASSUME TransmitterInv, transmit_buffer' = transmit_buffer, written' = written,
         LeftWaiting(TransmitSecretary) => LeftWaiting(TransmitSecretary)',
         pc'[Server] = "start transmitter" => pc[Server] = "start transmitter"
  PROVE  TransmitterInv'
BY DEF TransmitterInv, IsCyclicBufferFull, IsCyclicBufferEmpty, Item

\* Steps between tasks, the buffers, the UART and the answers left alone.
LEMMA OnlyTalk ==
  ASSUME SerialInv,
         UNCHANGED <<serverVars, answer, uart, arrived, written>>,
         put' \in 0 .. MaxPut, pc' \in [Staff -> Places],
         pc'[Server] = "start transmitter" => pc[Server] = "start transmitter",
         pc'[ReceiveSecretary] = "reply" /\ phase'[ReceiveSecretary] = "running"
           => pc[ReceiveSecretary] = "reply" /\ phase[ReceiveSecretary] = "running",
         LeftWaiting(TransmitSecretary) => LeftWaiting(TransmitSecretary)',
         LeftWaiting(ReceiveSecretary)' <=> LeftWaiting(ReceiveSecretary),
         IpcInv', MailInv', MessagesInv', PhasesInv', PipelineInv'
  PROVE  SerialInv' /\ Reads
<1>1. /\ UNCHANGED <<transmit_buffer, receive_buffer, awaiting_transmit, awaiting_receive>>
      /\ UNCHANGED <<answer, uart, arrived, written>>
  BY DEF serverVars
<1>2. SerialTypeOK'
  BY <1>1, Zenon DEF SerialInv, SerialTypeOK, Places
<1>3. TransmitterInv'
  BY <1>1, TransmitterKept DEF SerialInv
<1>4. OrderInv'
  BY <1>1 DEF SerialInv, OrderInv, Item, RxFull
<1>5. RepliesInv' /\ WaiterInv'
  BY <1>1 DEF SerialInv, RepliesInv, WaiterInv, Runs, IsCyclicBufferEmpty
<1>6. Reads
  BY <1>1 DEF Reads
<1> QED BY <1>2, <1>3, <1>4, <1>5, <1>6 DEF SerialInv

-----------------------------------------------------------------------------
(* The steps.                                                              *)

LEMMA SerialInit == Init => SerialInv
<1> SUFFICES ASSUME Init PROVE SerialInv
  OBVIOUS
<1>1. IpcInv
  BY IpcInitially DEF Init
<1>2. /\ \A t \in Tasks : phase[t] = "running" /\ inbox[t] = <<>> /\ sent[t] = NoMessage
      /\ pc = [t \in Staff |-> IF t = Courier THEN "ask" ELSE "receive"]
      /\ transmit_buffer = EmptyBuffer(0) /\ receive_buffer = EmptyBuffer(0)
      /\ awaiting_transmit = FALSE /\ awaiting_receive = FALSE
      /\ answer = [t \in Getters \cup {ReceiveSecretary} |-> 0]
      /\ uart = [rx |-> 0, tx |-> 0, txint |-> FALSE]
      /\ put = 0 /\ arrived = 0 /\ written = 0
  BY DEF Init, IpcInit, Nothing
<1>3. MaxPut \in Nat /\ MaxArrived \in Nat /\ SIZE \in Nat /\ SIZE >= 1
  BY SerialAssumption, CyclicBufferAssumption
<1>4. transmit_buffer.num_els = 0 /\ receive_buffer.num_els = 0 /\ EmptyBuffer(0) \in BufferTypes
  BY <1>2, <1>3 DEF EmptyBuffer, BufferTypes, Indices
<1>5. SerialTypeOK
  <2>1. 0 \in 0 .. MaxPut /\ 0 \in 0 .. MaxArrived
    BY <1>3
  <2>2. pc \in [Staff -> Places]
    BY <1>2 DEF Places
  <2>3. answer \in [Getters \cup {ReceiveSecretary} -> 0 .. MaxArrived]
    BY <1>2, <2>1
  <2>4. uart \in [rx : 0 .. MaxArrived, tx : 0 .. MaxPut, txint : BOOLEAN]
    BY <1>2, <2>1
  <2> QED BY <1>2, <1>4, <2>1, <2>2, <2>3, <2>4 DEF SerialTypeOK, Places
<1>6. /\ \A s \in {Server} \cup Secretaries : pc[s] = "receive" /\ phase[s] = "running"
      /\ \A t : ~ Handling(t)
  BY <1>2, TasksAre DEF Secretaries, Handling
<1>7. MailInv
  BY <1>2 DEF MailInv
<1>8. MessagesInv
  BY <1>2 DEF MessagesInv, NoMessage
<1>9. PhasesInv
  BY <1>6 DEF PhasesInv, ServerOK, SecretaryOK
<1>10. PipelineInv
  <2>1. ~ Carries
    BY <1>6 DEF Carries, Secretaries
  <2>2. inbox[TransmitSecretary] = <<>>
    BY <1>2, TasksAre
  <2>3. put = 0 /\ Accepted = 0 /\ Carried = 0 /\ Len(inbox[TransmitSecretary]) = 0
    BY <1>2, <1>4, <2>1, <2>2 DEF Carried, Accepted
  <2>4. \A i \in 1 .. Len(inbox[TransmitSecretary]) : FALSE
    BY <2>3
  <2>5. put = Accepted + Carried + Len(inbox[TransmitSecretary])
    BY <2>3
  <2> QED BY <2>1, <2>4, <2>5, Zenon DEF PipelineInv
<1>11. TransmitterInv
  <2>1. transmit_buffer.num_els = 0 /\ SIZE # 0 /\ pc[Server] # "start transmitter"
    <3>1. pc[Server] = "receive"
      BY <1>6
    <3> QED BY <1>3, <1>4, <3>1
  <2>2. \A i \in 1 .. transmit_buffer.num_els : FALSE
    <3>1. \A i \in 1 .. 0 : FALSE
      OBVIOUS
    <3> QED BY <2>1, <3>1, Zenon
  <2> QED BY <2>1, <2>2 DEF TransmitterInv, IsCyclicBufferFull
<1>12. OrderInv
  BY <1>2, <1>4 DEF OrderInv, RxFull, Nothing
<1>13. RepliesInv /\ WaiterInv
  BY <1>2, <1>6 DEF RepliesInv, WaiterInv, LeftWaiting, Secretaries
<1> QED BY <1>1, <1>5, <1>7, <1>8, <1>9, <1>10, <1>11, <1>12, <1>13 DEF SerialInv

\* A client calls a secretary.
LEMMA CallDoes ==
  ASSUME SerialInv, NEW s \in Secretaries, NEW c \in Callers(s), NEW m, Send(c, s, m),
         m.type = KindOf(c), pc' = pc
  PROVE  /\ IpcInv' /\ MailInv' /\ MessagesInv' /\ PhasesInv'
         /\ phase[c] = "running"
         /\ \A t \in Tasks \ {c} : sent'[t] = sent[t]
         /\ \A t \in Tasks \ {c, s} : phase'[t] = phase[t]
         /\ \A t \in Tasks \ {s} : inbox'[t] = inbox[t] /\ sender'[t] = sender[t]
         /\ \A t : Handling(t)' <=> Handling(t)
         /\ \A t \in Secretaries : LeftWaiting(t)' <=> LeftWaiting(t)
         /\ \/ /\ phase[s] = "receiving" /\ pc[s] = "send" /\ inbox'[s] = <<>> /\ inbox[s] = <<>>
               /\ phase'[s] = "running" /\ phase'[c] = "awaiting reply" /\ sender'[s] = c
            \/ /\ phase'[s] = phase[s] /\ phase'[c] = "sending" /\ sender'[s] = sender[s]
               /\ inbox'[s] = Append(inbox[s], c)
<1>0. /\ IpcInv /\ MailInv /\ PhasesInv /\ SecretaryOK(s)
      /\ inbox = [t \in Tasks |-> inbox[t]]
  BY DEF SerialInv, PhasesInv, IpcInv, IpcTypes
<1>1. /\ s \in Tasks /\ c \in Tasks /\ s # c /\ c # Server /\ s # Server /\ Server \in Tasks
      /\ \A t \in Secretaries : t # c /\ t \in Tasks
  BY SecretariesAre, TasksAre
<1>2. MaySend(c, s) /\ m.type \in {"none", KindOf(c)}
  BY DEF MaySend
<1>3. /\ IpcInv'
      /\ phase[c] = "running"
      /\ sent'[c] = m /\ \A t \in Tasks \ {c} : sent'[t] = sent[t]
      /\ \/ /\ phase[s] = "receiving" /\ c # s
            /\ phase'[c] = "awaiting reply" /\ phase'[s] = "running"
            /\ \A t \in Tasks \ {s, c} : phase'[t] = phase[t]
            /\ sender'[s] = c /\ \A t \in Tasks \ {s} : sender'[t] = sender[t]
            /\ inbox' = inbox
         \/ /\ phase[s] \notin {"receiving", "none"} /\ phase'[c] = "sending"
            /\ \A t \in Tasks \ {c} : phase'[t] = phase[t]
            /\ sender' = sender
            /\ inbox' = [inbox EXCEPT ![s] = Append(inbox[s], c)]
  BY <1>0, <1>1, SendDoes
<1>4. MailInv' /\ MessagesInv'
  BY <1>1, <1>2, SendKeepsMail
<1>5. \/ /\ phase[s] = "receiving" /\ pc[s] = "send" /\ inbox'[s] = <<>> /\ inbox[s] = <<>>
         /\ phase'[s] = "running" /\ phase'[c] = "awaiting reply" /\ sender'[s] = c
      \/ /\ phase'[s] = phase[s] /\ phase'[c] = "sending" /\ sender'[s] = sender[s]
         /\ inbox'[s] = Append(inbox[s], c)
  <2>1. phase[s] = "receiving" => pc[s] = "send" /\ inbox[s] = <<>>
    BY <1>0, <1>1 DEF MailInv, SecretaryOK
  <2> QED BY <1>0, <1>1, <1>3, <2>1
<1>6. /\ \A t \in Tasks \ {c, s} : phase'[t] = phase[t]
      /\ \A t \in Tasks \ {s} : inbox'[t] = inbox[t] /\ sender'[t] = sender[t]
  BY <1>0, <1>1, <1>3
<1>7. \A t \in Secretaries : phase'[t] = "awaiting reply" <=> phase[t] = "awaiting reply"
  BY <1>1, <1>5, <1>6
<1>8. ServerOK' /\ \A t : Handling(t)' <=> Handling(t)
  BY <1>0, <1>1, <1>6, <1>7, ServerKept DEF PhasesInv
<1>9. ASSUME NEW t \in Secretaries PROVE SecretaryOK(t)'
  <2>1. \/ t # s
        \/ phase'[s] = phase[s] /\ sender'[s] = sender[s]
        \/ t = s /\ pc[s] = "send" /\ phase'[s] = "running" /\ sender'[s] = c
    BY <1>5
  <2>2. CASE t # s \/ (phase'[s] = phase[s] /\ sender'[s] = sender[s])
    BY <1>0, <1>1, <1>6, <2>2, SecretaryKept DEF PhasesInv
  <2>3. CASE t = s /\ pc[s] = "send" /\ phase'[s] = "running" /\ sender'[s] = c
    BY <2>3 DEF SecretaryOK, Callers
  <2> QED BY <2>1, <2>2, <2>3, Zenon
<1>10. \A t \in Secretaries : LeftWaiting(t)' <=> LeftWaiting(t)
  BY <1>7, <1>8 DEF LeftWaiting
<1>11. PhasesInv'
  BY <1>8, <1>9 DEF PhasesInv, Secretaries
<1> QED BY <1>3, <1>4, <1>5, <1>6, <1>8, <1>10, <1>11

LEMMA PutcKept == ASSUME SerialInv, NEW c \in Putters, Putc(c) PROVE SerialInv' /\ Reads
<1>1. /\ phase[c] = "running" /\ put < MaxPut /\ put' = put + 1
      /\ Send(c, TransmitSecretary, Character(put + 1))
      /\ UNCHANGED <<pc, serverVars, answer, uart, arrived, written>>
  BY ActiveRuns DEF Putc, Character
<1>2. PICK m : m = Character(put + 1)
  OBVIOUS
<1>3. /\ TransmitSecretary \in Secretaries /\ c \in Callers(TransmitSecretary)
      /\ m.type = KindOf(c)
  BY <1>2 DEF Secretaries, Callers, KindOf, Character
<1>4. /\ IpcInv' /\ MailInv' /\ MessagesInv' /\ PhasesInv'
      /\ phase[c] = "running" /\ sent'[c] = m
      /\ \A t \in Tasks \ {c} : sent'[t] = sent[t]
      /\ \A t \in Tasks \ {c, TransmitSecretary} : phase'[t] = phase[t]
      /\ \A t \in Tasks \ {TransmitSecretary} : inbox'[t] = inbox[t] /\ sender'[t] = sender[t]
      /\ \A t : Handling(t)' <=> Handling(t)
      /\ \A t \in Secretaries : LeftWaiting(t)' <=> LeftWaiting(t)
      /\ \/ /\ phase[TransmitSecretary] = "receiving" /\ pc[TransmitSecretary] = "send"
            /\ inbox'[TransmitSecretary] = <<>> /\ inbox[TransmitSecretary] = <<>>
            /\ phase'[TransmitSecretary] = "running" /\ phase'[c] = "awaiting reply"
            /\ sender'[TransmitSecretary] = c
         \/ /\ phase'[TransmitSecretary] = phase[TransmitSecretary] /\ phase'[c] = "sending"
            /\ sender'[TransmitSecretary] = sender[TransmitSecretary]
            /\ inbox'[TransmitSecretary] = Append(inbox[TransmitSecretary], c)
  <2>1. pc' = pc /\ Send(c, TransmitSecretary, m)
    BY <1>1, <1>2
  <2>2. IpcInv' /\ MailInv' /\ MessagesInv' /\ PhasesInv'
    BY <1>3, <2>1, CallDoes
  <2>6. sent'[c] = m
    BY <2>1, TasksAre DEF Send, SerialInv, IpcInv, IpcTypes
  <2>8. \A t \in Tasks \ {c} : sent'[t] = sent[t]
    BY <1>3, <2>1, CallDoes
  <2>7. \A t \in Tasks \ {TransmitSecretary} : inbox'[t] = inbox[t] /\ sender'[t] = sender[t]
    BY <1>3, <2>1, CallDoes
  <2>5. \A t \in Tasks \ {c, TransmitSecretary} : phase'[t] = phase[t]
    BY <1>3, <2>1, CallDoes
  <2>3. /\ \A t : Handling(t)' <=> Handling(t)
        /\ \A t \in Secretaries : LeftWaiting(t)' <=> LeftWaiting(t)
    BY <1>3, <2>1, CallDoes
  <2>4. \/ /\ phase[TransmitSecretary] = "receiving" /\ pc[TransmitSecretary] = "send"
           /\ inbox'[TransmitSecretary] = <<>> /\ inbox[TransmitSecretary] = <<>>
           /\ phase'[TransmitSecretary] = "running" /\ phase'[c] = "awaiting reply"
           /\ sender'[TransmitSecretary] = c
        \/ /\ phase'[TransmitSecretary] = phase[TransmitSecretary] /\ phase'[c] = "sending"
           /\ sender'[TransmitSecretary] = sender[TransmitSecretary]
           /\ inbox'[TransmitSecretary] = Append(inbox[TransmitSecretary], c)
    BY <1>3, <2>1, CallDoes
  <2> QED BY <1>1, <2>2, <2>3, <2>4, <2>5, <2>6, <2>7, <2>8
<1>5. /\ put \in Nat /\ Accepted \in Nat /\ MaxPut \in Nat /\ Accepted' = Accepted
      /\ put' \in 0 .. MaxPut
  <2>1. put \in Nat /\ Accepted \in Nat /\ MaxPut \in Nat
    BY CountsAre, SerialAssumption DEF SerialInv
  <2>2. Accepted' = Accepted
    BY <1>1 DEF Accepted, serverVars
  <2> QED BY <1>1, <2>1, <2>2
<1>6. /\ c \in Tasks /\ ReceiveSecretary \in Tasks /\ TransmitSecretary \in Tasks
      /\ c # ReceiveSecretary /\ c # TransmitSecretary /\ ReceiveSecretary # TransmitSecretary
  BY TasksAre
<1>7. PipelineInv'
  <2>1. CASE /\ phase[TransmitSecretary] = "receiving" /\ pc[TransmitSecretary] = "send"
             /\ inbox'[TransmitSecretary] = <<>> /\ inbox[TransmitSecretary] = <<>>
             /\ phase'[TransmitSecretary] = "running" /\ phase'[c] = "awaiting reply"
             /\ sender'[TransmitSecretary] = c
    <3>1. ~ Carries /\ Carries'
      <4>1. ~ Handling(TransmitSecretary)
        BY <2>1 DEF SerialInv, PhasesInv, ServerOK, Secretaries
      <4> QED BY <1>1, <2>1, <4>1 DEF Carries, Runs
    <3>2. Carried = 0 /\ Carried' = 1 /\ Len(<<>>) = 0
      BY <3>1 DEF Carried
    <3>0. Len(inbox[TransmitSecretary]) = 0 /\ Len(inbox'[TransmitSecretary]) = 0
      BY <2>1, <3>2, Zenon
    <3>3. put = Accepted
      <4>1. put = Accepted + Carried + Len(inbox[TransmitSecretary])
        BY DEF SerialInv, PipelineInv
      <4> QED BY <1>5, <3>0, <3>2, <4>1
    <3>4. put' = Accepted' + Carried' + Len(inbox'[TransmitSecretary])
      BY <1>1, <1>5, <3>0, <3>2, <3>3
    <3>5. \A i \in 1 .. Len(inbox'[TransmitSecretary]) : FALSE
      BY <3>0
    <3>6. /\ phase'[sender'[TransmitSecretary]] = "awaiting reply"
          /\ sent'[sender'[TransmitSecretary]] = Character(Accepted' + 1)
      BY <1>2, <1>4, <1>5, <2>1, <3>3
    <3>7. pc'[TransmitSecretary] = "send"
      BY <1>1, <2>1
    <3> QED BY <3>4, <3>5, <3>6, <3>7, Zenon DEF PipelineInv, Character
  <2>2. CASE /\ phase'[TransmitSecretary] = phase[TransmitSecretary] /\ phase'[c] = "sending"
             /\ sender'[TransmitSecretary] = sender[TransmitSecretary]
             /\ inbox'[TransmitSecretary] = Append(inbox[TransmitSecretary], c)
    <3> DEFINE w == inbox[TransmitSecretary]
               x == inbox'[TransmitSecretary]
    <3>1. Carries' <=> Carries
      BY <1>1, <1>4, <2>2 DEF Carries, Runs
    <3>2. Carried' = Carried /\ Carried \in {0, 1}
      BY <3>1 DEF Carried
    <3>3. /\ Len(x) = Len(w) + 1 /\ Len(w) \in Nat /\ x[Len(w) + 1] = c
          /\ \A i \in 1 .. Len(w) : x[i] = w[i] /\ w[i] \in Tasks /\ phase[w[i]] = "sending"
      <4>1. /\ w \in Seq(Tasks) /\ Len(w) \in Nat
            /\ \A i \in 1 .. Len(w) : w[i] \in Tasks /\ phase[w[i]] = "sending"
        BY <1>6, InboxTyped DEF SerialInv
      <4>2. x = Append(w, c)
        BY <2>2
      <4> QED BY <1>6, <4>1, <4>2, AppendProperties
    <3>4. put = Accepted + Carried + Len(w)
      BY DEF SerialInv, PipelineInv
    <3>5. \A i \in 1 .. Len(x) : sent'[x[i]] = Character(Accepted' + Carried' + i)
      <4> SUFFICES ASSUME NEW i \in 1 .. Len(x)
                   PROVE  sent'[x[i]] = Character(Accepted' + Carried' + i)
        OBVIOUS
      <4> HIDE DEF w, x
      <4>1. CASE i \in 1 .. Len(w)
        <5>1. x[i] \in Tasks \ {c} /\ x[i] = w[i]
          BY <1>4, <3>3, <4>1
        <5>2. sent[w[i]] = Character(Accepted + Carried + i)
          BY <4>1 DEF SerialInv, PipelineInv, w
        <5>3. sent'[x[i]] = sent[w[i]]
          BY <1>4, <5>1
        <5> QED BY <1>5, <3>2, <5>2, <5>3
      <4>2. CASE i = Len(w) + 1
        <5>1. put + 1 = Accepted + Carried + i
          BY <1>5, <3>2, <3>3, <3>4, <4>2
        <5>2. x[i] = c
          BY <3>3, <4>2
        <5> QED BY <1>2, <1>4, <1>5, <3>2, <5>1, <5>2
      <4> QED BY <3>3, <4>1, <4>2
    <3>6. put' = Accepted' + Carried' + Len(x)
      <4> HIDE DEF w, x
      <4> QED BY <1>1, <1>5, <3>2, <3>3, <3>4
    <3>7. ASSUME Carries
          PROVE  /\ phase'[sender'[TransmitSecretary]] = "awaiting reply"
                 /\ sent'[sender'[TransmitSecretary]] = Character(Accepted' + 1)
                 /\ pc'[TransmitSecretary] # "send"
                      => sent'[TransmitSecretary] = Character(Accepted' + 1)
      <4> DEFINE h == sender[TransmitSecretary]
      <4>1. /\ phase[h] = "awaiting reply" /\ sent[h] = Character(Accepted + 1) /\ h \in Tasks
            /\ pc[TransmitSecretary] # "send" => sent[TransmitSecretary] = Character(Accepted + 1)
        BY <3>7, CarrierIs, TasksAre DEF SerialInv, PipelineInv
      <4>2. h \in Tasks \ {c} /\ h # TransmitSecretary
        BY <1>4, <3>7, <4>1, CarrierIs, TasksAre DEF SerialInv
      <4>3. phase'[h] = phase[h] /\ sent'[h] = sent[h]
        BY <1>4, <4>2
      <4>4. sent'[TransmitSecretary] = sent[TransmitSecretary]
        BY <1>4, <1>6
      <4> QED BY <1>1, <1>5, <2>2, <4>1, <4>3, <4>4
    <3> QED BY <3>1, <3>5, <3>6, <3>7 DEF PipelineInv, Character
  <2> QED BY <1>4, <2>1, <2>2
<1>8. \A t \in Secretaries : LeftWaiting(t)' <=> LeftWaiting(t)
  BY <1>4
<1>9. /\ LeftWaiting(TransmitSecretary) => LeftWaiting(TransmitSecretary)'
      /\ LeftWaiting(ReceiveSecretary)' <=> LeftWaiting(ReceiveSecretary)
  BY <1>8 DEF Secretaries
<1>10. phase'[ReceiveSecretary] = phase[ReceiveSecretary] /\ pc \in [Staff -> Places]
  BY <1>4, <1>6 DEF SerialInv, SerialTypeOK, Places
<1> QED BY <1>1, <1>4, <1>5, <1>7, <1>9, <1>10, OnlyTalk

LEMMA GetcKept == ASSUME SerialInv, NEW c \in Getters, Getc(c) PROVE SerialInv' /\ Reads
<1>1. /\ phase[c] = "running"
      /\ Send(c, ReceiveSecretary, [type |-> "SS_RECEIVE"])
      /\ UNCHANGED <<pc, serverVars, answer, uart, put, arrived, written>>
  BY ActiveRuns DEF Getc, countVars
<1>2. PICK m : m = [type |-> "SS_RECEIVE"]
  OBVIOUS
<1>3. /\ ReceiveSecretary \in Secretaries /\ c \in Callers(ReceiveSecretary)
      /\ m.type = KindOf(c) /\ c \notin Putters
  BY <1>2, TasksAre DEF Secretaries, Callers, KindOf
<1>4. /\ IpcInv' /\ MailInv' /\ MessagesInv' /\ PhasesInv'
      /\ phase[c] = "running" /\ sent'[c] = m
      /\ \A t \in Tasks \ {c} : sent'[t] = sent[t]
      /\ \A t \in Tasks \ {c, ReceiveSecretary} : phase'[t] = phase[t]
      /\ \A t \in Tasks \ {ReceiveSecretary} : inbox'[t] = inbox[t] /\ sender'[t] = sender[t]
      /\ \A t : Handling(t)' <=> Handling(t)
      /\ \A t \in Secretaries : LeftWaiting(t)' <=> LeftWaiting(t)
      /\ \/ /\ phase[ReceiveSecretary] = "receiving" /\ pc[ReceiveSecretary] = "send"
            /\ inbox'[ReceiveSecretary] = <<>> /\ inbox[ReceiveSecretary] = <<>>
            /\ phase'[ReceiveSecretary] = "running" /\ phase'[c] = "awaiting reply"
            /\ sender'[ReceiveSecretary] = c
         \/ /\ phase'[ReceiveSecretary] = phase[ReceiveSecretary] /\ phase'[c] = "sending"
            /\ sender'[ReceiveSecretary] = sender[ReceiveSecretary]
            /\ inbox'[ReceiveSecretary] = Append(inbox[ReceiveSecretary], c)
  <2>1. pc' = pc /\ Send(c, ReceiveSecretary, m)
    BY <1>1, <1>2
  <2>2. IpcInv' /\ MailInv' /\ MessagesInv' /\ PhasesInv'
    BY <1>3, <2>1, CallDoes
  <2>6. sent'[c] = m
    BY <2>1, TasksAre DEF Send, SerialInv, IpcInv, IpcTypes
  <2>8. \A t \in Tasks \ {c} : sent'[t] = sent[t]
    BY <1>3, <2>1, CallDoes
  <2>7. \A t \in Tasks \ {ReceiveSecretary} : inbox'[t] = inbox[t] /\ sender'[t] = sender[t]
    BY <1>3, <2>1, CallDoes
  <2>5. \A t \in Tasks \ {c, ReceiveSecretary} : phase'[t] = phase[t]
    BY <1>3, <2>1, CallDoes
  <2>3. /\ \A t : Handling(t)' <=> Handling(t)
        /\ \A t \in Secretaries : LeftWaiting(t)' <=> LeftWaiting(t)
    BY <1>3, <2>1, CallDoes
  <2>4. \/ /\ phase[ReceiveSecretary] = "receiving" /\ pc[ReceiveSecretary] = "send"
           /\ inbox'[ReceiveSecretary] = <<>> /\ inbox[ReceiveSecretary] = <<>>
           /\ phase'[ReceiveSecretary] = "running" /\ phase'[c] = "awaiting reply"
           /\ sender'[ReceiveSecretary] = c
        \/ /\ phase'[ReceiveSecretary] = phase[ReceiveSecretary] /\ phase'[c] = "sending"
           /\ sender'[ReceiveSecretary] = sender[ReceiveSecretary]
           /\ inbox'[ReceiveSecretary] = Append(inbox[ReceiveSecretary], c)
    BY <1>3, <2>1, CallDoes
  <2> QED BY <1>1, <2>2, <2>3, <2>4, <2>5, <2>6, <2>7, <2>8
<1>5. /\ TransmitSecretary \in Tasks \ {c, ReceiveSecretary}
      /\ \A d \in Putters : d \in Tasks \ {c, ReceiveSecretary}
  BY <1>3, TasksAre
<1>6. put \in 0 .. MaxPut /\ pc \in [Staff -> Places]
  BY DEF SerialInv, SerialTypeOK, Places
<1>7. PipelineInv'
  <2>1. Accepted' = Accepted
    BY <1>1 DEF Accepted, serverVars
  <2>2. Carries' <=> Carries
    BY <1>1, <1>4, <1>5 DEF Carries, Runs
  <2> QED BY <1>1, <1>4, <1>5, <2>1, <2>2, PipelineKept DEF SerialInv
<1>8. \A t \in Secretaries : LeftWaiting(t)' <=> LeftWaiting(t)
  BY <1>4
<1>9. /\ LeftWaiting(TransmitSecretary) => LeftWaiting(TransmitSecretary)'
      /\ LeftWaiting(ReceiveSecretary)' <=> LeftWaiting(ReceiveSecretary)
  BY <1>8 DEF Secretaries
<1>10. pc'[ReceiveSecretary] = "reply" /\ phase'[ReceiveSecretary] = "running"
          => pc[ReceiveSecretary] = "reply" /\ phase[ReceiveSecretary] = "running"
  BY <1>1, <1>4
<1> QED BY <1>1, <1>4, <1>6, <1>7, <1>9, <1>10, OnlyTalk

LEMMA SecretaryReceivesKept ==
  ASSUME SerialInv, NEW s \in Secretaries, SecretaryReceives(s)
  PROVE  SerialInv' /\ Reads
<1>1. /\ phase[s] = "running" /\ pc[s] = "receive" /\ Receive(s) /\ Goes(s, "send")
      /\ UNCHANGED <<serverVars, answer, uart, put, arrived, written>>
  BY AtIs DEF SecretaryReceives, countVars
<1>2. /\ s \in Tasks /\ s \in Staff /\ s # Server /\ s # Notifier /\ Server \in Tasks
      /\ TransmitSecretary \in Tasks /\ ReceiveSecretary \in Tasks
      /\ \A t \in Secretaries : t \in Tasks /\ t \in Staff /\ t # Server /\ t \notin Callers(s)
      /\ Server \notin Callers(s) /\ Server \in Staff
  BY SecretariesAre, TasksAre
<1>3. /\ pc' \in [Staff -> Places] /\ pc'[s] = "send"
      /\ \A u \in Staff \ {s} : pc'[u] = pc[u]
  <2>1. "send" \in Places
    BY DEF Places
  <2> QED BY <1>1, <1>2, <2>1, PcMoves DEF SerialInv
<1>4. /\ IpcInv /\ PhasesInv /\ ServerOK /\ PipelineInv /\ MailInv
      /\ inbox = [t \in Tasks |-> inbox[t]]
  BY DEF SerialInv, PhasesInv, IpcInv, IpcTypes
<1>5. /\ IpcInv'
      /\ phase[s] = "running" /\ sent' = sent
      /\ \/ /\ phase'[s] = "receiving" /\ \A t \in Tasks \ {s} : phase'[t] = phase[t]
            /\ sender' = sender /\ inbox' = inbox /\ inbox[s] = <<>>
         \/ \E h \in Tasks :
              /\ phase[h] = "sending" /\ h # s /\ inbox[s] # <<>> /\ h = Head(inbox[s])
              /\ phase'[h] = "awaiting reply"
              /\ \A t \in Tasks \ {h} : phase'[t] = phase[t]
              /\ sender'[s] = h /\ \A t \in Tasks \ {s} : sender'[t] = sender[t]
              /\ inbox' = [inbox EXCEPT ![s] = Tail(inbox[s])]
  BY <1>1, <1>2, <1>4, ReceiveDoes, Zenon
<1>6. /\ MailInv' /\ MessagesInv'
      /\ inbox[s] # <<>> => MaySend(Head(inbox[s]), s)
  BY <1>1, <1>2, ReceiveKeepsMail
<1>7. inbox[s] # <<>> => Head(inbox[s]) \in Callers(s)
  BY <1>2, <1>6 DEF MaySend
\* Nobody but s and the caller is affected.
<1>8. /\ \A t \in Tasks \ {s} : t \notin Callers(s) => phase'[t] = phase[t]
      /\ \A t \in Tasks \ {s} : sender'[t] = sender[t] /\ inbox'[t] = inbox[t]
      /\ \/ phase'[s] = "receiving" /\ sender'[s] = sender[s] /\ inbox'[s] = inbox[s]
         \/ phase'[s] = "running" /\ sender'[s] \in Callers(s)
  <2>1. CASE /\ phase'[s] = "receiving" /\ \A t \in Tasks \ {s} : phase'[t] = phase[t]
             /\ sender' = sender /\ inbox' = inbox
    BY <2>1
  <2>2. CASE \E h \in Tasks :
               /\ phase[h] = "sending" /\ h # s /\ inbox[s] # <<>> /\ h = Head(inbox[s])
               /\ phase'[h] = "awaiting reply"
               /\ \A t \in Tasks \ {h} : phase'[t] = phase[t]
               /\ sender'[s] = h /\ \A t \in Tasks \ {s} : sender'[t] = sender[t]
               /\ inbox' = [inbox EXCEPT ![s] = Tail(inbox[s])]
    <3>1. PICK h \in Tasks :
               /\ phase[h] = "sending" /\ h # s /\ inbox[s] # <<>> /\ h = Head(inbox[s])
               /\ phase'[h] = "awaiting reply"
               /\ \A t \in Tasks \ {h} : phase'[t] = phase[t]
               /\ sender'[s] = h /\ \A t \in Tasks \ {s} : sender'[t] = sender[t]
               /\ inbox' = [inbox EXCEPT ![s] = Tail(inbox[s])]
      BY <2>2
    <3>2. h \in Callers(s) /\ phase'[s] = "running"
      BY <1>1, <1>2, <1>7, <3>1
    <3>3. \A t \in Tasks \ {s} : inbox'[t] = inbox[t]
      BY <1>4, <3>1
    <3>4. \A t \in Tasks \ {s} : t \notin Callers(s) => phase'[t] = phase[t]
      BY <3>1, <3>2
    <3> QED BY <3>1, <3>2, <3>3, <3>4
  <2> QED BY <1>5, <2>1, <2>2
<1>9. /\ \A t \in Secretaries \ {s} : phase'[t] = phase[t] /\ pc'[t] = pc[t]
      /\ phase'[Server] = phase[Server] /\ pc'[Server] = pc[Server]
      /\ sender'[Server] = sender[Server]
  BY <1>2, <1>3, <1>8
<1>10. \A t \in Secretaries : phase'[t] = "awaiting reply" <=> phase[t] = "awaiting reply"
  BY <1>1, <1>8, <1>9
<1>11. ServerOK' /\ \A t : Handling(t)' <=> Handling(t)
  BY <1>4, <1>9, <1>10, ServerKept
<1>12. PhasesInv'
  <2>1. ASSUME NEW t \in Secretaries \ {s} PROVE SecretaryOK(t)'
    <3>1. t \in Secretaries /\ SecretaryOK(t) /\ sender'[t] = sender[t]
      BY <1>2, <1>4, <1>8 DEF PhasesInv
    <3> QED BY <1>9, <3>1, SecretaryKept
  <2>2. SecretaryOK(s)'
    BY <1>3, <1>8 DEF SecretaryOK, Callers
  <2>3. \A t \in Secretaries : SecretaryOK(t)'
    BY <2>1, <2>2
  <2> QED BY <1>11, <2>3 DEF PhasesInv, Secretaries
<1>13. \A t \in Secretaries : LeftWaiting(t)' <=> LeftWaiting(t)
  BY <1>10, <1>11 DEF LeftWaiting
<1>14. Accepted' = Accepted
  BY <1>1 DEF Accepted, serverVars
<1>15. PipelineInv'
  <2>1. CASE s # TransmitSecretary
    <3>1. TransmitSecretary \in Tasks \ {s} /\ TransmitSecretary \in Secretaries \ {s}
      BY <1>2, <2>1 DEF Secretaries
    <3>2. \A c \in Putters : c \in Tasks \ {s} /\ c \notin Callers(s)
      BY <1>2, <2>1, TasksAre DEF Callers
    <3>3. Carries' <=> Carries
      BY <1>9, <1>11, <3>1 DEF Carries, Runs
    <3> QED BY <1>1, <1>4, <1>5, <1>8, <1>9, <1>14, <3>1, <3>2, <3>3, PipelineKept
  <2>2. CASE s = TransmitSecretary
    <3>1. ~ Carries
      BY <1>1, <2>2 DEF SerialInv, PhasesInv, ServerOK, Carries, Secretaries
    <3>2. CASE /\ phase'[s] = "receiving" /\ \A t \in Tasks \ {s} : phase'[t] = phase[t]
               /\ sender' = sender /\ inbox' = inbox
      <4>1. ~ Carries'
        BY <1>11, <2>2, <3>1, <3>2 DEF Carries, Runs
      <4>2. \A c \in Putters : phase'[c] = phase[c] /\ sent'[c] = sent[c]
        BY <1>2, <1>5, <3>2, TasksAre
      <4>3. /\ inbox'[TransmitSecretary] = inbox[TransmitSecretary]
            /\ sender'[TransmitSecretary] = sender[TransmitSecretary]
        BY <3>2
      <4> QED BY <1>1, <1>4, <1>14, <3>1, <4>1, <4>2, <4>3, PipelineKept
    <3>3. CASE \E h \in Tasks :
                 /\ phase[h] = "sending" /\ h # s /\ inbox[s] # <<>> /\ h = Head(inbox[s])
                 /\ phase'[h] = "awaiting reply"
                 /\ \A t \in Tasks \ {h} : phase'[t] = phase[t]
                 /\ sender'[s] = h /\ \A t \in Tasks \ {s} : sender'[t] = sender[t]
                 /\ inbox' = [inbox EXCEPT ![s] = Tail(inbox[s])]
      <4>1. PICK h \in Tasks :
                 /\ phase[h] = "sending" /\ h # s /\ inbox[s] # <<>> /\ h = Head(inbox[s])
                 /\ phase'[h] = "awaiting reply"
                 /\ \A t \in Tasks \ {h} : phase'[t] = phase[t]
                 /\ sender'[s] = h /\ \A t \in Tasks \ {s} : sender'[t] = sender[t]
                 /\ inbox' = [inbox EXCEPT ![s] = Tail(inbox[s])]
        BY <3>3
      <4> DEFINE w == inbox[s]
                 x == inbox'[s]
      <4>2. x = Tail(w) /\ w # <<>> /\ w \in Seq(Tasks) /\ h = Head(w)
        BY <1>2, <1>4, <4>1, InboxTyped
      <4>3. /\ Len(w) \in Nat /\ Len(w) > 0 /\ h = w[1] /\ Len(x) = Len(w) - 1
            /\ \A i \in 1 .. Len(x) : x[i] = w[i + 1]
        <5> HIDE DEF w, x
        <5>1. Len(w) \in Nat \ {0}
          BY <4>2, EmptySeq, Zenon
        <5>2. h = w[1]
          BY <4>2, <5>1, LenProperties
        <5>3. Len(x) = Len(w) - 1 /\ \A i \in 1 .. Len(x) : x[i] = w[i + 1]
          BY <4>2, HeadTailProperties
        <5> QED BY <5>1, <5>2, <5>3
      <4>4. Carries' /\ Carried = 0 /\ Carried' = 1
        <5>1. phase'[s] = "running"
          BY <1>1, <1>2, <4>1
        <5> QED BY <1>3, <2>2, <3>1, <5>1 DEF Carries, Carried, Runs
      <4>5. /\ put = Accepted + Len(w) /\ Accepted \in Nat
            /\ \A i \in 1 .. Len(w) : sent[w[i]] = Character(Accepted + i)
        <5>1. Accepted \in Nat /\ Len(w) \in Nat
          BY <4>3, CountsAre DEF SerialInv
        <5>2. /\ put = Accepted + Carried + Len(w)
              /\ \A i \in 1 .. Len(w) : sent[w[i]] = Character(Accepted + Carried + i)
          BY <1>4, <2>2 DEF PipelineInv
        <5> HIDE DEF w
        <5> QED BY <4>4, <5>1, <5>2
      <4> HIDE DEF w, x
      <4>6. put' = Accepted' + Carried' + Len(x)
        BY <1>1, <1>14, <4>3, <4>4, <4>5
      <4>7. ASSUME NEW i \in 1 .. Len(x) PROVE sent'[x[i]] = Character(Accepted' + Carried' + i)
        <5>1. i + 1 \in 1 .. Len(w) /\ Accepted + (i + 1) = Accepted + 1 + i
          BY <4>3, <4>5
        <5>2. sent[w[i + 1]] = Character(Accepted + (i + 1)) /\ x[i] = w[i + 1]
          BY <4>3, <4>5, <5>1
        <5> QED BY <1>5, <1>14, <4>4, <5>1, <5>2
      <4>8. sent'[h] = Character(Accepted' + 1)
        <5>1. 1 \in 1 .. Len(w)
          BY <4>3
        <5> QED BY <1>5, <1>14, <4>3, <4>5, <5>1
      <4> QED BY <1>3, <2>2, <4>1, <4>6, <4>7, <4>8 DEF PipelineInv, Character, x
    <3> QED BY <1>5, <3>2, <3>3
  <2> QED BY <2>1, <2>2
<1>16. /\ LeftWaiting(TransmitSecretary) => LeftWaiting(TransmitSecretary)'
       /\ LeftWaiting(ReceiveSecretary)' <=> LeftWaiting(ReceiveSecretary)
  BY <1>13 DEF Secretaries
<1>17. pc'[ReceiveSecretary] = "reply" /\ phase'[ReceiveSecretary] = "running"
          => pc[ReceiveSecretary] = "reply" /\ phase[ReceiveSecretary] = "running"
  BY <1>3, <1>9 DEF Secretaries
<1>18. put' \in 0 .. MaxPut
  BY <1>1 DEF SerialInv, SerialTypeOK
<1> QED BY <1>1, <1>3, <1>5, <1>6, <1>9, <1>12, <1>15, <1>16, <1>17, <1>18, OnlyTalk

LEMMA SecretarySendsKept ==
  ASSUME SerialInv, NEW s \in Secretaries, SecretarySends(s)
  PROVE  SerialInv' /\ Reads
<1>1. PICK m : m = Received(s)
  OBVIOUS
<1>2. /\ phase[s] = "running" /\ pc[s] = "send" /\ Send(s, Server, m) /\ Goes(s, "reply")
      /\ UNCHANGED <<serverVars, answer, uart, put, arrived, written>>
  BY <1>1, AtIs DEF SecretarySends, countVars
<1>3. /\ s \in Tasks /\ s \in Staff /\ s # Server /\ Server \in Tasks /\ Server \in Staff
      /\ s \in {Courier} \cup Secretaries
      /\ TransmitSecretary \in Tasks /\ ReceiveSecretary \in Tasks
      /\ TransmitSecretary # ReceiveSecretary
      /\ TransmitSecretary # Server /\ ReceiveSecretary # Server
      /\ \A t \in Secretaries : t \in Tasks /\ t \in Staff /\ t # Server
      /\ \A c \in Putters : c \in Tasks /\ c # s /\ c # Server
  BY SecretariesAre, TasksAre
<1>4. /\ pc' \in [Staff -> Places] /\ pc'[s] = "reply"
      /\ \A u \in Staff \ {s} : pc'[u] = pc[u]
  <2>1. "reply" \in Places
    BY DEF Places
  <2> QED BY <1>2, <1>3, <2>1, PcMoves DEF SerialInv
<1>5. /\ IpcInv /\ PhasesInv /\ ServerOK /\ PipelineInv /\ MailInv /\ MessagesInv
      /\ sent = [t \in Tasks |-> sent[t]]
  BY DEF SerialInv, PhasesInv, IpcInv, IpcTypes
<1>6. sender[s] \in Callers(s)
  BY <1>2, <1>5 DEF PhasesInv, SecretaryOK
<1>7. m = sent[sender[s]] /\ m.type \in {"none", KindOf(s)} /\ MaySend(s, Server)
  <2>1. sender[s] \in Tasks /\ KindOf(sender[s]) = KindOf(s)
    BY <1>6, SecretariesAre
  <2> QED BY <1>1, <1>5, <2>1 DEF Received, MessagesInv, MaySend
<1>8. IpcInv' /\ MailInv' /\ MessagesInv'
  <2>1. IpcInv'
    BY <1>2, <1>3, <1>5, SendDoes
  <2>2. MailInv' /\ MessagesInv'
    BY <1>2, <1>3, <1>7, SendKeepsMail
  <2> QED BY <2>1, <2>2
<1>9. sent'[s] = m /\ \A t \in Tasks \ {s} : sent'[t] = sent[t]
  BY <1>2, <1>3, <1>5 DEF Send
<1>10. /\ ServerOK' /\ \A t : t # s => (Handling(t)' <=> Handling(t))
       /\ \/ phase'[s] = "awaiting reply" /\ Handling(s)'
          \/ phase'[s] = "sending" /\ (Handling(s)' <=> Handling(s))
       /\ \A t \in Tasks \ {s, Server} : phase'[t] = phase[t] /\ sender'[t] = sender[t]
       /\ phase[s] = "running" /\ sender'[s] = sender[s]
       /\ \A r \in Tasks \ {Server} : inbox'[r] = inbox[r]
  <2>1. pc'[Server] = pc[Server]
    BY <1>3, <1>4
  <2> QED BY <1>2, <1>3, <2>1, ToServer
<1>11. PhasesInv'
  <2>1. ASSUME NEW t \in Secretaries \ {s} PROVE SecretaryOK(t)'
    <3>1. /\ t \in Secretaries /\ SecretaryOK(t) /\ sender'[t] = sender[t]
          /\ phase'[t] = phase[t] /\ pc'[t] = pc[t]
      BY <1>3, <1>4, <1>5, <1>10 DEF PhasesInv
    <3> QED BY <3>1, SecretaryKept
  <2>2. SecretaryOK(s)'
    <3>1. phase'[s] \in {"awaiting reply", "sending"}
      BY <1>10
    <3> QED BY <1>4, <1>6, <1>10, <3>1 DEF SecretaryOK, Callers
  <2>3. \A t \in Secretaries : SecretaryOK(t)'
    BY <2>1, <2>2
  <2> QED BY <1>10, <2>3 DEF PhasesInv, Secretaries
<1>12. ASSUME NEW t \in Secretaries PROVE LeftWaiting(t)' <=> LeftWaiting(t)
  <2>1. CASE t = s
    BY <1>10, <2>1 DEF LeftWaiting
  <2>2. CASE t # s
    BY <1>3, <1>10, <2>2 DEF LeftWaiting
  <2> QED BY <2>1, <2>2
<1>13. Accepted' = Accepted
  BY <1>2 DEF Accepted, serverVars
<1>14. PipelineInv'
  <2>1. CASE s # TransmitSecretary
    <3>1. Carries' <=> Carries
      BY <1>3, <1>4, <1>10, <2>1, TasksAre DEF Carries, Runs
    <3>2. /\ inbox'[TransmitSecretary] = inbox[TransmitSecretary]
          /\ sender'[TransmitSecretary] = sender[TransmitSecretary]
          /\ sent'[TransmitSecretary] = sent[TransmitSecretary]
          /\ pc'[TransmitSecretary] = pc[TransmitSecretary]
          /\ \A c \in Putters : phase'[c] = phase[c] /\ sent'[c] = sent[c]
      BY <1>3, <1>4, <1>9, <1>10, <2>1, TasksAre
    <3> QED BY <1>2, <1>5, <1>13, <3>1, <3>2, PipelineKept
  <2>2. CASE s = TransmitSecretary
    <3>1. Carries /\ Carries'
      <4>1. Carries
        BY <1>2, <2>2 DEF Carries, Runs
      <4>2. Carries'
        BY <1>10, <2>2 DEF Carries
      <4> QED BY <4>1, <4>2
    <3>2. /\ inbox'[TransmitSecretary] = inbox[TransmitSecretary]
          /\ sender'[TransmitSecretary] = sender[TransmitSecretary]
          /\ \A c \in Putters : phase'[c] = phase[c] /\ sent'[c] = sent[c]
      BY <1>3, <1>9, <1>10, <2>2
    <3>3. Carried' = Carried
      BY <3>1 DEF Carried
    <3>4. sender[TransmitSecretary] \in Putters
      BY <1>6, <2>2 DEF Callers
    <3>5. \A i \in 1 .. Len(inbox[TransmitSecretary]) : inbox[TransmitSecretary][i] \in Putters
      BY <1>3, <1>5, TasksAre DEF MailInv, MaySend, Secretaries, Callers
    <3>6. /\ put = Accepted + Carried + Len(inbox[TransmitSecretary])
          /\ \A i \in 1 .. Len(inbox[TransmitSecretary]) :
               sent[inbox[TransmitSecretary][i]] = Character(Accepted + Carried + i)
          /\ phase[sender[TransmitSecretary]] = "awaiting reply"
          /\ sent[sender[TransmitSecretary]] = Character(Accepted + 1)
      BY <1>5, <3>1 DEF PipelineInv
    <3>7. put' = Accepted' + Carried' + Len(inbox'[TransmitSecretary])
      BY <1>2, <1>13, <3>2, <3>3, <3>6
    <3>8. ASSUME NEW i \in 1 .. Len(inbox'[TransmitSecretary])
          PROVE  sent'[inbox'[TransmitSecretary][i]] = Character(Accepted' + Carried' + i)
      <4>1. /\ inbox'[TransmitSecretary][i] = inbox[TransmitSecretary][i]
            /\ inbox[TransmitSecretary][i] \in Putters
            /\ sent[inbox[TransmitSecretary][i]] = Character(Accepted + Carried + i)
        BY <3>2, <3>5, <3>6
      <4>2. sent'[inbox[TransmitSecretary][i]] = sent[inbox[TransmitSecretary][i]]
        BY <3>2, <4>1
      <4> QED BY <1>13, <3>3, <4>1, <4>2
    <3>9. /\ phase'[sender'[TransmitSecretary]] = "awaiting reply"
          /\ sent'[sender'[TransmitSecretary]] = Character(Accepted' + 1)
          /\ sent'[TransmitSecretary] = Character(Accepted' + 1)
      BY <1>7, <1>9, <1>13, <2>2, <3>2, <3>4, <3>6
    <3> QED BY <3>7, <3>8, <3>9 DEF PipelineInv, Character
  <2> QED BY <2>1, <2>2
<1>15. /\ LeftWaiting(TransmitSecretary) => LeftWaiting(TransmitSecretary)'
       /\ LeftWaiting(ReceiveSecretary)' <=> LeftWaiting(ReceiveSecretary)
  BY <1>12 DEF Secretaries
<1>16. pc'[ReceiveSecretary] = "reply" /\ phase'[ReceiveSecretary] = "running"
          => pc[ReceiveSecretary] = "reply" /\ phase[ReceiveSecretary] = "running"
  <2>1. CASE s = ReceiveSecretary
    BY <1>10, <2>1
  <2>2. CASE s # ReceiveSecretary
    <3>1. ReceiveSecretary \in Tasks \ {s, Server} /\ ReceiveSecretary \in Staff \ {s}
      BY <1>3, <2>2, TasksAre
    <3> QED BY <1>4, <1>10, <3>1
  <2> QED BY <2>1, <2>2
<1>17. put' \in 0 .. MaxPut /\ pc'[Server] = pc[Server]
  BY <1>2, <1>3, <1>4 DEF SerialInv, SerialTypeOK
<1> QED BY <1>2, <1>4, <1>8, <1>11, <1>14, <1>15, <1>16, <1>17, OnlyTalk

LEMMA SecretaryRepliesKept ==
  ASSUME SerialInv, NEW s \in Secretaries, SecretaryReplies(s)
  PROVE  SerialInv' /\ Reads
<1>1. PICK c : c = sender[s]
  OBVIOUS
<1>2. /\ phase[s] = "running" /\ pc[s] = "reply" /\ Reply(c) /\ Goes(s, "receive")
      /\ UNCHANGED <<transmit_buffer, receive_buffer, awaiting_transmit, awaiting_receive>>
      /\ UNCHANGED <<uart, put, arrived, written>>
      /\ answer' = IF s = ReceiveSecretary THEN [answer EXCEPT ![c] = answer[s]] ELSE answer
  BY <1>1, AtIs DEF SecretaryReplies, countVars, serverVars
<1>3. /\ s \in Tasks /\ s \in Staff /\ s # Server /\ Server \in Tasks /\ Server \in Staff
      /\ TransmitSecretary \in Tasks /\ ReceiveSecretary \in Tasks
      /\ TransmitSecretary # ReceiveSecretary
      /\ \A t \in Secretaries : t \in Tasks /\ t \in Staff /\ t # Server /\ t \notin Callers(s)
      /\ Server \notin Callers(s)
      /\ \A d \in Putters : d \in Tasks /\ (s # TransmitSecretary => d \notin Callers(s))
      /\ Callers(s) \subseteq Tasks
      /\ ReceiveSecretary \notin Getters
  BY SecretariesAre, TasksAre DEF Callers
<1>4. /\ pc' \in [Staff -> Places] /\ pc'[s] = "receive"
      /\ \A u \in Staff \ {s} : pc'[u] = pc[u]
  <2>1. "receive" \in Places
    BY DEF Places
  <2> QED BY <1>2, <1>3, <2>1, PcMoves DEF SerialInv
<1>5. IpcInv /\ PhasesInv /\ ServerOK /\ PipelineInv /\ MailInv /\ SecretaryOK(s)
  BY DEF SerialInv, PhasesInv
<1>6. c \in Callers(s) /\ c \in Tasks
  BY <1>1, <1>2, <1>3, <1>5 DEF SecretaryOK
<1>7. /\ IpcInv' /\ UNCHANGED <<inbox, sender>>
      /\ \A t \in Tasks \ {c} : phase'[t] = phase[t] /\ sent'[t] = sent[t]
      /\ phase[c] = "awaiting reply" => phase'[c] = "running" /\ sent'[c] = NoMessage
      /\ phase[c] # "awaiting reply" => phase' = phase /\ sent' = sent
  BY <1>2, <1>5, <1>6, ReplyDoes
<1>8. MailInv' /\ MessagesInv'
  BY <1>2, <1>6, ReplyKeepsMail
<1>9. /\ \A t \in Secretaries : phase'[t] = phase[t]
      /\ phase'[Server] = phase[Server] /\ pc'[Server] = pc[Server]
      /\ sender'[Server] = sender[Server]
  BY <1>3, <1>4, <1>6, <1>7
<1>10. ServerOK' /\ \A t : Handling(t)' <=> Handling(t)
  BY <1>5, <1>9, ServerKept
<1>11. PhasesInv'
  <2>1. ASSUME NEW t \in Secretaries \ {s} PROVE SecretaryOK(t)'
    <3>1. /\ t \in Secretaries /\ SecretaryOK(t) /\ sender'[t] = sender[t]
          /\ phase'[t] = phase[t] /\ pc'[t] = pc[t]
      BY <1>3, <1>4, <1>5, <1>7, <1>9 DEF PhasesInv
    <3> QED BY <3>1, SecretaryKept
  <2>2. SecretaryOK(s)'
    BY <1>2, <1>4, <1>9 DEF SecretaryOK
  <2>3. \A t \in Secretaries : SecretaryOK(t)'
    BY <2>1, <2>2
  <2> QED BY <1>10, <2>3 DEF PhasesInv, Secretaries
<1>12. \A t \in Secretaries : LeftWaiting(t)' <=> LeftWaiting(t)
  BY <1>9, <1>10 DEF LeftWaiting
<1>13. Accepted' = Accepted
  BY <1>2 DEF Accepted
<1>14. PipelineInv'
  <2>1. CASE s # TransmitSecretary
    <3>1. TransmitSecretary \in Staff \ {s} /\ TransmitSecretary \in Secretaries
      BY <2>1, TasksAre DEF Secretaries
    <3>2. Carries' <=> Carries
      BY <1>4, <1>9, <1>10, <3>1 DEF Carries, Runs
    <3>3. /\ pc'[TransmitSecretary] = pc[TransmitSecretary]
          /\ sent'[TransmitSecretary] = sent[TransmitSecretary]
          /\ \A d \in Putters : phase'[d] = phase[d] /\ sent'[d] = sent[d]
      BY <1>3, <1>4, <1>6, <1>7, <2>1, <3>1
    <3> QED BY <1>2, <1>5, <1>7, <1>13, <3>2, <3>3, PipelineKept
  <2>2. CASE s = TransmitSecretary
    <3>1. ~ Carries /\ ~ Carries'
      <4>1. ~ Handling(s)
        BY <1>2, <1>5 DEF ServerOK
      <4> QED BY <1>2, <1>4, <1>9, <1>10, <2>2, <4>1 DEF Carries, Runs
    <3>2. Carried = 0 /\ Carried' = 0
      BY <3>1 DEF Carried
    <3>3. ASSUME NEW i \in 1 .. Len(inbox[TransmitSecretary])
          PROVE  sent'[inbox[TransmitSecretary][i]] = Character(Accepted' + Carried' + i)
      <4> DEFINE d == inbox[TransmitSecretary][i]
      <4>1. d \in Tasks /\ phase[d] = "sending"
        BY <1>3, <1>5, InboxTyped
      <4>2. sent'[d] = sent[d]
        BY <1>7, <4>1
      <4>3. sent[d] = Character(Accepted + Carried + i)
        BY <1>5 DEF PipelineInv
      <4> QED BY <1>13, <3>2, <4>2, <4>3
    <3>4. put' = Accepted' + Carried' + Len(inbox'[TransmitSecretary])
      <4>1. put = Accepted + Carried + Len(inbox[TransmitSecretary])
        BY <1>5 DEF PipelineInv
      <4> QED BY <1>2, <1>7, <1>13, <3>2, <4>1
    <3>5. \A i \in 1 .. Len(inbox'[TransmitSecretary]) :
            sent'[inbox'[TransmitSecretary][i]] = Character(Accepted' + Carried' + i)
      BY <1>7, <3>3
    <3> QED BY <3>1, <3>4, <3>5 DEF PipelineInv, Character
  <2> QED BY <2>1, <2>2
<1>15. /\ LeftWaiting(TransmitSecretary) => LeftWaiting(TransmitSecretary)'
       /\ LeftWaiting(ReceiveSecretary)' <=> LeftWaiting(ReceiveSecretary)
  BY <1>12 DEF Secretaries
<1>16. pc'[ReceiveSecretary] = "reply" /\ phase'[ReceiveSecretary] = "running"
          => pc[ReceiveSecretary] = "reply" /\ phase[ReceiveSecretary] = "running"
  <2>1. CASE s = ReceiveSecretary
    BY <1>4, <2>1
  <2>2. CASE s # ReceiveSecretary
    <3>1. ReceiveSecretary \in Secretaries /\ ReceiveSecretary \in Staff \ {s}
      BY <2>2, TasksAre DEF Secretaries
    <3> QED BY <1>4, <1>9, <3>1
  <2> QED BY <2>1, <2>2
<1>17. CASE s # ReceiveSecretary
  <2>1. answer' = answer /\ put' \in 0 .. MaxPut
    BY <1>2, <1>17 DEF SerialInv, SerialTypeOK
  <2>2. UNCHANGED <<serverVars, answer, uart, arrived, written>>
    BY <1>2, <2>1 DEF serverVars
  <2> QED BY <1>4, <1>7, <1>8, <1>9, <1>11, <1>14, <1>15, <1>16, <2>1, <2>2, OnlyTalk
<1>18. CASE s = ReceiveSecretary
  <2>1. answer' = [answer EXCEPT ![c] = answer[ReceiveSecretary]] /\ c \in Getters
    BY <1>2, <1>3, <1>6, <1>18 DEF Callers
  <2>2. answer \in [Getters \cup {ReceiveSecretary} -> 0 .. MaxArrived]
    BY DEF SerialInv, SerialTypeOK
  <2>3. /\ answer' \in [Getters \cup {ReceiveSecretary} -> 0 .. MaxArrived]
        /\ answer'[ReceiveSecretary] = answer[ReceiveSecretary]
        /\ \A d \in Getters : \/ answer'[d] = answer[d]
                              \/ answer'[d] = answer[ReceiveSecretary]
    BY <1>3, <2>1, <2>2
  <2>4. SerialTypeOK'
    BY <1>2, <1>4, <2>3, Zenon DEF SerialInv, SerialTypeOK, Places
  <2>5. answer[ReceiveSecretary] \in Nat /\ \A d \in Getters : answer[d] \in Nat
    BY CountsAre DEF SerialInv
  <2>6. TransmitterInv'
    BY <1>2, <1>9, <1>15, TransmitterKept DEF SerialInv
  <2>7. \A d \in Getters : answer'[d] <= answer'[ReceiveSecretary]
    BY <2>3, <2>5 DEF SerialInv, OrderInv
  <2>8. OrderInv'
    BY <1>2, <2>3, <2>7 DEF SerialInv, OrderInv, Item, RxFull
  <2>9. RepliesInv'
    BY <1>4, <1>18 DEF RepliesInv
  <2>10. WaiterInv'
    BY <1>2, <1>15 DEF SerialInv, WaiterInv, IsCyclicBufferEmpty
  <2>11. Reads
    <3>1. \A d \in Getters : answer[d] < answer[ReceiveSecretary]
      BY <1>2, <1>18 DEF SerialInv, RepliesInv, Runs
    <3>2. \A d, e \in Getters : answer'[d] # answer[d] => answer'[d] > answer[e]
      BY <2>3, <2>5, <3>1
    <3> QED BY <1>2, <3>2 DEF Reads
  <2> QED BY <1>7, <1>8, <1>11, <1>14, <2>4, <2>6, <2>8, <2>9, <2>10, <2>11 DEF SerialInv
<1> QED BY <1>17, <1>18

\* Steps of the notifier and of the courier that do not reach the server.
LEMMA Elsewhere ==
  ASSUME SerialInv, UNCHANGED <<serverVars, answer, uart, countVars, written>>,
         NEW t \in {Notifier, Courier}, NEW where \in Places, Goes(t, where),
         \A u \in Tasks \ {Notifier, Courier} :
           phase'[u] = phase[u] /\ sender'[u] = sender[u] /\ sent'[u] = sent[u]
           /\ inbox'[u] = inbox[u],
         IpcInv', MailInv', MessagesInv'
  PROVE  SerialInv' /\ Reads
<1>1. /\ {Server, TransmitSecretary, ReceiveSecretary} \subseteq Tasks \ {Notifier, Courier}
      /\ {Server, TransmitSecretary, ReceiveSecretary} \subseteq Staff \ {t}
      /\ Putters \subseteq Tasks \ {Notifier, Courier} /\ t \in Staff
  BY TasksAre DEF Staff
<1>2. /\ pc' \in [Staff -> Places] /\ \A u \in Staff \ {t} : pc'[u] = pc[u]
  BY <1>1, PcMoves DEF SerialInv
<1>3. /\ IpcInv /\ PhasesInv /\ ServerOK /\ PipelineInv /\ MailInv
      /\ put' = put /\ Accepted' = Accepted /\ put \in 0 .. MaxPut
      /\ UNCHANGED <<serverVars, answer, uart, arrived, written>>
  BY DEF SerialInv, PhasesInv, countVars, Accepted, serverVars, SerialTypeOK
<1>4. \A u \in Secretaries : /\ phase'[u] = phase[u] /\ sender'[u] = sender[u]
                             /\ sent'[u] = sent[u] /\ inbox'[u] = inbox[u] /\ pc'[u] = pc[u]
  BY <1>1, <1>2 DEF Secretaries
<1>5. ServerOK' /\ \A u : Handling(u)' <=> Handling(u)
  BY <1>1, <1>2, <1>3, <1>4, ServerKept
<1>6. PhasesInv'
  <2>1. \A u \in Secretaries : SecretaryOK(u)'
    BY <1>3, <1>4, SecretaryKept DEF PhasesInv
  <2> QED BY <1>5, <2>1 DEF PhasesInv, Secretaries
<1>7. TransmitSecretary \in Secretaries /\ ReceiveSecretary \in Secretaries
  BY DEF Secretaries
<1>8. Carries' <=> Carries
  BY <1>4, <1>5, <1>7 DEF Carries, Runs
<1>9. PipelineInv'
  BY <1>1, <1>3, <1>4, <1>7, <1>8, PipelineKept
<1>10. \A u \in Secretaries : LeftWaiting(u)' <=> LeftWaiting(u)
  BY <1>4, <1>5 DEF LeftWaiting
<1>11. /\ LeftWaiting(TransmitSecretary) => LeftWaiting(TransmitSecretary)'
       /\ LeftWaiting(ReceiveSecretary)' <=> LeftWaiting(ReceiveSecretary)
  BY <1>7, <1>10
<1>12. /\ pc'[ReceiveSecretary] = pc[ReceiveSecretary] /\ pc'[Server] = pc[Server]
       /\ phase'[ReceiveSecretary] = phase[ReceiveSecretary]
  BY <1>1, <1>2, <1>4, <1>7
<1> QED BY <1>2, <1>3, <1>6, <1>9, <1>11, <1>12, OnlyTalk

LEMMA NotifierReceivesKept == ASSUME SerialInv, NotifierReceives PROVE SerialInv' /\ Reads
<1>1. /\ Receive(Notifier) /\ Goes(Notifier, "await") /\ "await" \in Places
      /\ UNCHANGED <<serverVars, answer, uart, countVars, written>>
  BY DEF NotifierReceives, Places
<1>2. /\ Notifier \in Tasks /\ Notifier # Server /\ Notifier \notin Secretaries
      /\ IpcInv /\ inbox = [t \in Tasks |-> inbox[t]]
  BY TasksAre DEF SerialInv, Secretaries, IpcInv, IpcTypes
<1>3. /\ IpcInv'
      /\ phase[Notifier] = "running" /\ sent' = sent
      /\ \/ /\ phase'[Notifier] = "receiving"
            /\ \A t \in Tasks \ {Notifier} : phase'[t] = phase[t]
            /\ sender' = sender /\ inbox' = inbox /\ inbox[Notifier] = <<>>
         \/ \E s \in Tasks :
              /\ phase[s] = "sending" /\ s # Notifier /\ inbox[Notifier] # <<>>
              /\ s = Head(inbox[Notifier])
              /\ phase'[s] = "awaiting reply"
              /\ \A t \in Tasks \ {s} : phase'[t] = phase[t]
              /\ sender'[Notifier] = s /\ \A t \in Tasks \ {Notifier} : sender'[t] = sender[t]
              /\ inbox' = [inbox EXCEPT ![Notifier] = Tail(inbox[Notifier])]
  <2> DEFINE r == Notifier
  <2>1. r \in Tasks /\ Receive(r)
    BY <1>1, <1>2
  <2> HIDE DEF r
  <2>2. /\ IpcInv'
        /\ phase[r] = "running" /\ sent' = sent
        /\ \/ /\ phase'[r] = "receiving" /\ \A t \in Tasks \ {r} : phase'[t] = phase[t]
              /\ sender' = sender /\ inbox' = inbox /\ inbox[r] = <<>>
           \/ \E s \in Tasks :
                /\ phase[s] = "sending" /\ s # r /\ inbox[r] # <<>> /\ s = Head(inbox[r])
                /\ phase'[s] = "awaiting reply"
                /\ \A t \in Tasks \ {s} : phase'[t] = phase[t]
                /\ sender'[r] = s /\ \A t \in Tasks \ {r} : sender'[t] = sender[t]
                /\ inbox' = [inbox EXCEPT ![r] = Tail(inbox[r])]
    BY <1>2, <2>1, ReceiveDoes, Zenon
  <2> QED BY <2>2 DEF r
<1>4. /\ MailInv' /\ MessagesInv'
      /\ inbox[Notifier] # <<>> => MaySend(Head(inbox[Notifier]), Notifier)
  BY <1>1, <1>2, ReceiveKeepsMail
<1>5. inbox[Notifier] # <<>> => Head(inbox[Notifier]) = Courier
  BY <1>2, <1>4 DEF MaySend
<1>6. \A u \in Tasks \ {Notifier, Courier} :
        phase'[u] = phase[u] /\ sender'[u] = sender[u] /\ sent'[u] = sent[u]
        /\ inbox'[u] = inbox[u]
  <2>1. CASE /\ \A t \in Tasks \ {Notifier} : phase'[t] = phase[t]
             /\ sender' = sender /\ inbox' = inbox
    BY <1>3, <2>1
  <2>2. CASE \E s \in Tasks :
               /\ phase[s] = "sending" /\ s # Notifier /\ inbox[Notifier] # <<>>
               /\ s = Head(inbox[Notifier])
               /\ phase'[s] = "awaiting reply"
               /\ \A t \in Tasks \ {s} : phase'[t] = phase[t]
               /\ sender'[Notifier] = s /\ \A t \in Tasks \ {Notifier} : sender'[t] = sender[t]
               /\ inbox' = [inbox EXCEPT ![Notifier] = Tail(inbox[Notifier])]
    <3>1. /\ \A t \in Tasks \ {Courier} : phase'[t] = phase[t]
          /\ \A t \in Tasks \ {Notifier} : sender'[t] = sender[t]
          /\ inbox' = [inbox EXCEPT ![Notifier] = Tail(inbox[Notifier])]
      BY <1>5, <2>2
    <3>2. \A t \in Tasks \ {Notifier} : inbox'[t] = inbox[t]
      BY <1>2, <3>1
    <3> QED BY <1>3, <3>1, <3>2
  <2> QED BY <1>3, <2>1, <2>2
<1> QED BY <1>1, <1>3, <1>4, <1>6, Elsewhere

LEMMA NotifierKept ==
  ASSUME SerialInv, NotifierAwaits \/ Interrupt \/ NotifierReplies
  PROVE  SerialInv' /\ Reads
<1>1. UNCHANGED <<serverVars, answer, uart, countVars, written>>
  BY DEF NotifierAwaits, Interrupt, NotifierReplies
<1>2. PICK where \in Places : Goes(Notifier, where)
  BY DEF NotifierAwaits, Interrupt, NotifierReplies, Places
<1>3. CASE NotifierAwaits \/ Interrupt
  <2>1. UNCHANGED <<ipcVars, phase, inbox, sent, sender>>
    BY <1>3 DEF NotifierAwaits, Interrupt, ipcVars
  <2>2. IpcInv'
    BY <2>1, IpcUnchanged DEF SerialInv
  <2>3. MailInv' /\ MessagesInv'
    BY <2>1 DEF SerialInv, MailInv, MessagesInv, MaySend, KindOf
  <2> QED BY <1>1, <1>2, <2>1, <2>2, <2>3, Elsewhere
<1>4. CASE NotifierReplies
  <2>1. Reply(Courier) /\ Courier \in Tasks
    BY <1>4, TasksAre DEF NotifierReplies
  <2>2. /\ IpcInv' /\ UNCHANGED <<inbox, sender>>
        /\ \A t \in Tasks \ {Courier} : phase'[t] = phase[t] /\ sent'[t] = sent[t]
    BY <2>1, ReplyDoes DEF SerialInv
  <2>3. MailInv' /\ MessagesInv'
    BY <2>1, ReplyKeepsMail
  <2> QED BY <1>1, <1>2, <2>2, <2>3, Elsewhere
<1> QED BY <1>3, <1>4

LEMMA CourierAsksKept == ASSUME SerialInv, CourierAsks PROVE SerialInv' /\ Reads
<1>1. PICK m : m = NoMessage
  OBVIOUS
<1>2. /\ Send(Courier, Notifier, m) /\ Goes(Courier, "tell") /\ "tell" \in Places
      /\ UNCHANGED <<serverVars, answer, uart, countVars, written>>
  BY <1>1 DEF CourierAsks, Places
<1>3. /\ Courier \in Tasks /\ Notifier \in Tasks /\ MaySend(Courier, Notifier)
      /\ m.type \in {"none", KindOf(Courier)}
      /\ IpcInv /\ inbox = [t \in Tasks |-> inbox[t]]
  BY <1>1, TasksAre DEF MaySend, NoMessage, SerialInv, IpcInv, IpcTypes
<1>4. MailInv' /\ MessagesInv'
  BY <1>2, <1>3, SendKeepsMail
<1>5. /\ IpcInv'
      /\ \A u \in Tasks \ {Notifier, Courier} :
           phase'[u] = phase[u] /\ sender'[u] = sender[u] /\ sent'[u] = sent[u]
           /\ inbox'[u] = inbox[u]
  <2> DEFINE s == Courier
             r == Notifier
  <2>1. s \in Tasks /\ r \in Tasks /\ Send(s, r, m)
    BY <1>2, <1>3
  <2> HIDE DEF s, r
  <2>2. /\ IpcInv'
        /\ phase[s] = "running"
        /\ sent'[s] = m /\ \A t \in Tasks \ {s} : sent'[t] = sent[t]
        /\ \/ /\ phase[r] = "receiving" /\ s # r
              /\ phase'[s] = "awaiting reply" /\ phase'[r] = "running"
              /\ \A t \in Tasks \ {r, s} : phase'[t] = phase[t]
              /\ sender'[r] = s /\ \A t \in Tasks \ {r} : sender'[t] = sender[t]
              /\ inbox' = inbox
           \/ /\ phase[r] \notin {"receiving", "none"} /\ phase'[s] = "sending"
              /\ \A t \in Tasks \ {s} : phase'[t] = phase[t]
              /\ sender' = sender
              /\ inbox' = [inbox EXCEPT ![r] = Append(inbox[r], s)]
    BY <1>3, <2>1, SendDoes
  <2>3. \A u \in Tasks \ {r} : inbox'[u] = inbox[u]
    BY <1>3, <2>2
  <2>4. \A u \in Tasks \ {r, s} :
          phase'[u] = phase[u] /\ sender'[u] = sender[u] /\ sent'[u] = sent[u]
          /\ inbox'[u] = inbox[u]
    BY <2>2, <2>3
  <2> QED BY <2>2, <2>4 DEF s, r
<1> QED BY <1>2, <1>4, <1>5, Elsewhere

LEMMA CourierTellsKept == ASSUME SerialInv, CourierTells PROVE SerialInv' /\ Reads
<1>1. PICK m : m = [type |-> "SS_NOTIFIER"]
  OBVIOUS
<1>2. /\ Send(Courier, Server, m) /\ Goes(Courier, "ask") /\ "ask" \in Places
      /\ UNCHANGED <<serverVars, answer, uart, put, arrived, written>>
  BY <1>1 DEF CourierTells, Places, countVars
<1>3. /\ Courier \in Tasks /\ Server \in Tasks /\ MaySend(Courier, Server)
      /\ KindOf(Courier) = "SS_NOTIFIER" /\ Courier \in Staff
      /\ {Server, TransmitSecretary, ReceiveSecretary} \subseteq Staff \ {Courier}
      /\ {TransmitSecretary, ReceiveSecretary} \subseteq Tasks \ {Courier, Server}
      /\ Putters \subseteq Tasks \ {Courier, Server}
      /\ IpcInv /\ sent = [t \in Tasks |-> sent[t]]
  BY TasksAre DEF MaySend, KindOf, SerialInv, IpcInv, IpcTypes
<1>4. MailInv' /\ MessagesInv'
  <2>1. m.type \in {"none", KindOf(Courier)}
    BY <1>1, <1>3
  <2> QED BY <1>2, <1>3, <2>1, SendKeepsMail
<1>5. IpcInv'
  BY <1>2, <1>3, SendDoes
<1>6. \A t \in Tasks \ {Courier} : sent'[t] = sent[t]
  BY <1>2, <1>3 DEF Send
<1>7. /\ pc' \in [Staff -> Places] /\ \A u \in Staff \ {Courier} : pc'[u] = pc[u]
  BY <1>2, <1>3, PcMoves DEF SerialInv
<1>8. /\ ServerOK' /\ \A t : t # Courier => (Handling(t)' <=> Handling(t))
      /\ \A t \in Tasks \ {Courier, Server} : phase'[t] = phase[t] /\ sender'[t] = sender[t]
      /\ \A r \in Tasks \ {Server} : inbox'[r] = inbox[r]
  <2>1. pc'[Server] = pc[Server]
    BY <1>3, <1>7
  <2> QED BY <1>2, <2>1, ToServer
<1>9. /\ PhasesInv /\ PipelineInv /\ MailInv /\ put' = put /\ Accepted' = Accepted
      /\ put \in 0 .. MaxPut
  BY <1>2 DEF SerialInv, PhasesInv, Accepted, serverVars, SerialTypeOK
<1>10. \A u \in Secretaries :
         /\ phase'[u] = phase[u] /\ sender'[u] = sender[u] /\ sent'[u] = sent[u]
         /\ inbox'[u] = inbox[u] /\ pc'[u] = pc[u] /\ (Handling(u)' <=> Handling(u))
  BY <1>3, <1>6, <1>7, <1>8 DEF Secretaries
<1>11. PhasesInv'
  <2>1. \A u \in Secretaries : SecretaryOK(u)'
    BY <1>9, <1>10, SecretaryKept DEF PhasesInv
  <2> QED BY <1>8, <2>1 DEF PhasesInv, Secretaries
<1>12. TransmitSecretary \in Secretaries /\ ReceiveSecretary \in Secretaries
  BY DEF Secretaries
<1>13. Carries' <=> Carries
  BY <1>10, <1>12 DEF Carries, Runs
<1>14. PipelineInv'
  <2>1. \A c \in Putters : phase'[c] = phase[c] /\ sent'[c] = sent[c]
    BY <1>3, <1>6, <1>8
  <2> QED BY <1>3, <1>9, <1>10, <1>12, <1>13, <2>1, PipelineKept
<1>15. \A u \in Secretaries : LeftWaiting(u)' <=> LeftWaiting(u)
  BY <1>10 DEF LeftWaiting
<1>16. /\ LeftWaiting(TransmitSecretary) => LeftWaiting(TransmitSecretary)'
       /\ LeftWaiting(ReceiveSecretary)' <=> LeftWaiting(ReceiveSecretary)
  BY <1>12, <1>15
<1>17. /\ pc'[ReceiveSecretary] = pc[ReceiveSecretary] /\ pc'[Server] = pc[Server]
       /\ phase'[ReceiveSecretary] = phase[ReceiveSecretary]
  BY <1>3, <1>7, <1>10, <1>12
<1> QED BY <1>2, <1>4, <1>5, <1>7, <1>9, <1>11, <1>14, <1>16, <1>17, OnlyTalk

LEMMA ServerReceivesKept == ASSUME SerialInv, ServerReceives PROVE SerialInv' /\ Reads
<1>1. /\ phase[Server] = "running" /\ pc[Server] = "receive"
      /\ Receive(Server) /\ Goes(Server, "handle") /\ "handle" \in Places
      /\ UNCHANGED <<serverVars, answer, uart, put, arrived, written>>
  BY AtIs DEF ServerReceives, Places, countVars
<1>2. /\ Server \in Tasks /\ Server \in Staff
      /\ Secretaries \subseteq Staff \ {Server} /\ Secretaries \subseteq Tasks \ {Server}
      /\ Putters \subseteq Tasks \ {Server}
      /\ \A c \in Putters : c \notin {Courier} \cup Secretaries
      /\ Server \notin {Courier} \cup Secretaries /\ Server # Notifier
      /\ TransmitSecretary \in Secretaries /\ ReceiveSecretary \in Secretaries
  BY TasksAre DEF Secretaries
<1>3. /\ IpcInv /\ PhasesInv /\ PipelineInv /\ MailInv /\ put' = put /\ Accepted' = Accepted
      /\ put \in 0 .. MaxPut /\ inbox = [t \in Tasks |-> inbox[t]]
  BY <1>1 DEF SerialInv, Accepted, serverVars, SerialTypeOK, IpcInv, IpcTypes
<1>4. /\ pc' \in [Staff -> Places] /\ pc'[Server] = "handle"
      /\ \A u \in Staff \ {Server} : pc'[u] = pc[u]
  BY <1>1, <1>2, PcMoves DEF SerialInv
<1>5. \A t : ~ Handling(t)
  BY <1>1 DEF Handling
<1>6. /\ MailInv' /\ MessagesInv'
      /\ inbox[Server] # <<>> => MaySend(Head(inbox[Server]), Server)
  BY <1>1, <1>2, ReceiveKeepsMail
<1>7. inbox[Server] # <<>> => Head(inbox[Server]) \in {Courier} \cup Secretaries
  BY <1>2, <1>6 DEF MaySend
<1>8. /\ IpcInv' /\ sent' = sent
      /\ \/ /\ phase'[Server] = "receiving" /\ \A t \in Tasks \ {Server} : phase'[t] = phase[t]
            /\ sender' = sender /\ inbox' = inbox
         \/ \E h \in {Courier} \cup Secretaries :
              /\ phase[h] = "sending" /\ phase'[h] = "awaiting reply"
              /\ \A t \in Tasks \ {h} : phase'[t] = phase[t]
              /\ sender'[Server] = h /\ \A t \in Tasks \ {Server} : sender'[t] = sender[t]
              /\ \A t \in Tasks \ {Server} : inbox'[t] = inbox[t]
  <2> DEFINE r == Server
  <2>1. r \in Tasks /\ Receive(r)
    BY <1>1, <1>2
  <2> HIDE DEF r
  <2>2. /\ IpcInv'
        /\ phase[r] = "running" /\ sent' = sent
        /\ \/ /\ phase'[r] = "receiving" /\ \A t \in Tasks \ {r} : phase'[t] = phase[t]
              /\ sender' = sender /\ inbox' = inbox /\ inbox[r] = <<>>
           \/ \E s \in Tasks :
                /\ phase[s] = "sending" /\ s # r /\ inbox[r] # <<>> /\ s = Head(inbox[r])
                /\ phase'[s] = "awaiting reply"
                /\ \A t \in Tasks \ {s} : phase'[t] = phase[t]
                /\ sender'[r] = s /\ \A t \in Tasks \ {r} : sender'[t] = sender[t]
                /\ inbox' = [inbox EXCEPT ![r] = Tail(inbox[r])]
    BY <1>3, <2>1, ReceiveDoes, Zenon
  <2>3. CASE /\ phase'[r] = "receiving" /\ \A t \in Tasks \ {r} : phase'[t] = phase[t]
             /\ sender' = sender /\ inbox' = inbox
    BY <2>2, <2>3 DEF r
  <2>4. CASE \E s \in Tasks :
                /\ phase[s] = "sending" /\ s # r /\ inbox[r] # <<>> /\ s = Head(inbox[r])
                /\ phase'[s] = "awaiting reply"
                /\ \A t \in Tasks \ {s} : phase'[t] = phase[t]
                /\ sender'[r] = s /\ \A t \in Tasks \ {r} : sender'[t] = sender[t]
                /\ inbox' = [inbox EXCEPT ![r] = Tail(inbox[r])]
    <3>1. PICK h \in Tasks :
                /\ phase[h] = "sending" /\ h # r /\ inbox[r] # <<>> /\ h = Head(inbox[r])
                /\ phase'[h] = "awaiting reply"
                /\ \A t \in Tasks \ {h} : phase'[t] = phase[t]
                /\ sender'[r] = h /\ \A t \in Tasks \ {r} : sender'[t] = sender[t]
                /\ inbox' = [inbox EXCEPT ![r] = Tail(inbox[r])]
      BY <2>4
    <3>2. h \in {Courier} \cup Secretaries
      BY <1>7, <3>1 DEF r
    <3>3. \A t \in Tasks \ {r} : inbox'[t] = inbox[t]
      BY <1>3, <3>1
    <3>4. \E x \in {Courier} \cup Secretaries :
              /\ phase[x] = "sending" /\ phase'[x] = "awaiting reply"
              /\ \A t \in Tasks \ {x} : phase'[t] = phase[t]
              /\ sender'[r] = x /\ \A t \in Tasks \ {r} : sender'[t] = sender[t]
              /\ \A t \in Tasks \ {r} : inbox'[t] = inbox[t]
      BY <3>1, <3>2, <3>3
    <3> QED BY <2>2, <3>4 DEF r
  <2> QED BY <2>2, <2>3, <2>4
\* Who is taken from the inbox, or nobody.
<1>9. PICK h \in {Courier} \cup Secretaries :
        /\ \A t : Handling(t)' => t = h /\ phase[t] = "sending" /\ phase'[t] = "awaiting reply"
        /\ phase'[h] # phase[h] =>
             Handling(h)' /\ phase[h] = "sending" /\ phase'[h] = "awaiting reply"
        /\ \A t \in Tasks \ {h, Server} : phase'[t] = phase[t]
        /\ \A t \in Tasks \ {Server} : inbox'[t] = inbox[t] /\ sender'[t] = sender[t]
  <2>1. CASE /\ phase'[Server] = "receiving" /\ \A t \in Tasks \ {Server} : phase'[t] = phase[t]
             /\ sender' = sender /\ inbox' = inbox
    <3>1. \A t : ~ Handling(t)'
      BY <2>1 DEF Handling, Runs
    <3>2. Courier \in Tasks \ {Server}
      BY TasksAre
    <3> QED BY <2>1, <3>1, <3>2
  <2>2. CASE \E h \in {Courier} \cup Secretaries :
               /\ phase[h] = "sending" /\ phase'[h] = "awaiting reply"
               /\ \A t \in Tasks \ {h} : phase'[t] = phase[t]
               /\ sender'[Server] = h /\ \A t \in Tasks \ {Server} : sender'[t] = sender[t]
               /\ \A t \in Tasks \ {Server} : inbox'[t] = inbox[t]
    <3>1. PICK h \in {Courier} \cup Secretaries :
               /\ phase[h] = "sending" /\ phase'[h] = "awaiting reply"
               /\ \A t \in Tasks \ {h} : phase'[t] = phase[t]
               /\ sender'[Server] = h /\ \A t \in Tasks \ {Server} : sender'[t] = sender[t]
               /\ \A t \in Tasks \ {Server} : inbox'[t] = inbox[t]
      BY <2>2
    <3>2. phase'[Server] = "running"
      BY <1>1, <1>2, <3>1
    <3>3. \A t : Handling(t)' <=> t = h
      BY <1>4, <3>1, <3>2 DEF Handling, Runs
    <3> QED BY <3>1, <3>3
  <2> QED BY <1>8, <2>1, <2>2
<1>10. ASSUME NEW u \in Secretaries
       PROVE  /\ sender'[u] = sender[u] /\ pc'[u] = pc[u] /\ inbox'[u] = inbox[u]
              /\ \/ phase'[u] = phase[u]
                 \/ phase[u] = "sending" /\ phase'[u] = "awaiting reply" /\ Handling(u)'
  <2>1. u \in Tasks \ {Server} /\ u \in Staff \ {Server}
    BY <1>2
  <2> QED BY <1>4, <1>9, <2>1
<1>11. PhasesInv'
  <2>1. ServerOK'
    BY <1>4, <1>9 DEF ServerOK, Secretaries
  <2>2. \A u \in Secretaries : SecretaryOK(u)'
    BY <1>3, <1>10, SecretaryKept DEF PhasesInv
  <2> QED BY <2>1, <2>2 DEF PhasesInv, Secretaries
<1>12. ASSUME NEW u \in Secretaries PROVE LeftWaiting(u)' <=> LeftWaiting(u)
  BY <1>5, <1>9, <1>10 DEF LeftWaiting
<1>13. Carries' <=> Carries
  <2>1. CASE phase'[TransmitSecretary] = phase[TransmitSecretary]
    <3>1. Handling(TransmitSecretary)' => phase[TransmitSecretary] = "sending"
      BY <1>9
    <3> QED BY <1>2, <1>5, <1>10, <2>1, <3>1 DEF Carries, Runs
  <2>2. CASE phase[TransmitSecretary] = "sending" /\ Handling(TransmitSecretary)'
    BY <2>2 DEF Carries
  <2> QED BY <1>2, <1>10, <2>1, <2>2
<1>14. PipelineInv'
  <2>1. \A c \in Putters : phase'[c] = phase[c] /\ sent'[c] = sent[c]
    BY <1>2, <1>8, <1>9
  <2>2. /\ inbox'[TransmitSecretary] = inbox[TransmitSecretary]
        /\ sender'[TransmitSecretary] = sender[TransmitSecretary]
        /\ pc'[TransmitSecretary] = pc[TransmitSecretary]
    BY <1>2, <1>10
  <2> QED BY <1>3, <1>8, <1>13, <2>1, <2>2, PipelineKept
<1>15. /\ LeftWaiting(TransmitSecretary) => LeftWaiting(TransmitSecretary)'
       /\ LeftWaiting(ReceiveSecretary)' <=> LeftWaiting(ReceiveSecretary)
  BY <1>2, <1>12
<1>16. /\ pc'[ReceiveSecretary] = "reply" /\ phase'[ReceiveSecretary] = "running"
           => pc[ReceiveSecretary] = "reply" /\ phase[ReceiveSecretary] = "running"
       /\ pc'[Server] # "start transmitter"
  BY <1>2, <1>4, <1>10
<1> QED BY <1>1, <1>3, <1>4, <1>6, <1>8, <1>11, <1>14, <1>15, <1>16, OnlyTalk

\* The server has handled its message or goes on with it, and may reply to x.
LEMMA ServerGoes ==
  ASSUME SerialInv, NEW x \in {Courier} \cup Secretaries, Reply(x) \/ UNCHANGED ipcVars,
         phase[Server] = "running", NEW where \in Places \ {"handle"}, Goes(Server, where)
  PROVE  /\ IpcInv' /\ MailInv' /\ MessagesInv' /\ PhasesInv'
         /\ pc' \in [Staff -> Places] /\ pc'[Server] = where
         /\ \A t : ~ Handling(t)'
         /\ \A t \in Secretaries \ {x} : phase'[t] = phase[t]
         /\ \A t \in Secretaries : pc'[t] = pc[t]
         /\ Reply(x) /\ phase[x] = "awaiting reply" => phase'[x] = "running"
         /\ UNCHANGED ipcVars => phase' = phase
         /\ ~ Handling(TransmitSecretary) /\ Accepted' = Accepted /\ put' = put => PipelineInv'
         /\ UNCHANGED <<inbox, sender>>
         /\ \A t \in Tasks : phase[t] = "sending" => sent'[t] = sent[t]
<1>1. /\ x \in Tasks /\ Server \in Tasks /\ x # Server /\ Server \in Staff
      /\ Secretaries \subseteq Staff \ {Server} /\ Secretaries \subseteq Tasks \ {Server}
      /\ \A c \in Putters : c \in Tasks /\ c # x
      /\ TransmitSecretary \in Secretaries
  BY TasksAre DEF Secretaries
<1>2. /\ pc' \in [Staff -> Places] /\ pc'[Server] = where
      /\ \A u \in Staff \ {Server} : pc'[u] = pc[u]
  BY <1>1, PcMoves DEF SerialInv
<1>3. IpcInv /\ MailInv /\ PhasesInv /\ PipelineInv
  BY DEF SerialInv
<1>4. /\ IpcInv' /\ UNCHANGED <<inbox, sender>> /\ MailInv' /\ MessagesInv'
      /\ \A t \in Tasks \ {x} : phase'[t] = phase[t] /\ sent'[t] = sent[t]
      /\ \/ phase'[x] = phase[x] /\ sent'[x] = sent[x] /\ phase[x] # "awaiting reply"
         \/ phase[x] = "awaiting reply" /\ phase'[x] = "running"
         \/ UNCHANGED ipcVars
      /\ Reply(x) /\ phase[x] = "awaiting reply" => phase'[x] = "running"
      /\ UNCHANGED ipcVars => phase' = phase /\ sent' = sent
  <2>1. CASE Reply(x)
    <3>1. /\ IpcInv' /\ UNCHANGED <<inbox, sender>>
          /\ \A t \in Tasks \ {x} : phase'[t] = phase[t] /\ sent'[t] = sent[t]
          /\ phase[x] = "awaiting reply" => phase'[x] = "running" /\ sent'[x] = NoMessage
          /\ phase[x] # "awaiting reply" => phase' = phase /\ sent' = sent
      BY <1>1, <1>3, <2>1, ReplyDoes
    <3>2. MailInv' /\ MessagesInv'
      BY <1>1, <2>1, ReplyKeepsMail
    <3>3. UNCHANGED ipcVars => phase' = phase /\ sent' = sent
      BY DEF ipcVars
    <3> QED BY <3>1, <3>2, <3>3
  <2>2. CASE UNCHANGED ipcVars
    <3>1. UNCHANGED <<phase, inbox, sent, sender>>
      BY <2>2 DEF ipcVars
    <3>2. IpcInv'
      BY <1>3, <2>2, IpcUnchanged
    <3>3. MailInv' /\ MessagesInv'
      BY <3>1 DEF SerialInv, MailInv, MessagesInv, MaySend, KindOf
    <3>4. Reply(x) /\ phase[x] = "awaiting reply" => phase'[x] = "running"
      BY <1>1, <1>3, ReplyDoes
    <3> QED BY <2>2, <3>1, <3>2, <3>3, <3>4
  <2> QED BY <2>1, <2>2
<1>5. \A t : ~ Handling(t)'
  BY <1>2 DEF Handling
<1>6. ASSUME NEW u \in Secretaries
      PROVE  /\ pc'[u] = pc[u] /\ sender'[u] = sender[u]
             /\ \/ phase'[u] = phase[u]
                \/ phase[u] = "awaiting reply" /\ phase'[u] = "running"
  <2>1. CASE u # x
    BY <1>1, <1>2, <1>4, <2>1
  <2>2. CASE u = x
    <3>1. UNCHANGED ipcVars => phase'[u] = phase[u]
      BY <1>4
    <3> QED BY <1>1, <1>2, <1>4, <2>2, <3>1
  <2> QED BY <2>1, <2>2
<1>7. PhasesInv'
  <2>1. ServerOK'
    <3>1. phase'[Server] = "running"
      BY <1>1, <1>4
    <3> QED BY <1>5, <3>1 DEF ServerOK
  <2>2. \A u \in Secretaries : SecretaryOK(u)'
    BY <1>3, <1>6, SecretaryKept DEF PhasesInv
  <2> QED BY <2>1, <2>2 DEF PhasesInv, Secretaries
<1>8. ASSUME ~ Handling(TransmitSecretary), Accepted' = Accepted, put' = put
      PROVE  PipelineInv'
  <2>1. SecretaryOK(TransmitSecretary)
    BY <1>1, <1>3 DEF PhasesInv
  <2>2. Carries' <=> Carries
    <3>1. CASE phase'[TransmitSecretary] = phase[TransmitSecretary]
      BY <1>1, <1>5, <1>6, <1>8, <3>1 DEF Carries, Runs
    <3>2. CASE phase[TransmitSecretary] = "awaiting reply" /\ phase'[TransmitSecretary] = "running"
      BY <1>1, <1>5, <1>6, <1>8, <2>1, <3>2 DEF Carries, Runs, SecretaryOK
    <3> QED BY <1>1, <1>6, <3>1, <3>2
  <2>3. Carries => sent'[TransmitSecretary] = sent[TransmitSecretary]
    <3>1. Carries => phase[TransmitSecretary] # "awaiting reply"
      BY <1>8, <2>1 DEF Carries, Runs, SecretaryOK
    <3>2. TransmitSecretary \in Tasks
      BY <1>1
    <3> QED BY <1>4, <3>1, <3>2
  <2>4. \A c \in Putters : phase'[c] = phase[c] /\ sent'[c] = sent[c]
    BY <1>1, <1>4
  <2>5. pc'[TransmitSecretary] = pc[TransmitSecretary]
    BY <1>1, <1>6
  <2> QED BY <1>3, <1>4, <1>8, <2>2, <2>3, <2>4, <2>5, PipelineKept
<1>9. \A t \in Tasks : phase[t] = "sending" => sent'[t] = sent[t]
  BY <1>4
<1>10. \A t \in Secretaries \ {x} : phase'[t] = phase[t]
  BY <1>1, <1>4
<1> QED BY <1>2, <1>4, <1>5, <1>6, <1>7, <1>8, <1>9, <1>10

\* What is handled tells who has sent it.
LEMMA HandledIs ==
  ASSUME SerialInv, NEW type, Handles(type)
  PROVE  /\ phase[Server] = "running" /\ pc[Server] = "handle"
         /\ Handling(sender[Server]) /\ sender[Server] \in {Courier} \cup Secretaries
         /\ sent[sender[Server]].type = type
         /\ type = "SS_NOTIFIER" => sender[Server] = Courier
         /\ type = "SS_RECEIVE" => sender[Server] = ReceiveSecretary
         /\ type = "SS_TRANSMIT" => sender[Server] = TransmitSecretary
<1>1. phase[Server] = "running" /\ pc[Server] = "handle" /\ sent[sender[Server]].type = type
  BY AtIs DEF Handles, Received
<1>2. Handling(sender[Server])
  BY <1>1 DEF Handling, Runs
<1>3. sender[Server] \in {Courier} \cup Secretaries
  BY <1>2 DEF SerialInv, PhasesInv, ServerOK
<1>4. /\ KindOf(Courier) = "SS_NOTIFIER" /\ KindOf(TransmitSecretary) = "SS_TRANSMIT"
      /\ KindOf(ReceiveSecretary) = "SS_RECEIVE"
      /\ {Courier} \cup Secretaries \subseteq Tasks
  BY TasksAre DEF KindOf, Secretaries
<1>5. sent[sender[Server]].type \in {"none", KindOf(sender[Server])}
  BY <1>3, <1>4 DEF SerialInv, MessagesInv
<1> QED BY <1>1, <1>2, <1>3, <1>4, <1>5 DEF Secretaries

LEMMA HandlingOne ==
  ASSUME NEW t, NEW u, Handling(t), Handling(u)
  PROVE  t = u
BY DEF Handling

\* Steps that do nothing for the characters received.
LEMMA ReceiverKept ==
  ASSUME SerialInv, UNCHANGED <<receive_buffer, awaiting_receive, answer, arrived>>,
         uart'.rx = uart.rx, pc'[ReceiveSecretary] = pc[ReceiveSecretary],
         phase'[ReceiveSecretary] = phase[ReceiveSecretary],
         LeftWaiting(ReceiveSecretary)' <=> LeftWaiting(ReceiveSecretary)
  PROVE  OrderInv' /\ RepliesInv' /\ WaiterInv' /\ Reads
<1>1. OrderInv'
  BY DEF SerialInv, OrderInv, Item, RxFull
<1>2. RepliesInv' /\ WaiterInv'
  BY DEF SerialInv, RepliesInv, WaiterInv, Runs, IsCyclicBufferEmpty
<1>3. Reads
  BY DEF Reads
<1> QED BY <1>1, <1>2, <1>3

\* The first of consecutive characters is taken from a buffer.
LEMMA TakeFirst ==
  ASSUME NEW b \in BufferTypes, ~ IsCyclicBufferEmpty(b), NEW new, new = CyclicBufferPop(b),
         NEW w \in Nat, \A i \in 1 .. b.num_els : Item(b, i) = w + i
  PROVE  /\ First(b) = w + 1 /\ w + 1 + new.num_els = w + b.num_els /\ b.num_els >= 1
         /\ new \in BufferTypes /\ new.num_els # SIZE
         /\ \A i \in 1 .. new.num_els : Item(new, i) = w + 1 + i
<1> DEFINE n == b.num_els
           k == new.num_els
<1>1. /\ new \in BufferTypes /\ k = n - 1 /\ n >= 1
      /\ First(b) = Item(b, 1)
      /\ \A i \in 1 .. k : Item(new, i) = Item(b, i + 1)
  BY PopDoes
<1>2. n \in 0 .. SIZE /\ SIZE \in Nat
  BY CyclicBufferAssumption DEF BufferTypes
<1>3. \A i \in 1 .. n : Item(b, i) = w + i
  OBVIOUS
<1> HIDE DEF n, k
<1>4. First(b) = w + 1 /\ w + 1 + k = w + n /\ k # SIZE
  BY <1>1, <1>2, <1>3
<1>5. ASSUME NEW i \in 1 .. k PROVE Item(new, i) = w + 1 + i
  <2>1. i + 1 \in 1 .. n /\ w + (i + 1) = w + 1 + i
    BY <1>1, <1>2
  <2> QED BY <1>1, <1>3, <2>1
<1> QED BY <1>1, <1>4, <1>5 DEF n, k

\* The first character of the buffer goes to the transmitter.
LEMMA TransmitFirst ==
  ASSUME SerialInv, ~ IsCyclicBufferEmpty(transmit_buffer),
         uart' = [uart EXCEPT !.tx = First(transmit_buffer), !.txint = FALSE],
         written' = First(transmit_buffer),
         transmit_buffer' = CyclicBufferPop(transmit_buffer)
  PROVE  /\ pc'[Server] # "start transmitter" => TransmitterInv'
         /\ Accepted' = Accepted
         /\ written' \in 0 .. MaxPut /\ transmit_buffer' \in BufferTypes
         /\ uart' \in [rx : 0 .. MaxArrived, tx : 0 .. MaxPut, txint : BOOLEAN]
         /\ uart'.rx = uart.rx
<1>1. /\ transmit_buffer \in BufferTypes /\ transmit_buffer.num_els \in Nat
      /\ written \in Nat /\ Accepted \in Nat
  BY CountsAre DEF SerialInv
<1>2. \A i \in 1 .. transmit_buffer.num_els : Item(transmit_buffer, i) = written + i
  BY DEF SerialInv, TransmitterInv
<1>3. PICK new : new = transmit_buffer'
  OBVIOUS
<1>4. /\ First(transmit_buffer) = written + 1
      /\ written + 1 + new.num_els = written + transmit_buffer.num_els
      /\ transmit_buffer.num_els >= 1
      /\ new \in BufferTypes /\ new.num_els # SIZE
      /\ \A i \in 1 .. new.num_els : Item(new, i) = written + 1 + i
  BY <1>1, <1>2, <1>3, TakeFirst
<1>5. pc'[Server] # "start transmitter" => TransmitterInv'
  BY <1>3, <1>4 DEF TransmitterInv, IsCyclicBufferFull
<1>6. Accepted' = Accepted
  BY <1>3, <1>4 DEF Accepted
<1>7. written + 1 \in 0 .. MaxPut
  <2>1. put \in 0 .. MaxPut /\ MaxPut \in Nat /\ written + 1 <= Accepted
    <3>1. put \in 0 .. MaxPut /\ MaxPut \in Nat
      BY SerialAssumption, Zenon DEF SerialInv, SerialTypeOK
    <3>2. written + 1 <= Accepted
      <4>1. PICK w \in Nat, n \in Nat : w = written /\ n = transmit_buffer.num_els /\ n >= 1
        BY <1>1, <1>4
      <4>2. w + 1 <= w + n
        BY <4>1
      <4> QED BY <4>1, <4>2 DEF Accepted
    <3> QED BY <3>1, <3>2
  <2>2. put = Accepted + Carried + Len(inbox[TransmitSecretary])
    BY DEF SerialInv, PipelineInv
  <2>3. Carried \in Nat
    BY DEF Carried
  <2>4. Len(inbox[TransmitSecretary]) \in Nat
    BY TasksAre, InboxTyped DEF SerialInv
  <2>5. \A a, c, l \in Nat : put = a + c + l => a <= put
    OBVIOUS
  <2>6. Accepted <= put
    BY <1>1, <2>2, <2>3, <2>4, <2>5
  <2>7. \A a \in Nat : written + 1 <= a /\ a <= put => written + 1 \in 0 .. MaxPut
    BY <1>1, <2>1
  <2> QED BY <1>1, <2>1, <2>6, <2>7
<1>8. /\ uart' \in [rx : 0 .. MaxArrived, tx : 0 .. MaxPut, txint : BOOLEAN]
      /\ uart'.rx = uart.rx
  <2>1. uart \in [rx : 0 .. MaxArrived, tx : 0 .. MaxPut, txint : BOOLEAN]
    BY DEF SerialInv, SerialTypeOK
  <2>2. First(transmit_buffer) \in 0 .. MaxPut
    BY <1>4, <1>7
  <2> QED BY <2>1, <2>2
<1> QED BY <1>3, <1>4, <1>5, <1>6, <1>7, <1>8

LEMMA HandleNotifierKept == ASSUME SerialInv, HandleNotifier PROVE SerialInv' /\ Reads
<1>1. /\ Handles("SS_NOTIFIER") /\ Reply(Courier) /\ Goes(Server, "receive character")
      /\ "receive character" \in Places \ {"handle"}
      /\ UNCHANGED <<serverVars, answer, uart, put, arrived, written>>
  BY DEF HandleNotifier, Places, countVars
<1>2. phase[Server] = "running" /\ Handling(Courier)
  BY <1>1, HandledIs
<1>3. /\ TransmitSecretary \in Secretaries \ {Courier} /\ ReceiveSecretary \in Secretaries \ {Courier}
      /\ ~ Handling(TransmitSecretary) /\ ~ Handling(ReceiveSecretary)
  BY <1>2, HandlingOne, TasksAre DEF Secretaries
<1>4. Accepted' = Accepted /\ put' = put /\ put \in 0 .. MaxPut
  BY <1>1 DEF Accepted, serverVars, SerialInv, SerialTypeOK
<1>5. /\ IpcInv' /\ MailInv' /\ MessagesInv' /\ PhasesInv'
      /\ pc' \in [Staff -> Places] /\ pc'[Server] = "receive character"
      /\ \A t : ~ Handling(t)'
      /\ \A t \in Secretaries \ {Courier} : phase'[t] = phase[t]
      /\ \A t \in Secretaries : pc'[t] = pc[t]
      /\ PipelineInv'
  BY <1>1, <1>2, <1>3, <1>4, ServerGoes
<1>6. /\ LeftWaiting(TransmitSecretary)' <=> LeftWaiting(TransmitSecretary)
      /\ LeftWaiting(ReceiveSecretary)' <=> LeftWaiting(ReceiveSecretary)
      /\ pc'[ReceiveSecretary] = pc[ReceiveSecretary]
      /\ phase'[ReceiveSecretary] = phase[ReceiveSecretary]
  BY <1>3, <1>5 DEF LeftWaiting
<1> QED BY <1>1, <1>4, <1>5, <1>6, OnlyTalk

LEMMA TransmitNextKept == ASSUME SerialInv, TransmitNext PROVE SerialInv' /\ Reads
<1>1. /\ phase[Server] = "running" /\ pc[Server] = "transmit character"
      /\ Goes(Server, "receive") /\ "receive" \in Places \ {"handle"}
      /\ UNCHANGED <<receive_buffer, awaiting_receive, answer, put, arrived>>
      /\ awaiting_transmit' \in BOOLEAN
      /\ \/ /\ UNCHANGED <<ipcVars, transmit_buffer, written>>
            /\ uart' = uart \/ uart' = [uart EXCEPT !.txint = FALSE]
         \/ /\ ~ IsCyclicBufferEmpty(transmit_buffer)
            /\ Transmit(First(transmit_buffer))
            /\ transmit_buffer' = CyclicBufferPop(transmit_buffer)
            /\ \/ IsCyclicBufferFull(transmit_buffer) /\ Reply(TransmitSecretary)
               \/ UNCHANGED ipcVars
  BY AtIs DEF TransmitNext, Places, countVars, SerialInv, SerialTypeOK
<1>2. /\ \A t : ~ Handling(t)
      /\ TransmitSecretary \in {Courier} \cup Secretaries
      /\ TransmitSecretary \in Secretaries
      /\ ReceiveSecretary \in Secretaries \ {TransmitSecretary}
      /\ Reply(TransmitSecretary) \/ UNCHANGED ipcVars
  BY <1>1, TasksAre DEF Handling, Secretaries
<1>3. /\ IpcInv' /\ MailInv' /\ MessagesInv' /\ PhasesInv'
      /\ pc' \in [Staff -> Places] /\ pc'[Server] = "receive"
      /\ \A t : ~ Handling(t)'
      /\ \A t \in Secretaries \ {TransmitSecretary} : phase'[t] = phase[t]
      /\ \A t \in Secretaries : pc'[t] = pc[t]
      /\ UNCHANGED ipcVars => phase' = phase
      /\ Accepted' = Accepted => PipelineInv'
  BY <1>1, <1>2, ServerGoes
<1>4. OrderInv' /\ RepliesInv' /\ WaiterInv' /\ Reads
  <2>1. uart'.rx = uart.rx
    <3>1. uart = [rx |-> uart.rx, tx |-> uart.tx, txint |-> uart.txint]
      BY DEF SerialInv, SerialTypeOK
    <3> QED BY <1>1, <3>1 DEF Transmit
  <2>2. LeftWaiting(ReceiveSecretary)' <=> LeftWaiting(ReceiveSecretary)
    BY <1>2, <1>3 DEF LeftWaiting
  <2> QED BY <1>1, <1>2, <1>3, <2>1, <2>2, ReceiverKept
<1>5. /\ answer' \in [Getters \cup {ReceiveSecretary} -> 0 .. MaxArrived]
      /\ receive_buffer' \in BufferTypes /\ awaiting_receive' \in BOOLEAN
      /\ put' \in 0 .. MaxPut /\ arrived' \in 0 .. MaxArrived
      /\ uart \in [rx : 0 .. MaxArrived, tx : 0 .. MaxPut, txint : BOOLEAN]
  BY <1>1 DEF SerialInv, SerialTypeOK
<1>6. CASE /\ UNCHANGED <<ipcVars, transmit_buffer, written>>
           /\ uart' = uart \/ uart' = [uart EXCEPT !.txint = FALSE]
  <2>1. Accepted' = Accepted
    BY <1>6 DEF Accepted
  <2>2. LeftWaiting(TransmitSecretary) => LeftWaiting(TransmitSecretary)'
    BY <1>3, <1>6 DEF LeftWaiting
  <2>3. TransmitterInv'
    BY <1>3, <1>6, <2>2, TransmitterKept DEF SerialInv
  <2>4. uart' \in [rx : 0 .. MaxArrived, tx : 0 .. MaxPut, txint : BOOLEAN]
    BY <1>5, <1>6
  <2>5. transmit_buffer' \in BufferTypes /\ written' \in 0 .. MaxPut
    BY <1>6 DEF SerialInv, SerialTypeOK
  <2>6. SerialTypeOK'
    BY <1>1, <1>3, <1>5, <2>4, <2>5 DEF SerialTypeOK, Places
  <2> QED BY <1>3, <1>4, <2>1, <2>3, <2>6 DEF SerialInv
<1>7. CASE /\ ~ IsCyclicBufferEmpty(transmit_buffer)
           /\ Transmit(First(transmit_buffer))
           /\ transmit_buffer' = CyclicBufferPop(transmit_buffer)
  <2>1. /\ TransmitterInv' /\ Accepted' = Accepted
        /\ written' \in 0 .. MaxPut /\ transmit_buffer' \in BufferTypes
        /\ uart' \in [rx : 0 .. MaxArrived, tx : 0 .. MaxPut, txint : BOOLEAN]
    BY <1>1, <1>3, <1>7, TransmitFirst DEF Transmit
  <2>2. SerialTypeOK'
    BY <1>1, <1>3, <1>5, <2>1 DEF SerialTypeOK, Places
  <2> QED BY <1>3, <1>4, <2>1, <2>2 DEF SerialInv
<1> QED BY <1>1, <1>6, <1>7

LEMMA StartTransmitterKept == ASSUME SerialInv, StartTransmitter PROVE SerialInv' /\ Reads
<1>1. /\ phase[Server] = "running" /\ pc[Server] = "start transmitter"
      /\ Goes(Server, "receive") /\ "receive" \in Places \ {"handle"}
      /\ UNCHANGED <<ipcVars, receive_buffer, awaiting_receive, answer, put, arrived>>
      /\ awaiting_transmit' = TRUE
      /\ \/ UNCHANGED <<transmit_buffer, uart, written>>
         \/ /\ Transmit(First(transmit_buffer))
            /\ transmit_buffer' = CyclicBufferPop(transmit_buffer)
  BY AtIs DEF StartTransmitter, Places, countVars
<1>2. /\ \A t : ~ Handling(t)
      /\ TransmitSecretary \in {Courier} \cup Secretaries
      /\ TransmitSecretary \in Secretaries /\ ReceiveSecretary \in Secretaries
  BY <1>1, TasksAre DEF Handling, Secretaries
<1>3. /\ IpcInv' /\ MailInv' /\ MessagesInv' /\ PhasesInv'
      /\ pc' \in [Staff -> Places] /\ pc'[Server] = "receive"
      /\ \A t : ~ Handling(t)'
      /\ \A t \in Secretaries : pc'[t] = pc[t]
      /\ phase' = phase
      /\ Accepted' = Accepted => PipelineInv'
  BY <1>1, <1>2, ServerGoes
<1>4. /\ LeftWaiting(ReceiveSecretary)' <=> LeftWaiting(ReceiveSecretary)
      /\ LeftWaiting(TransmitSecretary)' <=> LeftWaiting(TransmitSecretary)
  BY <1>2, <1>3 DEF LeftWaiting
<1>5. OrderInv' /\ RepliesInv' /\ WaiterInv' /\ Reads
  <2>1. uart'.rx = uart.rx
    <3>1. uart = [rx |-> uart.rx, tx |-> uart.tx, txint |-> uart.txint]
      BY DEF SerialInv, SerialTypeOK
    <3> QED BY <1>1, <3>1 DEF Transmit
  <2> QED BY <1>1, <1>2, <1>3, <1>4, <2>1, ReceiverKept
<1>6. /\ answer' \in [Getters \cup {ReceiveSecretary} -> 0 .. MaxArrived]
      /\ receive_buffer' \in BufferTypes /\ awaiting_receive' \in BOOLEAN
      /\ put' \in 0 .. MaxPut /\ arrived' \in 0 .. MaxArrived
  BY <1>1 DEF SerialInv, SerialTypeOK
<1>7. CASE UNCHANGED <<transmit_buffer, uart, written>>
  <2>1. Accepted' = Accepted
    BY <1>7 DEF Accepted
  <2>2. TransmitterInv'
    BY <1>3, <1>4, <1>7, TransmitterKept DEF SerialInv
  <2>3. SerialTypeOK'
    <3>1. /\ transmit_buffer' \in BufferTypes /\ written' \in 0 .. MaxPut
          /\ uart' \in [rx : 0 .. MaxArrived, tx : 0 .. MaxPut, txint : BOOLEAN]
      BY <1>7 DEF SerialInv, SerialTypeOK
    <3> QED BY <1>1, <1>3, <1>6, <3>1 DEF SerialTypeOK, Places
  <2> QED BY <1>3, <1>5, <2>1, <2>2, <2>3 DEF SerialInv
<1>8. CASE /\ Transmit(First(transmit_buffer))
           /\ transmit_buffer' = CyclicBufferPop(transmit_buffer)
  <2>1. ~ IsCyclicBufferEmpty(transmit_buffer)
    BY <1>1 DEF SerialInv, TransmitterInv
  <2>2. /\ TransmitterInv' /\ Accepted' = Accepted
        /\ written' \in 0 .. MaxPut /\ transmit_buffer' \in BufferTypes
        /\ uart' \in [rx : 0 .. MaxArrived, tx : 0 .. MaxPut, txint : BOOLEAN]
    BY <1>1, <1>3, <1>8, <2>1, TransmitFirst DEF Transmit
  <2>3. SerialTypeOK'
    BY <1>1, <1>3, <1>6, <2>2 DEF SerialTypeOK, Places
  <2> QED BY <1>3, <1>5, <2>2, <2>3 DEF SerialInv
<1> QED BY <1>1, <1>7, <1>8

\* What is appended to, or taken from, an increasing buffer.
LEMMA PushInOrder ==
  ASSUME NEW b \in BufferTypes, ~ IsCyclicBufferFull(b), NEW x \in Int,
         NEW new, new = CyclicBufferPush(b, x), NEW low \in Int, NEW top \in Int,
         \A i \in 1 .. b.num_els :
           /\ low < Item(b, i) /\ Item(b, i) <= top /\ Item(b, i) < x
           /\ \A j \in 1 .. i - 1 : Item(b, j) < Item(b, i),
         low < x, x <= top
  PROVE  /\ new \in BufferTypes
         /\ \A i \in 1 .. new.num_els :
              /\ low < Item(new, i) /\ Item(new, i) <= top
              /\ \A j \in 1 .. i - 1 : Item(new, j) < Item(new, i)
         /\ x \in {Contents(new)[i] : i \in 1 .. new.num_els}
<1> DEFINE n == b.num_els
           k == new.num_els
<1>1. /\ new \in BufferTypes /\ k = n + 1
      /\ \A i \in 1 .. n : Item(new, i) = Item(b, i)
      /\ Item(new, k) = x
  BY PushDoes
<1>2. n \in Nat /\ k \in Nat
  <2>1. \A m \in 0 .. SIZE : m \in Nat
    BY CyclicBufferAssumption
  <2> QED BY <1>1, <2>1 DEF BufferTypes
<1>3. \A i \in 1 .. n :
        /\ low < Item(b, i) /\ Item(b, i) <= top /\ Item(b, i) < x
        /\ \A j \in 1 .. i - 1 : Item(b, j) < Item(b, i)
  OBVIOUS
<1>4. x \in {Contents(new)[i] : i \in 1 .. new.num_els}
  <2>1. k \in 1 .. k
    BY <1>1, <1>2
  <2>2. Contents(new)[k] = Item(new, k)
    BY <1>1, <2>1, ItemTyped
  <2> QED BY <1>1, <2>1, <2>2
<1> HIDE DEF n, k
<1>5. ASSUME NEW i \in 1 .. k
      PROVE  /\ low < Item(new, i) /\ Item(new, i) <= top
             /\ \A j \in 1 .. i - 1 : Item(new, j) < Item(new, i)
  <2>1. CASE i = k
    <3>1. \A j \in 1 .. i - 1 : j \in 1 .. n
      BY <1>1, <1>2, <2>1
    <3> QED BY <1>1, <1>3, <2>1, <3>1
  <2>2. CASE i # k
    <3>1. i \in 1 .. n /\ \A j \in 1 .. i - 1 : j \in 1 .. n
      BY <1>1, <1>2, <2>2
    <3> QED BY <1>1, <1>3, <3>1
  <2> QED BY <2>1, <2>2
<1> QED BY <1>1, <1>4, <1>5 DEF k

LEMMA PopInOrder ==
  ASSUME NEW b \in BufferTypes, ~ IsCyclicBufferEmpty(b),
         NEW new, new = CyclicBufferPop(b), NEW low \in Int, NEW top \in Int,
         \A i \in 1 .. b.num_els :
           /\ low < Item(b, i) /\ Item(b, i) <= top
           /\ \A j \in 1 .. i - 1 : Item(b, j) < Item(b, i)
  PROVE  /\ new \in BufferTypes /\ 1 \in 1 .. b.num_els
         /\ First(b) = Item(b, 1) /\ low < First(b) /\ First(b) <= top
         /\ \A i \in 1 .. new.num_els :
              /\ First(b) < Item(new, i) /\ Item(new, i) <= top
              /\ \A j \in 1 .. i - 1 : Item(new, j) < Item(new, i)
<1> DEFINE n == b.num_els
           k == new.num_els
<1>1. /\ new \in BufferTypes /\ k = n - 1 /\ n >= 1
      /\ First(b) = Item(b, 1)
      /\ \A i \in 1 .. k : Item(new, i) = Item(b, i + 1)
  BY PopDoes
<1>2. n \in Nat /\ k \in Nat
  <2>1. \A m \in 0 .. SIZE : m \in Nat
    BY CyclicBufferAssumption
  <2> QED BY <1>1, <2>1 DEF BufferTypes
<1>3. \A i \in 1 .. n :
        /\ low < Item(b, i) /\ Item(b, i) <= top
        /\ \A j \in 1 .. i - 1 : Item(b, j) < Item(b, i)
  OBVIOUS
<1> HIDE DEF n, k
<1>4. 1 \in 1 .. n
  BY <1>1, <1>2
<1>5. ASSUME NEW i \in 1 .. k
      PROVE  /\ First(b) < Item(new, i) /\ Item(new, i) <= top
             /\ \A j \in 1 .. i - 1 : Item(new, j) < Item(new, i)
  <2>1. i + 1 \in 1 .. n /\ 1 \in 1 .. (i + 1) - 1
    BY <1>1, <1>2
  <2>2. First(b) < Item(new, i) /\ Item(new, i) <= top
    BY <1>1, <1>3, <2>1
  <2>3. ASSUME NEW j \in 1 .. i - 1 PROVE Item(new, j) < Item(new, i)
    <3>1. j \in 1 .. k /\ j + 1 \in 1 .. (i + 1) - 1
      BY <1>1, <1>2
    <3> QED BY <1>1, <1>3, <2>1, <3>1
  <2> QED BY <1>1, <2>1, <2>2, <2>3
<1> QED BY <1>1, <1>3, <1>4, <1>5 DEF n, k

LEMMA TakeCharacterKept == ASSUME SerialInv, TakeCharacter PROVE SerialInv' /\ Reads
<1> DEFINE RS == ReceiveSecretary
<1>1. /\ phase[Server] = "running" /\ pc[Server] = "receive character"
      /\ Goes(Server, "transmit character") /\ "transmit character" \in Places \ {"handle"}
      /\ uart' = [uart EXCEPT !.rx = Nothing]
      /\ UNCHANGED <<transmit_buffer, awaiting_transmit, put, arrived, written>>
      /\ \/ /\ RxFull /\ awaiting_receive /\ awaiting_receive' = FALSE
            /\ Reply(RS) /\ answer' = [answer EXCEPT ![RS] = uart.rx]
            /\ receive_buffer' = receive_buffer
         \/ /\ ~ (RxFull /\ awaiting_receive)
            /\ receive_buffer' = IF RxFull THEN CyclicBufferPush(receive_buffer, uart.rx)
                                 ELSE receive_buffer
            /\ UNCHANGED <<ipcVars, awaiting_receive, answer>>
  BY AtIs DEF TakeCharacter, Places, countVars
<1>2. /\ \A t : ~ Handling(t)
      /\ RS \in {Courier} \cup Secretaries /\ RS \in Secretaries
      /\ TransmitSecretary \in Secretaries \ {RS}
      /\ Reply(RS) \/ UNCHANGED ipcVars
      /\ Accepted' = Accepted
  BY <1>1, TasksAre DEF Handling, Secretaries, Accepted
<1>3. /\ IpcInv' /\ MailInv' /\ MessagesInv' /\ PhasesInv' /\ PipelineInv'
      /\ pc' \in [Staff -> Places] /\ pc'[Server] = "transmit character"
      /\ \A t : ~ Handling(t)'
      /\ \A t \in Secretaries \ {RS} : phase'[t] = phase[t]
      /\ \A t \in Secretaries : pc'[t] = pc[t]
      /\ Reply(RS) /\ phase[RS] = "awaiting reply" => phase'[RS] = "running"
      /\ UNCHANGED ipcVars => phase' = phase
  BY <1>1, <1>2, ServerGoes
<1>4. TransmitterInv'
  <2>1. LeftWaiting(TransmitSecretary) => LeftWaiting(TransmitSecretary)'
    BY <1>2, <1>3 DEF LeftWaiting
  <2> QED BY <1>1, <1>3, <2>1, TransmitterKept DEF SerialInv
<1>5. /\ uart \in [rx : 0 .. MaxArrived, tx : 0 .. MaxPut, txint : BOOLEAN]
      /\ answer \in [Getters \cup {RS} -> 0 .. MaxArrived]
      /\ receive_buffer \in BufferTypes /\ awaiting_receive \in BOOLEAN
      /\ transmit_buffer' \in BufferTypes /\ awaiting_transmit' \in BOOLEAN
      /\ put' \in 0 .. MaxPut /\ arrived' \in 0 .. MaxArrived /\ written' \in 0 .. MaxPut
  BY <1>1, Zenon DEF SerialInv, SerialTypeOK
<1>6. /\ uart' \in [rx : 0 .. MaxArrived, tx : 0 .. MaxPut, txint : BOOLEAN]
      /\ uart'.rx = 0 /\ ~ RxFull' /\ uart.rx \in 0 .. MaxArrived
  <2>1. 0 \in 0 .. MaxArrived
    BY SerialAssumption
  <2> QED BY <1>1, <1>5, <2>1 DEF Nothing, RxFull
<1>7. ASSUME receive_buffer' \in BufferTypes, awaiting_receive' \in BOOLEAN,
             answer' \in [Getters \cup {RS} -> 0 .. MaxArrived]
      PROVE  SerialTypeOK'
  BY <1>3, <1>5, <1>6, <1>7, Zenon DEF SerialTypeOK, Places
<1>8. /\ uart.rx \in Nat /\ arrived \in Nat /\ answer[RS] \in Nat
      /\ \A c \in Getters : answer[c] \in Nat
  BY CountsAre DEF SerialInv
<1>9. /\ RxFull => answer[RS] < uart.rx /\ uart.rx <= arrived
      /\ \A c \in Getters : answer[c] <= answer[RS]
      /\ RS \notin Getters
  BY TasksAre DEF SerialInv, OrderInv
<1>10. CASE /\ RxFull /\ awaiting_receive /\ awaiting_receive' = FALSE
            /\ Reply(RS) /\ answer' = [answer EXCEPT ![RS] = uart.rx]
            /\ receive_buffer' = receive_buffer
  <2>1. phase[RS] = "awaiting reply" /\ phase'[RS] = "running" /\ receive_buffer.num_els = 0
    BY <1>3, <1>10 DEF SerialInv, WaiterInv, LeftWaiting, IsCyclicBufferEmpty
  <2>2. /\ answer'[RS] = uart.rx /\ \A c \in Getters : answer'[c] = answer[c]
        /\ answer' \in [Getters \cup {RS} -> 0 .. MaxArrived]
    BY <1>5, <1>6, <1>9, <1>10
  <2>3. \A c \in Getters : answer'[c] < answer'[RS] /\ answer'[c] <= answer'[RS]
    BY <1>8, <1>9, <1>10, <2>2
  <2>4. OrderInv'
    <3>1. receive_buffer'.num_els = 0 /\ answer'[RS] <= arrived'
      BY <1>1, <1>9, <1>10, <2>1, <2>2
    <3> QED BY <1>6, <2>3, <3>1 DEF OrderInv
  <2>5. RepliesInv' /\ WaiterInv'
    BY <1>10, <2>1, <2>3 DEF RepliesInv, WaiterInv, LeftWaiting
  <2>6. Reads
    BY <2>1, <2>2 DEF Reads, Blocked
  <2>7. SerialTypeOK'
    BY <1>5, <1>7, <1>10, <2>2
  <2> QED BY <1>3, <1>4, <2>4, <2>5, <2>6, <2>7 DEF SerialInv
<1>11. CASE UNCHANGED <<ipcVars, awaiting_receive, answer>>
  <2>1. phase' = phase /\ pc'[RS] = pc[RS] /\ (LeftWaiting(RS)' <=> LeftWaiting(RS))
    BY <1>2, <1>3, <1>11 DEF LeftWaiting
  <2>2. RepliesInv'
    BY <1>11, <2>1 DEF SerialInv, RepliesInv, Runs
  <2>3. answer'[RS] <= arrived' /\ \A c \in Getters : answer'[c] <= answer'[RS]
    BY <1>1, <1>11 DEF SerialInv, OrderInv
  <2>4. CASE receive_buffer' = receive_buffer /\ (RxFull => IsCyclicBufferFull(receive_buffer))
    <3>1. OrderInv'
      <4>1. \A i \in 1 .. receive_buffer.num_els :
              /\ answer[RS] < Item(receive_buffer, i) /\ Item(receive_buffer, i) <= arrived
              /\ \A j \in 1 .. i - 1 : Item(receive_buffer, j) < Item(receive_buffer, i)
        BY DEF SerialInv, OrderInv
      <4> QED BY <1>1, <1>6, <1>11, <2>3, <2>4, <4>1 DEF OrderInv
    <3>2. WaiterInv'
      BY <1>11, <2>1, <2>4 DEF SerialInv, WaiterInv, IsCyclicBufferEmpty
    <3>3. Reads
      BY <1>11, <2>4 DEF Reads
    <3>4. SerialTypeOK'
      BY <1>5, <1>7, <1>11, <2>4
    <3> QED BY <1>3, <1>4, <2>2, <3>1, <3>2, <3>3, <3>4 DEF SerialInv
  <2>5. CASE /\ RxFull /\ ~ awaiting_receive /\ ~ IsCyclicBufferFull(receive_buffer)
             /\ receive_buffer' = CyclicBufferPush(receive_buffer, uart.rx)
    <3>1. PICK new, low, top, x :
            /\ new = receive_buffer' /\ low = answer[RS] /\ top = arrived /\ x = uart.rx
      OBVIOUS
    <3>2. /\ low \in Int /\ top \in Int /\ x \in Int /\ low < x /\ x <= top
          /\ new = CyclicBufferPush(receive_buffer, x)
      BY <1>8, <1>9, <2>5, <3>1
    <3>3. \A i \in 1 .. receive_buffer.num_els :
            /\ low < Item(receive_buffer, i) /\ Item(receive_buffer, i) <= top
            /\ Item(receive_buffer, i) < x
            /\ \A j \in 1 .. i - 1 : Item(receive_buffer, j) < Item(receive_buffer, i)
      BY <2>5, <3>1 DEF SerialInv, OrderInv
    <3>4. /\ new \in BufferTypes
          /\ \A i \in 1 .. new.num_els :
               /\ low < Item(new, i) /\ Item(new, i) <= top
               /\ \A j \in 1 .. i - 1 : Item(new, j) < Item(new, i)
          /\ x \in {Contents(new)[i] : i \in 1 .. new.num_els}
      <4>1. PICK b \in BufferTypes : b = receive_buffer
        BY <1>5
      <4>2. ~ IsCyclicBufferFull(b) /\ new = CyclicBufferPush(b, x)
        BY <2>5, <3>2, <4>1
      <4>3. \A i \in 1 .. b.num_els :
              /\ low < Item(b, i) /\ Item(b, i) <= top /\ Item(b, i) < x
              /\ \A j \in 1 .. i - 1 : Item(b, j) < Item(b, i)
        BY <3>3, <4>1
      <4> QED BY <3>2, <4>1, <4>2, <4>3, PushInOrder
    <3>5. OrderInv'
      BY <1>1, <1>6, <1>11, <2>3, <3>1, <3>4 DEF OrderInv
    <3>6. WaiterInv'
      BY <1>11, <2>1, <2>5 DEF SerialInv, WaiterInv
    <3>7. Reads
      BY <1>11, <3>1, <3>4 DEF Reads
    <3>8. SerialTypeOK'
      BY <1>5, <1>7, <1>11, <3>1, <3>4
    <3> QED BY <1>3, <1>4, <2>2, <3>5, <3>6, <3>7, <3>8 DEF SerialInv
  <2>6. IsCyclicBufferFull(receive_buffer) =>
          CyclicBufferPush(receive_buffer, uart.rx) = receive_buffer
    BY DEF CyclicBufferPush
  <2> QED BY <1>1, <1>11, <2>4, <2>5, <2>6
<1> QED BY <1>1, <1>10, <1>11

LEMMA HandleReceiveKept == ASSUME SerialInv, HandleReceive PROVE SerialInv' /\ Reads
<1> DEFINE RS == ReceiveSecretary
<1>1. /\ Handles("SS_RECEIVE") /\ Goes(Server, "receive") /\ "receive" \in Places \ {"handle"}
      /\ UNCHANGED <<transmit_buffer, awaiting_transmit, uart, put, arrived, written>>
      /\ \/ /\ IsCyclicBufferEmpty(receive_buffer) /\ awaiting_receive' = TRUE
            /\ UNCHANGED <<ipcVars, receive_buffer, answer>>
         \/ /\ ~ IsCyclicBufferEmpty(receive_buffer)
            /\ receive_buffer' = CyclicBufferPop(receive_buffer)
            /\ answer' = [answer EXCEPT ![RS] = First(receive_buffer)]
            /\ Reply(RS) /\ awaiting_receive' = awaiting_receive
  BY DEF HandleReceive, Places, countVars
<1>2. phase[Server] = "running" /\ Handling(RS)
  BY <1>1, HandledIs
<1>3. /\ RS \in {Courier} \cup Secretaries /\ RS \in Secretaries
      /\ TransmitSecretary \in Secretaries \ {RS} /\ ~ Handling(TransmitSecretary)
      /\ Reply(RS) \/ UNCHANGED ipcVars
      /\ Accepted' = Accepted
  BY <1>1, <1>2, HandlingOne, TasksAre DEF Secretaries, Accepted
<1>4. /\ IpcInv' /\ MailInv' /\ MessagesInv' /\ PhasesInv' /\ PipelineInv'
      /\ pc' \in [Staff -> Places] /\ pc'[Server] = "receive"
      /\ \A t : ~ Handling(t)'
      /\ \A t \in Secretaries \ {RS} : phase'[t] = phase[t]
      /\ \A t \in Secretaries : pc'[t] = pc[t]
      /\ Reply(RS) /\ phase[RS] = "awaiting reply" => phase'[RS] = "running"
      /\ UNCHANGED ipcVars => phase' = phase
  BY <1>1, <1>2, <1>3, ServerGoes
<1>5. phase[RS] = "awaiting reply" /\ ~ awaiting_receive
  BY <1>2, <1>3 DEF SerialInv, PhasesInv, ServerOK, WaiterInv, LeftWaiting
<1>6. TransmitterInv'
  <2>1. LeftWaiting(TransmitSecretary) => LeftWaiting(TransmitSecretary)'
    BY <1>3, <1>4 DEF LeftWaiting
  <2> QED BY <1>1, <1>4, <2>1, TransmitterKept DEF SerialInv
<1>7. /\ answer \in [Getters \cup {RS} -> 0 .. MaxArrived]
      /\ receive_buffer \in BufferTypes /\ awaiting_receive \in BOOLEAN
      /\ transmit_buffer' \in BufferTypes /\ awaiting_transmit' \in BOOLEAN
      /\ uart' \in [rx : 0 .. MaxArrived, tx : 0 .. MaxPut, txint : BOOLEAN]
      /\ put' \in 0 .. MaxPut /\ arrived' \in 0 .. MaxArrived /\ written' \in 0 .. MaxPut
  BY <1>1, Zenon DEF SerialInv, SerialTypeOK
<1>8. ASSUME receive_buffer' \in BufferTypes, awaiting_receive' \in BOOLEAN,
             answer' \in [Getters \cup {RS} -> 0 .. MaxArrived]
      PROVE  SerialTypeOK'
  BY <1>4, <1>7, <1>8, Zenon DEF SerialTypeOK, Places
<1>9. CASE /\ IsCyclicBufferEmpty(receive_buffer) /\ awaiting_receive' = TRUE
           /\ UNCHANGED <<ipcVars, receive_buffer, answer>>
  <2>1. LeftWaiting(RS)' /\ ~ Runs(RS)'
    BY <1>4, <1>5, <1>9 DEF LeftWaiting, Runs
  <2>2. WaiterInv' /\ RepliesInv'
    BY <1>9, <2>1 DEF WaiterInv, RepliesInv, IsCyclicBufferEmpty
  <2>3. OrderInv'
    BY <1>1, <1>9 DEF SerialInv, OrderInv, Item, RxFull
  <2>4. Reads
    BY <1>1, <1>9 DEF Reads
  <2>5. SerialTypeOK'
    BY <1>7, <1>8, <1>9
  <2> QED BY <1>4, <1>6, <2>2, <2>3, <2>4, <2>5 DEF SerialInv
<1>10. CASE /\ ~ IsCyclicBufferEmpty(receive_buffer)
            /\ receive_buffer' = CyclicBufferPop(receive_buffer)
            /\ answer' = [answer EXCEPT ![RS] = First(receive_buffer)]
            /\ Reply(RS) /\ awaiting_receive' = awaiting_receive
  <2>1. PICK b, new, low, top, first :
          /\ b \in BufferTypes
          /\ b = receive_buffer /\ new = receive_buffer' /\ low = answer[RS] /\ top = arrived
          /\ first = First(b)
    BY <1>7
  <2>2. /\ low \in Nat /\ top \in Nat /\ \A c \in Getters : answer[c] \in Nat
    BY <2>1, CountsAre DEF SerialInv
  <2>3. /\ \A i \in 1 .. b.num_els :
             /\ low < Item(b, i) /\ Item(b, i) <= top
             /\ \A j \in 1 .. i - 1 : Item(b, j) < Item(b, i)
        /\ RxFull => uart.rx <= top /\ \A i \in 1 .. b.num_els : Item(b, i) < uart.rx
    BY <2>1 DEF SerialInv, OrderInv
  <2>4. ~ IsCyclicBufferEmpty(b) /\ new = CyclicBufferPop(b) /\ low \in Int /\ top \in Int
    BY <1>10, <2>1, <2>2
  <2>5. /\ new \in BufferTypes /\ 1 \in 1 .. b.num_els
        /\ First(b) = Item(b, 1) /\ low < First(b) /\ First(b) <= top
        /\ \A i \in 1 .. new.num_els :
             /\ First(b) < Item(new, i) /\ Item(new, i) <= top
             /\ \A j \in 1 .. i - 1 : Item(new, j) < Item(new, i)
             /\ i + 1 \in 1 .. b.num_els /\ Item(new, i) = Item(b, i + 1)
    <3>1. \A i \in 1 .. b.num_els :
            /\ low < Item(b, i) /\ Item(b, i) <= top
            /\ \A j \in 1 .. i - 1 : Item(b, j) < Item(b, i)
      BY <2>3
    <3>2. b \in BufferTypes
      BY <2>1
    <3>3. /\ new \in BufferTypes /\ 1 \in 1 .. b.num_els
          /\ First(b) = Item(b, 1) /\ low < First(b) /\ First(b) <= top
      BY <2>4, <3>1, <3>2, PopInOrder
    <3>4. ASSUME NEW i \in 1 .. new.num_els
          PROVE  /\ First(b) < Item(new, i) /\ Item(new, i) <= top
                 /\ \A j \in 1 .. i - 1 : Item(new, j) < Item(new, i)
      BY <2>4, <3>1, <3>2, PopInOrder
    <3>5. ASSUME NEW i \in 1 .. new.num_els
          PROVE  i + 1 \in 1 .. b.num_els /\ Item(new, i) = Item(b, i + 1)
      <4>1. /\ new.num_els = b.num_els - 1 /\ Item(new, i) = Item(b, i + 1)
        BY <2>4, <3>2, PopDoes
      <4>2. PICK n \in Nat : n = b.num_els
        <5>1. b.num_els \in Nat
          BY <2>1, CountsAre DEF SerialInv
        <5> QED BY <5>1
      <4>3. i \in 1 .. n - 1
        BY <4>1, <4>2
      <4>4. i + 1 \in 1 .. n
        BY <4>2, <4>3
      <4> QED BY <4>1, <4>2, <4>4
    <3> QED BY <3>3, <3>4, <3>5
  <2>6. first \in Int
    BY <2>1, <2>5, ItemTyped
  <2>7. first \in 0 .. MaxArrived
    <3>1. top \in 0 .. MaxArrived /\ MaxArrived \in Nat
      BY <2>1, SerialAssumption DEF SerialInv, SerialTypeOK
    <3> QED BY <2>1, <2>2, <2>5, <2>6, <3>1
  <2>8. /\ answer'[RS] = first /\ \A c \in Getters : answer'[c] = answer[c]
        /\ answer' \in [Getters \cup {RS} -> 0 .. MaxArrived]
    BY <1>7, <1>10, <2>1, <2>7, TasksAre
  <2>9. \A c \in Getters : answer'[c] < answer'[RS] /\ answer'[c] <= answer'[RS]
    <3>1. \A c \in Getters : answer[c] <= low
      BY <2>1 DEF SerialInv, OrderInv
    <3> QED BY <2>1, <2>2, <2>5, <2>6, <2>8, <3>1
  <2>10. OrderInv'
    <3>1. \A i \in 1 .. new.num_els :
            /\ first < Item(new, i) /\ Item(new, i) <= top
            /\ RxFull => Item(new, i) < uart.rx
            /\ \A j \in 1 .. i - 1 : Item(new, j) < Item(new, i)
      BY <2>1, <2>3, <2>5
    <3>2. RxFull => first < uart.rx /\ uart.rx <= top
      BY <2>1, <2>3, <2>5
    <3>3. first <= top
      BY <2>1, <2>5
    <3> QED BY <1>1, <2>1, <2>8, <2>9, <3>1, <3>2, <3>3 DEF OrderInv, RxFull
  <2>11. WaiterInv' /\ RepliesInv'
    BY <1>4, <1>5, <1>10, <2>9 DEF WaiterInv, RepliesInv, LeftWaiting
  <2>12. Reads
    BY <1>1, <2>8 DEF Reads
  <2>13. SerialTypeOK'
    BY <1>7, <1>8, <1>10, <2>1, <2>5, <2>8
  <2> QED BY <1>4, <1>6, <2>10, <2>11, <2>12, <2>13 DEF SerialInv
<1> QED BY <1>1, <1>9, <1>10

LEMMA HandleTransmitKept == ASSUME SerialInv, HandleTransmit PROVE SerialInv' /\ Reads
<1> DEFINE TS == TransmitSecretary
           RS == ReceiveSecretary
<1>1. /\ Handles("SS_TRANSMIT") /\ Goes(Server, "start transmitter")
      /\ "start transmitter" \in Places \ {"handle"}
      /\ UNCHANGED <<receive_buffer, awaiting_receive, answer, arrived>>
      /\ UNCHANGED <<awaiting_transmit, uart, put, written>>
      /\ transmit_buffer' = CyclicBufferPush(transmit_buffer, sent[sender[Server]].data)
      /\ \/ IsCyclicBufferFull(transmit_buffer') /\ UNCHANGED ipcVars
         \/ ~ IsCyclicBufferFull(transmit_buffer') /\ Reply(TS)
  BY DEF HandleTransmit, Places, countVars, Received
<1>2. phase[Server] = "running" /\ Handling(TS) /\ sender[Server] = TS
  BY <1>1, HandledIs
<1>3. /\ TS \in {Courier} \cup Secretaries /\ TS \in Secretaries /\ TS \in Tasks
      /\ RS \in Secretaries \ {TS} /\ ~ Handling(RS)
      /\ Reply(TS) \/ UNCHANGED ipcVars
  BY <1>1, <1>2, HandlingOne, TasksAre DEF Secretaries
<1>4. /\ IpcInv' /\ MailInv' /\ MessagesInv' /\ PhasesInv'
      /\ pc' \in [Staff -> Places] /\ pc'[Server] = "start transmitter"
      /\ \A t : ~ Handling(t)'
      /\ \A t \in Secretaries \ {TS} : phase'[t] = phase[t]
      /\ \A t \in Secretaries : pc'[t] = pc[t]
      /\ Reply(TS) /\ phase[TS] = "awaiting reply" => phase'[TS] = "running"
      /\ UNCHANGED ipcVars => phase' = phase
      /\ UNCHANGED <<inbox, sender>>
      /\ \A t \in Tasks : phase[t] = "sending" => sent'[t] = sent[t]
  BY <1>1, <1>2, <1>3, ServerGoes
<1>5. phase[TS] = "awaiting reply" /\ pc[TS] = "reply" /\ Carries
  BY <1>2, <1>3 DEF SerialInv, PhasesInv, ServerOK, SecretaryOK, Carries
<1>6. sent[TS] = Character(Accepted + 1) /\ Carried = 1
  BY <1>5 DEF SerialInv, PipelineInv, Carried
<1>7. PICK b, new, n, w :
        /\ b = transmit_buffer /\ new = transmit_buffer' /\ n = b.num_els /\ w = written
        /\ b \in BufferTypes /\ n \in Nat /\ w \in Nat
  <2>1. /\ transmit_buffer \in BufferTypes /\ transmit_buffer.num_els \in Nat
        /\ written \in Nat
    BY CountsAre DEF SerialInv
  <2> QED BY <2>1
<1>8. /\ ~ IsCyclicBufferFull(b) /\ new = CyclicBufferPush(b, w + n + 1) /\ w + n + 1 \in Int
      /\ \A i \in 1 .. n : Item(b, i) = w + i
  <2>1. sent[sender[Server]].data = Accepted + 1 /\ Accepted + 1 = w + n + 1
    BY <1>2, <1>6, <1>7 DEF Character, Accepted
  <2>2. ~ IsCyclicBufferFull(transmit_buffer)
    BY <1>2 DEF SerialInv, TransmitterInv, LeftWaiting
  <2>3. \A i \in 1 .. n : Item(b, i) = w + i
    BY <1>7 DEF SerialInv, TransmitterInv
  <2>4. PICK x : x = sent[sender[Server]].data
    OBVIOUS
  <2>5. x = w + n + 1 /\ new = CyclicBufferPush(b, x)
    BY <1>1, <1>7, <2>1, <2>4
  <2>6. w + n + 1 \in Int
    BY <1>7
  <2> QED BY <1>7, <2>2, <2>3, <2>5, <2>6
<1>9. /\ new \in BufferTypes /\ new.num_els = n + 1
      /\ \A i \in 1 .. n : Item(new, i) = Item(b, i)
      /\ Item(new, new.num_els) = w + n + 1
  BY <1>7, <1>8, PushDoes
<1>10. Accepted' = Accepted + 1 /\ Accepted \in Nat
  <2>1. Accepted = w + n /\ Accepted' = w + (n + 1)
    BY <1>1, <1>7, <1>9 DEF Accepted
  <2> QED BY <1>7, <2>1
<1>11. ~ Carries' /\ Carried' = 0
  <2>1. phase'[TS] # "sending" /\ pc'[TS] # "send"
    BY <1>1, <1>3, <1>4, <1>5
  <2>2. ~ Carries'
    BY <1>4, <2>1 DEF Carries
  <2> QED BY <2>2 DEF Carried
<1>12. PipelineInv'
  <2>1. PICK a, l, box, s1 :
          /\ a \in Nat /\ l \in Nat /\ a = Accepted /\ box = inbox[TS] /\ l = Len(box) /\ s1 = sent'
    BY <1>3, <1>10, InboxTyped DEF SerialInv
  <2>2. /\ put = a + 1 + l
        /\ \A i \in 1 .. l : sent[box[i]] = Character(a + 1 + i)
    BY <1>6, <2>1 DEF SerialInv, PipelineInv
  <2>3. \A i \in 1 .. l : s1[box[i]] = sent[box[i]]
    BY <1>3, <1>4, <2>1, InboxTyped DEF SerialInv
  <2>4. /\ put' = put /\ Accepted' = a + 1 /\ inbox'[TS] = box
    BY <1>1, <1>4, <1>10, <2>1
  <2>5. put = (a + 1) + 0 + l
    BY <2>1, <2>2
  <2>6. \A i \in 1 .. l : s1[box[i]] = Character((a + 1) + 0 + i)
    <3>1. \A i \in 1 .. l : a + 1 + i = (a + 1) + 0 + i
      BY <2>1
    <3> QED BY <2>2, <2>3, <3>1
  <2> QED BY <1>11, <2>1, <2>4, <2>5, <2>6 DEF PipelineInv, Character
<1>13. TransmitterInv'
  <2>1. \A i \in 1 .. new.num_els : Item(new, i) = w + i
    <3>1. \A i \in 1 .. new.num_els : i \in 1 .. n \/ i = n + 1
      BY <1>7, <1>9
    <3>2. w + n + 1 = w + (n + 1)
      BY <1>7
    <3> QED BY <1>8, <1>9, <3>1, <3>2
  <2>2. IsCyclicBufferFull(new) => LeftWaiting(TS)'
    BY <1>1, <1>4, <1>5, <1>7 DEF LeftWaiting
  <2>3. ~ IsCyclicBufferEmpty(new)
    BY <1>7, <1>9 DEF IsCyclicBufferEmpty
  <2> QED BY <1>1, <1>7, <2>1, <2>2, <2>3 DEF TransmitterInv
<1>14. OrderInv' /\ RepliesInv' /\ WaiterInv' /\ Reads
  <2>1. LeftWaiting(RS)' <=> LeftWaiting(RS)
    BY <1>3, <1>4 DEF LeftWaiting
  <2>2. pc'[RS] = pc[RS] /\ phase'[RS] = phase[RS] /\ uart'.rx = uart.rx
    BY <1>1, <1>3, <1>4
  <2> QED BY <1>1, <2>1, <2>2, ReceiverKept
<1>15. SerialTypeOK'
  <2>1. /\ answer' \in [Getters \cup {RS} -> 0 .. MaxArrived]
        /\ receive_buffer' \in BufferTypes /\ awaiting_receive' \in BOOLEAN
        /\ awaiting_transmit' \in BOOLEAN
        /\ uart' \in [rx : 0 .. MaxArrived, tx : 0 .. MaxPut, txint : BOOLEAN]
        /\ put' \in 0 .. MaxPut /\ arrived' \in 0 .. MaxArrived /\ written' \in 0 .. MaxPut
    BY <1>1, Zenon DEF SerialInv, SerialTypeOK
  <2>2. transmit_buffer' \in BufferTypes
    BY <1>7, <1>9
  <2> QED BY <1>4, <2>1, <2>2, Zenon DEF SerialTypeOK, Places
<1> QED BY <1>4, <1>12, <1>13, <1>14, <1>15 DEF SerialInv

\* Steps of no task: the UART's and those that change nothing.
LEMMA Still ==
  ASSUME SerialInv, UNCHANGED <<ipcVars, pc, put, written, transmit_buffer>>
  PROVE  /\ IpcInv' /\ MailInv' /\ MessagesInv' /\ PhasesInv' /\ PipelineInv'
         /\ TransmitterInv' /\ pc' = pc /\ pc' \in [Staff -> Places] /\ phase' = phase
         /\ \A t : LeftWaiting(t)' <=> LeftWaiting(t)
<1>1. UNCHANGED <<phase, inbox, sent, sender, pc, put, written, transmit_buffer>>
  BY DEF ipcVars
<1>2. IpcInv'
  BY IpcUnchanged DEF SerialInv
<1>3. MailInv' /\ MessagesInv'
  BY <1>1 DEF SerialInv, MailInv, MaySend, MessagesInv
<1>4. \A t : Handling(t)' <=> Handling(t)
  BY <1>1 DEF Handling, Runs
<1>5. \A t : LeftWaiting(t)' <=> LeftWaiting(t)
  BY <1>1, <1>4 DEF LeftWaiting
<1>6. PhasesInv'
  <2>1. ServerOK'
    BY <1>1, <1>4 DEF SerialInv, PhasesInv, ServerOK
  <2>2. \A s \in Secretaries : SecretaryOK(s)'
    BY <1>1, SecretaryKept DEF SerialInv, PhasesInv
  <2> QED BY <2>1, <2>2 DEF PhasesInv, Secretaries
<1>7. PipelineInv'
  <2>1. Carries' <=> Carries
    BY <1>1, <1>4 DEF Carries, Runs
  <2>2. Accepted' = Accepted
    BY <1>1 DEF Accepted
  <2> QED BY <1>1, <2>1, <2>2, PipelineKept DEF SerialInv
<1>8. TransmitterInv'
  BY <1>1, <1>5, TransmitterKept DEF SerialInv
<1>9. pc' \in [Staff -> Places]
  BY <1>1 DEF SerialInv, SerialTypeOK, Places
<1> QED BY <1>1, <1>2, <1>3, <1>5, <1>6, <1>7, <1>8, <1>9

LEMMA CharacterArrivesKept == ASSUME SerialInv, CharacterArrives PROVE SerialInv' /\ Reads
<1>1. /\ arrived < MaxArrived /\ ~ RxFull /\ arrived' = arrived + 1
      /\ uart' = [uart EXCEPT !.rx = arrived + 1]
      /\ UNCHANGED <<ipcVars, pc, put, written, transmit_buffer>>
      /\ UNCHANGED <<receive_buffer, awaiting_transmit, awaiting_receive, answer>>
  BY DEF CharacterArrives, serverVars
<1>2. /\ IpcInv' /\ MailInv' /\ MessagesInv' /\ PhasesInv' /\ PipelineInv'
      /\ TransmitterInv' /\ pc' = pc /\ pc' \in [Staff -> Places] /\ phase' = phase
      /\ \A t : LeftWaiting(t)' <=> LeftWaiting(t)
  BY <1>1, Still
<1>3. /\ arrived \in Nat /\ answer[ReceiveSecretary] \in Nat
      /\ \A c \in Getters : answer[c] \in Nat
      /\ receive_buffer \in BufferTypes /\ MaxArrived \in Nat
  BY CountsAre, SerialAssumption DEF SerialInv
<1>4. arrived' \in 0 .. MaxArrived
  BY <1>1, <1>3
<1>5. uart' \in [rx : 0 .. MaxArrived, tx : 0 .. MaxPut, txint : BOOLEAN] /\ uart'.rx = arrived'
  <2>1. uart \in [rx : 0 .. MaxArrived, tx : 0 .. MaxPut, txint : BOOLEAN]
    BY DEF SerialInv, SerialTypeOK
  <2> QED BY <1>1, <1>4, <2>1
<1>6. SerialTypeOK'
  BY <1>1, <1>2, <1>4, <1>5, Zenon DEF SerialInv, SerialTypeOK, Places
<1>7. OrderInv'
  <2>1. PICK b, a, low, top :
          b = receive_buffer /\ a = answer /\ low = answer[ReceiveSecretary] /\ top = arrived
    OBVIOUS
  <2>2. \A i \in 1 .. b.num_els :
          /\ low < Item(b, i) /\ Item(b, i) <= top
          /\ \A j \in 1 .. i - 1 : Item(b, j) < Item(b, i)
    BY <2>1 DEF SerialInv, OrderInv
  <2>3. \A i \in 1 .. b.num_els : Item(b, i) \in Int
    BY <1>3, <2>1, ItemTyped
  <2>4. \A i \in 1 .. b.num_els : Item(b, i) <= top + 1 /\ Item(b, i) < top + 1
    BY <1>3, <2>1, <2>2, <2>3
  <2>5. low <= top /\ low \in Nat /\ top \in Nat /\ \A c \in Getters : a[c] <= low
    BY <1>3, <2>1 DEF SerialInv, OrderInv
  <2>6. low < top + 1 /\ low <= top + 1 /\ top + 1 <= top + 1
    BY <2>5
  <2>7. /\ receive_buffer' = b /\ answer' = a /\ answer'[ReceiveSecretary] = low
        /\ arrived' = top + 1 /\ uart'.rx = top + 1
    BY <1>1, <1>5, <2>1
  <2> QED BY <2>2, <2>4, <2>5, <2>6, <2>7 DEF OrderInv
<1>8. RepliesInv' /\ WaiterInv'
  BY <1>1, <1>2 DEF SerialInv, RepliesInv, WaiterInv, Runs, IsCyclicBufferEmpty
<1>9. Reads
  BY <1>1 DEF Reads
<1> QED BY <1>2, <1>6, <1>7, <1>8, <1>9 DEF SerialInv

LEMMA CharacterSentKept == ASSUME SerialInv, CharacterSent PROVE SerialInv' /\ Reads
<1>1. /\ uart' = [uart EXCEPT !.tx = 0, !.txint = TRUE]
      /\ UNCHANGED <<ipcVars, pc, put, written, transmit_buffer>>
      /\ UNCHANGED <<receive_buffer, awaiting_receive, answer, arrived>>
      /\ UNCHANGED awaiting_transmit
  BY DEF CharacterSent, serverVars, countVars, Nothing
<1>2. /\ IpcInv' /\ MailInv' /\ MessagesInv' /\ PhasesInv' /\ PipelineInv'
      /\ TransmitterInv' /\ pc' = pc /\ pc' \in [Staff -> Places] /\ phase' = phase
      /\ \A t : LeftWaiting(t)' <=> LeftWaiting(t)
  BY <1>1, Still
<1>3. /\ uart' \in [rx : 0 .. MaxArrived, tx : 0 .. MaxPut, txint : BOOLEAN]
      /\ uart'.rx = uart.rx
  <2>1. uart \in [rx : 0 .. MaxArrived, tx : 0 .. MaxPut, txint : BOOLEAN]
    BY DEF SerialInv, SerialTypeOK
  <2>2. 0 \in 0 .. MaxPut
    BY SerialAssumption
  <2> QED BY <1>1, <2>1, <2>2
<1>4. SerialTypeOK'
  BY <1>1, <1>2, <1>3, Zenon DEF SerialInv, SerialTypeOK, Places
<1>5. OrderInv' /\ RepliesInv' /\ WaiterInv' /\ Reads
  BY <1>1, <1>2, <1>3, ReceiverKept
<1> QED BY <1>2, <1>4, <1>5 DEF SerialInv

LEMMA NothingKept == ASSUME SerialInv, UNCHANGED vars PROVE SerialInv' /\ Reads
<1>1. /\ UNCHANGED <<serverVars, answer, uart, arrived, written>>
      /\ UNCHANGED <<ipcVars, pc, put, written, transmit_buffer>>
  BY DEF vars, serverVars, countVars
<1>2. /\ IpcInv' /\ MailInv' /\ MessagesInv' /\ PhasesInv' /\ PipelineInv'
      /\ TransmitterInv' /\ pc' = pc /\ pc' \in [Staff -> Places] /\ phase' = phase
      /\ \A t : LeftWaiting(t)' <=> LeftWaiting(t)
  BY <1>1, Still
<1>3. put' \in 0 .. MaxPut
  BY <1>1 DEF SerialInv, SerialTypeOK
<1>4. /\ pc'[Server] = "start transmitter" => pc[Server] = "start transmitter"
      /\ pc'[ReceiveSecretary] = "reply" /\ phase'[ReceiveSecretary] = "running"
           => pc[ReceiveSecretary] = "reply" /\ phase[ReceiveSecretary] = "running"
  BY <1>2
<1> QED BY <1>1, <1>2, <1>3, <1>4, OnlyTalk

LEMMA SerialNext == SerialInv /\ [Next]_vars => SerialInv' /\ Reads
<1> SUFFICES ASSUME SerialInv, [Next]_vars PROVE SerialInv' /\ Reads
  OBVIOUS
<1>1. CASE \E c \in Putters : Putc(c)
  BY <1>1, PutcKept
<1>2. CASE \E c \in Getters : Getc(c)
  BY <1>2, GetcKept
<1>3. CASE \E s \in {TransmitSecretary, ReceiveSecretary} : SecretaryStep(s)
  BY <1>3, SecretaryReceivesKept, SecretarySendsKept, SecretaryRepliesKept
  DEF SecretaryStep, Secretaries
<1>4. CASE NotifierStep \/ Interrupt
  BY <1>4, NotifierReceivesKept, NotifierKept DEF NotifierStep
<1>5. CASE CourierStep
  BY <1>5, CourierAsksKept, CourierTellsKept DEF CourierStep
<1>6. CASE ServerStep
  BY <1>6, ServerReceivesKept, HandleNotifierKept, TakeCharacterKept, TransmitNextKept,
     HandleReceiveKept, HandleTransmitKept, StartTransmitterKept DEF ServerStep
<1>7. CASE UartStep
  BY <1>7, CharacterArrivesKept, CharacterSentKept DEF UartStep
<1>8. CASE UNCHANGED vars
  BY <1>8, NothingKept
<1> QED BY <1>1, <1>2, <1>3, <1>4, <1>5, <1>6, <1>7, <1>8 DEF Next

LEMMA SerialAlways == Spec => []SerialInv /\ [][Reads]_vars
<1>1. Init => SerialInv
  BY SerialInit
<1>2. SerialInv /\ [Next]_vars => SerialInv' /\ [Reads]_vars
  BY SerialNext
<1> QED BY <1>1, <1>2, PTL DEF Spec

-----------------------------------------------------------------------------
(* The theorems.                                                           *)

\* Each character of Putc that is not in the buffer and not yet written has its
\* caller waiting: in the hands of the secretary, or in its inbox.
LEMMA InOrder == ASSUME SerialInv PROVE TransmittedInOrder
<1>1. PICK b, w, n, a, l, box :
        /\ b = transmit_buffer /\ w = written /\ n = transmit_buffer.num_els /\ a = Accepted
        /\ box = inbox[TransmitSecretary] /\ l = Len(box)
  OBVIOUS
<1>2. b \in BufferTypes /\ w \in Nat /\ n \in Nat /\ a \in Nat /\ put \in Nat
  BY <1>1, CountsAre DEF SerialInv
<1>3. Contents(transmit_buffer) = [i \in 1 .. transmit_buffer.num_els |-> written + i]
  <2>1. \A i \in 1 .. n : Item(b, i) = w + i
    BY <1>1 DEF SerialInv, TransmitterInv
  <2>2. Contents(b) = [i \in 1 .. b.num_els |-> Item(b, i)]
    BY DEF Contents, Item
  <2>3. Contents(b) = [i \in 1 .. n |-> w + i]
    BY <1>1, <2>1, <2>2
  <2> QED BY <1>1, <2>3
<1>4. l \in Nat /\ TransmitSecretary \in Tasks /\ TransmitSecretary \in Secretaries
  BY <1>1, TasksAre, InboxTyped DEF SerialInv, Secretaries
<1>5. \A i \in 1 .. l : /\ box[i] \in Putters /\ Blocked(box[i])
                        /\ sent[box[i]] = Character(a + Carried + i)
  <2>1. \A i \in 1 .. l : phase[box[i]] = "sending"
    BY <1>1, <1>4, InboxTyped DEF SerialInv
  <2>2. \A i \in 1 .. l : box[i] \in Putters
    BY <1>1, <1>4, TasksAre DEF SerialInv, MailInv, MaySend, Callers, Secretaries
  <2>3. \A i \in 1 .. l : sent[box[i]] = Character(a + Carried + i)
    BY <1>1 DEF SerialInv, PipelineInv
  <2> QED BY <2>1, <2>2, <2>3 DEF Blocked
<1>6. put = a + Carried + l
  BY <1>1 DEF SerialInv, PipelineInv
<1>7. ASSUME NEW k \in 1 .. put
      PROVE  \/ k \in Queued
             \/ \E c \in Putters :
                  Blocked(c) /\ sent[c] = [type |-> "SS_TRANSMIT", data |-> k]
  <2>1. CASE k <= a
    <3>1. Queued = 1 .. a
      BY <1>1 DEF Queued, Accepted
    <3>2. k \in 1 .. a
      BY <1>2, <2>1
    <3> QED BY <3>1, <3>2
  <2>2. CASE Carries /\ k = a + 1
    <3>1. /\ phase[sender[TransmitSecretary]] = "awaiting reply"
          /\ sent[sender[TransmitSecretary]] = Character(k)
      BY <1>1, <2>2 DEF SerialInv, PipelineInv
    <3>2. sender[TransmitSecretary] \in Putters
      BY <2>2, CarrierIs DEF SerialInv
    <3> QED BY <3>1, <3>2 DEF Blocked, Character
  <2>3. CASE ~ (k <= a) /\ ~ (Carries /\ k = a + 1)
    <3>1. PICK e \in {0, 1} : e = Carried /\ (e = 1 <=> Carries)
      BY DEF Carried
    <3>2. PICK i \in 1 .. l : a + e + i = k
      <4>1. put = a + e + l
        BY <1>6, <3>1
      <4>2. (e = 1 => k # a + 1) /\ k > a
        BY <1>2, <2>3, <3>1
      <4>3. k - a - e \in 1 .. l /\ a + e + (k - a - e) = k
        BY <1>2, <1>4, <3>1, <4>1, <4>2
      <4> QED BY <4>3
    <3>3. sent[box[i]] = Character(k) /\ box[i] \in Putters /\ Blocked(box[i])
      BY <1>5, <3>1, <3>2
    <3> QED BY <3>3 DEF Character
  <2> QED BY <2>1, <2>2, <2>3
<1> QED BY <1>3, <1>7 DEF TransmittedInOrder

\* ChannelConsistent: the characters of Putc leave in the order of the calls,
\* none is lost or sent twice, each not yet accepted has a caller that waits,
\* and the server's awaiting_receive says truly whether the receive secretary
\* is left waiting.
THEOREM ChannelBooks == Spec => []ChannelConsistent
<1>1. SerialInv => ReceiverRemembered
  BY DEF SerialInv, WaiterInv, LeftWaiting, Handling, ReceiverRemembered
<1>2. SerialInv => ChannelConsistent
  BY <1>1, InOrder DEF ChannelConsistent, SerialInv
<1> QED BY <1>2, SerialAlways, PTL

\* ReceivedInOrder: Getc returns characters in the order of arrival, and one
\* taken from the UART is answered or kept unless the buffer is full.
THEOREM GetcInOrder == Spec => ReceivedInOrder
<1> DEFINE Ordered ==
      \A i \in 1 .. receive_buffer.num_els : \A earlier \in
        {answer[ReceiveSecretary]} \cup {Contents(receive_buffer)[j] : j \in 1 .. i - 1} :
          Contents(receive_buffer)[i] > earlier
<1>1. SerialInv => Ordered
  <2> SUFFICES ASSUME SerialInv,
                      NEW i \in 1 .. receive_buffer.num_els,
                      NEW earlier \in {answer[ReceiveSecretary]} \cup
                                        {Contents(receive_buffer)[j] : j \in 1 .. i - 1}
               PROVE  Contents(receive_buffer)[i] > earlier
    OBVIOUS
  <2>1. PICK b, n, low :
          b = receive_buffer /\ n = receive_buffer.num_els /\ low = answer[ReceiveSecretary]
    OBVIOUS
  <2>2. b \in BufferTypes /\ n \in Nat /\ low \in Nat /\ i \in 1 .. n
    BY <2>1, CountsAre DEF SerialInv
  <2>3. /\ low < Item(b, i) /\ \A j \in 1 .. i - 1 : Item(b, j) < Item(b, i)
    BY <2>1 DEF SerialInv, OrderInv
  <2>4. Item(b, i) \in Int /\ Contents(b)[i] = Item(b, i)
    BY <2>1, <2>2, ItemTyped
  <2>5. ASSUME NEW j \in 1 .. i - 1 PROVE Contents(b)[i] > Contents(b)[j]
    <3>1. j \in 1 .. n
      BY <2>2
    <3>2. Item(b, j) \in Int /\ Contents(b)[j] = Item(b, j)
      BY <2>1, <2>2, <3>1, ItemTyped
    <3> QED BY <2>3, <2>4, <3>2
  <2>6. Contents(b)[i] > low
    BY <2>2, <2>3, <2>4
  <2> QED BY <2>1, <2>5, <2>6
<1>2. Spec => []Ordered
  BY <1>1, SerialAlways, PTL
<1>3. Spec => [][Reads]_vars
  BY SerialAlways, PTL
<1> QED BY <1>2, <1>3, PTL DEF ReceivedInOrder, Reads

=============================================================================
