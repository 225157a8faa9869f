------------------------------ MODULE IpcProofs ------------------------------
(***************************************************************************)
(* What the servers' proofs need to know of Send, Receive and Reply: who   *)
(* is in an inbox is blocked in Send, and is there once; and what each of  *)
(* the three does to every task.                                           *)
(***************************************************************************)
EXTENDS Ipc, SequenceTheorems, WellFoundedInduction, TLAPS

\* A non-empty set of natural numbers has a least element.
LEMMA LeastElement ==
  ASSUME NEW S \in SUBSET Nat, S # {}
  PROVE  \E n \in S : \A m \in S : n <= m
<1> DEFINE Less == OpToRel(<, Nat)
<1>1. \E n \in S : \A m \in S : ~ (<<m, n>> \in Less)
  <2>1. IsWellFoundedOn(Less, Nat)
    BY NatLessThanWellFounded
  <2> HIDE DEF Less
  <2> QED BY <2>1, WFMin
<1>2. Less = {xy \in Nat \X Nat : xy[1] < xy[2]}
  BY DEF OpToRel
<1> HIDE DEF Less
<1>3. ASSUME NEW n \in S, NEW m \in S, ~ (<<m, n>> \in Less) PROVE n <= m
  BY <1>2, <1>3
<1> QED BY <1>1, <1>3

IpcTypes ==
  /\ phase \in [Tasks -> R!Phases]
  /\ inbox \in [Tasks -> Seq(Tasks)]
  /\ sent = [t \in Tasks |-> sent[t]]
  /\ sender = [t \in Tasks |-> sender[t]]

InboxesBlocked ==
  \A r \in Tasks : \A i \in 1 .. Len(inbox[r]) : phase[inbox[r][i]] = "sending"

InboxesDisjoint ==
  \A q, r \in Tasks : \A i \in 1 .. Len(inbox[q]), j \in 1 .. Len(inbox[r]) :
    inbox[q][i] = inbox[r][j] => q = r /\ i = j

IpcInv == IpcTypes /\ InboxesBlocked /\ InboxesDisjoint

LEMMA InboxTyped ==
  ASSUME IpcInv, NEW r \in Tasks
  PROVE  /\ inbox[r] \in Seq(Tasks) /\ Len(inbox[r]) \in Nat
         /\ \A i \in 1 .. Len(inbox[r]) : inbox[r][i] \in Tasks /\ phase[inbox[r][i]] = "sending"
<1>1. inbox[r] \in Seq(Tasks)
  BY DEF IpcInv, IpcTypes
<1>2. Len(inbox[r]) \in Nat /\ \A i \in 1 .. Len(inbox[r]) : inbox[r][i] \in Tasks
  BY <1>1, LenProperties, ElementOfSeq
<1> QED BY <1>1, <1>2 DEF IpcInv, InboxesBlocked

\* Nobody has sent anything yet.
LEMMA IpcInitially == ASSUME NEW running, IpcInit(running) PROVE IpcInv
<1>1. /\ phase = [t \in Tasks |-> IF t \in running THEN "running" ELSE "none"]
      /\ inbox = [t \in Tasks |-> <<>>]
      /\ sent = [t \in Tasks |-> NoMessage] /\ sender = [t \in Tasks |-> Nobody]
  BY DEF IpcInit
<1>2. IpcTypes
  <2>1. <<>> \in Seq(Tasks)
    OBVIOUS
  <2> QED BY <1>1, <2>1 DEF IpcTypes, R!Phases
<1>3. \A r \in Tasks : inbox[r] = <<>> /\ Len(inbox[r]) = 0
  BY <1>1
<1>4. InboxesBlocked /\ InboxesDisjoint
  BY <1>3 DEF InboxesBlocked, InboxesDisjoint
<1> QED BY <1>2, <1>4 DEF IpcInv

\* A task leaves an inbox only by Receive: who is in none may change its phase.
LEMMA InboxesKept ==
  ASSUME IpcInv, IpcTypes', inbox' = inbox,
         \A t \in Tasks : phase[t] = "sending" => phase'[t] = "sending"
  PROVE  IpcInv'
<1>1. InboxesBlocked'
  BY InboxTyped DEF InboxesBlocked
<1>2. InboxesDisjoint'
  BY DEF IpcInv, InboxesDisjoint
<1> QED BY <1>1, <1>2 DEF IpcInv

LEMMA IpcUnchanged == ASSUME IpcInv, UNCHANGED ipcVars PROVE IpcInv'
BY DEF ipcVars, IpcInv, IpcTypes, InboxesBlocked, InboxesDisjoint

\* Send blocks the caller; a receiver that waits goes on with its message.
LEMMA SendDoes ==
  ASSUME IpcInv, NEW s \in Tasks, NEW r \in Tasks, NEW m, Send(s, r, m)
  PROVE  /\ IpcInv'
         /\ phase[s] = "running"
         /\ sent'[s] = m /\ \A t \in Tasks \ {s} : sent'[t] = sent[t]
         /\ \/ /\ phase[r] = "receiving" /\ s # r
               /\ phase'[s] = "awaiting reply" /\ phase'[r] = "running"
               /\ \A t \in Tasks \ {r, s} : phase'[t] = phase[t]
               /\ sender'[r] = s /\ \A t \in Tasks \ {r} : sender'[t] = sender[t]
               /\ inbox' = inbox
            \/ /\ phase[r] \notin {"receiving", "none"} /\ phase'[s] = "sending"
               /\ \A t \in Tasks \ {s} : phase'[t] = phase[t]
               /\ sender' = sender
               /\ inbox' = [inbox EXCEPT ![r] = Append(inbox[r], s)]
<1>1. IpcTypes
  BY DEF IpcInv
<1>2. sent' = [sent EXCEPT ![s] = m] /\ phase[s] = "running"
  BY DEF Send, R!SendToWaiting, R!SendToBusy
<1>3. /\ sent' = [t \in Tasks |-> sent'[t]] /\ sent'[s] = m
      /\ \A t \in Tasks \ {s} : sent'[t] = sent[t]
  BY <1>1, <1>2 DEF IpcTypes
<1>4. CASE R!SendToWaiting(s, r)
  <2>1. /\ phase[r] = "receiving" /\ inbox' = inbox
        /\ phase' = [phase EXCEPT ![s] = "awaiting reply", ![r] = "running"]
        /\ sender' = [sender EXCEPT ![r] = s]
    BY <1>4 DEF Send, R!SendToWaiting
  <2>2. /\ s # r /\ phase'[s] = "awaiting reply" /\ phase'[r] = "running"
        /\ \A t \in Tasks \ {r, s} : phase'[t] = phase[t]
        /\ phase' \in [Tasks -> R!Phases]
    BY <1>1, <1>2, <2>1 DEF IpcTypes, R!Phases
  <2>3. /\ sender' = [t \in Tasks |-> sender'[t]] /\ sender'[r] = s
        /\ \A t \in Tasks \ {r} : sender'[t] = sender[t]
    BY <1>1, <2>1 DEF IpcTypes
  <2>4. IpcTypes'
    BY <1>1, <1>3, <2>1, <2>2, <2>3 DEF IpcTypes
  <2>5. \A t \in Tasks : phase[t] = "sending" => phase'[t] = "sending"
    BY <1>2, <2>1, <2>2
  <2>6. IpcInv'
    BY <2>1, <2>4, <2>5, InboxesKept
  <2> QED BY <1>2, <1>3, <2>1, <2>2, <2>3, <2>6
<1>5. CASE R!SendToBusy(s, r)
  <2> DEFINE w == inbox[r]
             x == Append(w, s)
             n == Len(w)
  <2>1. /\ phase[r] \notin {"receiving", "none"} /\ sender' = sender
        /\ phase' = [phase EXCEPT ![s] = "sending"]
        /\ inbox' = [inbox EXCEPT ![r] = x]
    BY <1>5 DEF Send, R!SendToBusy
  <2>2. /\ phase'[s] = "sending" /\ \A t \in Tasks \ {s} : phase'[t] = phase[t]
        /\ phase' \in [Tasks -> R!Phases]
    BY <1>1, <2>1 DEF IpcTypes, R!Phases
  <2>3. w \in Seq(Tasks) /\ n \in Nat
    BY InboxTyped
  <2>4. x \in Seq(Tasks) /\ Len(x) = n + 1 /\ x[n + 1] = s /\ \A i \in 1 .. n : x[i] = w[i]
    BY <2>3, AppendProperties
  <2>5. inbox' \in [Tasks -> Seq(Tasks)]
    BY <1>1, <2>1, <2>4 DEF IpcTypes
  <2>6. IpcTypes'
    BY <1>1, <1>3, <2>1, <2>2, <2>5 DEF IpcTypes
  <2> DEFINE old(q) == Len(inbox[q])
             new(q) == IF q = r THEN n + 1 ELSE old(q)
  <2>7. /\ inbox'[r] = x /\ Len(inbox'[r]) = n + 1
        /\ \A q \in Tasks \ {r} : inbox'[q] = inbox[q]
    BY <1>1, <2>1, <2>4 DEF IpcTypes
  \* Where each word of an inbox comes from.
  <2>8. \A q \in Tasks : \A i \in 1 .. Len(inbox'[q]) :
          \/ i \in 1 .. Len(inbox[q]) /\ inbox'[q][i] = inbox[q][i]
          \/ q = r /\ i = n + 1 /\ inbox'[q][i] = s
    BY <2>3, <2>4, <2>7
  <2>9. \A q \in Tasks : \A i \in 1 .. Len(inbox[q]) : inbox[q][i] \in Tasks \ {s}
    BY <1>2, InboxTyped
  <2>10. InboxesBlocked'
    BY <2>2, <2>8, <2>9 DEF InboxesBlocked, IpcInv
  <2>11. InboxesDisjoint'
    <3> SUFFICES ASSUME NEW p \in Tasks, NEW q \in Tasks,
                        NEW i \in 1 .. Len(inbox'[p]), NEW j \in 1 .. Len(inbox'[q]),
                        inbox'[p][i] = inbox'[q][j]
                 PROVE  p = q /\ i = j
      BY DEF InboxesDisjoint
    <3> HIDE DEF n, w, x
    <3>1. CASE i \in 1 .. Len(inbox[p]) /\ inbox'[p][i] = inbox[p][i]
      <4>1. inbox'[p][i] # s
        BY <2>9, <3>1
      <4>2. j \in 1 .. Len(inbox[q]) /\ inbox'[q][j] = inbox[q][j]
        BY <2>8, <4>1
      <4>3. inbox[p][i] = inbox[q][j]
        BY <3>1, <4>2
      <4> QED BY <3>1, <4>2, <4>3 DEF InboxesDisjoint, IpcInv
    <3>2. CASE p = r /\ i = n + 1 /\ inbox'[p][i] = s
      <4>1. inbox'[q][j] = s
        BY <3>2
      <4>2. q = r /\ j = n + 1
        BY <2>8, <2>9, <4>1
      <4> QED BY <3>2, <4>2
    <3> QED BY <2>8, <3>1, <3>2
  <2> QED BY <1>2, <1>3, <2>1, <2>2, <2>6, <2>10, <2>11 DEF IpcInv
<1> QED BY <1>4, <1>5 DEF Send

\* Receive waits for a sender, or takes the first.
LEMMA ReceiveDoes ==
  ASSUME IpcInv, NEW r \in Tasks, Receive(r)
  PROVE  /\ IpcInv'
         /\ phase[r] = "running" /\ sent' = sent
         /\ \/ /\ phase'[r] = "receiving" /\ \A t \in Tasks \ {r} : phase'[t] = phase[t]
               /\ sender' = sender /\ inbox' = inbox /\ inbox[r] = <<>>
            \/ \E s \in Tasks :
                 /\ phase[s] = "sending" /\ s # r /\ inbox[r] # <<>> /\ s = Head(inbox[r])
                 /\ phase'[s] = "awaiting reply"
                 /\ \A t \in Tasks \ {s} : phase'[t] = phase[t]
                 /\ sender'[r] = s /\ \A t \in Tasks \ {r} : sender'[t] = sender[t]
                 /\ inbox' = [inbox EXCEPT ![r] = Tail(inbox[r])]
<1>1. IpcTypes
  BY DEF IpcInv
<1>2. sent' = sent /\ phase[r] = "running"
  BY DEF Receive, R!ReceiveNothing, R!ReceiveFirst
<1>3. CASE R!ReceiveNothing(r)
  <2>1. /\ phase' = [phase EXCEPT ![r] = "receiving"] /\ inbox' = inbox /\ inbox[r] = <<>>
        /\ sender' = sender
    BY <1>3 DEF Receive, R!ReceiveNothing, R!ReceiveFirst
  <2>2. /\ phase'[r] = "receiving" /\ \A t \in Tasks \ {r} : phase'[t] = phase[t]
        /\ phase' \in [Tasks -> R!Phases]
    BY <1>1, <2>1 DEF IpcTypes, R!Phases
  <2>3. IpcTypes'
    BY <1>1, <1>2, <2>1, <2>2 DEF IpcTypes
  <2>4. IpcInv'
    BY <1>2, <2>1, <2>2, <2>3, InboxesKept
  <2> QED BY <1>2, <2>1, <2>2, <2>4
<1>4. CASE R!ReceiveFirst(r)
  <2> DEFINE w == inbox[r]
             x == Tail(w)
             n == Len(w)
             s == Head(w)
  <2>1. /\ phase' = [phase EXCEPT ![s] = "awaiting reply"] /\ w # <<>>
        /\ inbox' = [inbox EXCEPT ![r] = x] /\ sender' = [sender EXCEPT ![r] = s]
    BY <1>4 DEF Receive, R!ReceiveNothing, R!ReceiveFirst
  <2>2. w \in Seq(Tasks) /\ n \in Nat
    BY InboxTyped
  <2>3. /\ x \in Seq(Tasks) /\ Len(x) = n - 1 /\ s = w[1] /\ n > 0
        /\ \A i \in 1 .. n - 1 : x[i] = w[i + 1]
    <3>1. n > 0
      <4>1. Len(w) \in Nat \ {0}
        BY <2>1, <2>2, EmptySeq, Zenon
      <4> QED BY <4>1
    <3>2. x \in Seq(Tasks) /\ Len(x) = n - 1 /\ \A i \in 1 .. Len(x) : x[i] = w[i + 1]
      BY <2>1, <2>2, HeadTailProperties
    <3>3. s = w[1]
      <4>1. w # <<>>
        BY <2>1
      <4> HIDE DEF w
      <4> QED BY <2>2, <4>1, LenProperties
    <3> HIDE DEF x, w, n, s
    <3>4. \A i \in 1 .. n - 1 : x[i] = w[i + 1]
      BY <3>2
    <3> QED BY <3>1, <3>2, <3>3, <3>4
  <2>4. s \in Tasks /\ phase[s] = "sending"
    BY <2>2, <2>3, InboxTyped
  <2>5. s # r
    BY <1>2, <2>4
  <2>6. /\ phase'[s] = "awaiting reply" /\ \A t \in Tasks \ {s} : phase'[t] = phase[t]
        /\ phase' \in [Tasks -> R!Phases]
    BY <1>1, <2>1, <2>4 DEF IpcTypes, R!Phases
  <2>7. /\ sender' = [t \in Tasks |-> sender'[t]] /\ sender'[r] = s
        /\ \A t \in Tasks \ {r} : sender'[t] = sender[t]
    BY <1>1, <2>1 DEF IpcTypes
  <2>8. /\ inbox' \in [Tasks -> Seq(Tasks)] /\ inbox'[r] = x
        /\ \A q \in Tasks \ {r} : inbox'[q] = inbox[q]
    BY <1>1, <2>1, <2>3 DEF IpcTypes
  <2>9. IpcTypes'
    BY <1>1, <1>2, <2>6, <2>7, <2>8 DEF IpcTypes
  <2> DEFINE shift(q) == IF q = r THEN 1 ELSE 0
  <2>10. \A q \in Tasks : Len(inbox[q]) \in Nat
    BY InboxTyped
  <2>11. \A q \in Tasks : \A i \in 1 .. Len(inbox'[q]) :
           /\ i + shift(q) \in 1 .. Len(inbox[q])
           /\ inbox'[q][i] = inbox[q][i + shift(q)]
           /\ q = r => i + shift(q) # 1
    <3> HIDE DEF x, w, n, s
    <3> SUFFICES ASSUME NEW q \in Tasks, NEW i \in 1 .. Len(inbox'[q])
                 PROVE  /\ i + shift(q) \in 1 .. Len(inbox[q])
                        /\ inbox'[q][i] = inbox[q][i + shift(q)]
                        /\ q = r => i + shift(q) # 1
      OBVIOUS
    <3>1. CASE q = r
      <4>1. inbox'[q] = x /\ inbox[q] = w /\ Len(inbox[q]) = n /\ i \in 1 .. n - 1
        BY <2>3, <2>8, <3>1 DEF w, n
      <4>2. x[i] = w[i + 1] /\ i + 1 \in 1 .. n /\ i + 1 # 1
        BY <2>2, <2>3, <4>1
      <4> QED BY <3>1, <4>1, <4>2
    <3>2. CASE q # r
      <4>1. inbox'[q] = inbox[q] /\ shift(q) = 0 /\ i + 0 = i
        BY <2>8, <2>10, <3>2
      <4> QED BY <3>2, <4>1
    <3> QED BY <3>1, <3>2
  <2>12. \A q \in Tasks : \A i \in 1 .. Len(inbox'[q]) : inbox[q][i + shift(q)] # s
    <3> SUFFICES ASSUME NEW q \in Tasks, NEW i \in 1 .. Len(inbox'[q]),
                        inbox[q][i + shift(q)] = s
                 PROVE  FALSE
      OBVIOUS
    <3>1. inbox[r][1] = s /\ 1 \in 1 .. Len(inbox[r])
      BY <2>2, <2>3
    <3>2. q = r /\ i + shift(q) = 1
      BY <2>11, <3>1 DEF IpcInv, InboxesDisjoint
    <3> QED BY <2>11, <3>2
  <2> HIDE DEF shift, s, x, w, n
  <2>13. InboxesBlocked'
    <3> SUFFICES ASSUME NEW q \in Tasks, NEW i \in 1 .. Len(inbox'[q])
                 PROVE  phase'[inbox'[q][i]] = "sending"
      BY DEF InboxesBlocked
    <3>1. inbox'[q][i] \in Tasks \ {s} /\ phase[inbox'[q][i]] = "sending"
      BY <2>11, <2>12, InboxTyped
    <3> QED BY <2>6, <3>1
  <2>14. InboxesDisjoint'
    <3> SUFFICES ASSUME NEW p \in Tasks, NEW q \in Tasks,
                        NEW i \in 1 .. Len(inbox'[p]), NEW j \in 1 .. Len(inbox'[q]),
                        inbox'[p][i] = inbox'[q][j]
                 PROVE  p = q /\ i = j
      BY DEF InboxesDisjoint
    <3>1. p = q /\ i + shift(p) = j + shift(q)
      <4> DEFINE a == i + shift(p)
                 b == j + shift(q)
      <4>1. a \in 1 .. Len(inbox[p]) /\ b \in 1 .. Len(inbox[q]) /\ inbox[p][a] = inbox[q][b]
        BY <2>11
      <4> HIDE DEF a, b
      <4>2. p = q /\ a = b
        BY <4>1 DEF IpcInv, InboxesDisjoint
      <4> QED BY <4>2 DEF a, b
    <3>2. i \in Int /\ j \in Int
      OBVIOUS
    <3> QED BY <3>1, <3>2 DEF shift
  <2>15. IpcInv'
    BY <2>9, <2>13, <2>14 DEF IpcInv
  <2>16. inbox[r] # <<>> /\ s = Head(inbox[r]) /\ inbox' = [inbox EXCEPT ![r] = Tail(inbox[r])]
    BY <2>1 DEF w, s, x
  <2> QED BY <1>2, <2>4, <2>5, <2>6, <2>7, <2>15, <2>16
<1> QED BY <1>3, <1>4 DEF Receive

\* Reply lets the task go on if it waits for one.
LEMMA ReplyDoes ==
  ASSUME IpcInv, NEW s \in Tasks, Reply(s)
  PROVE  /\ IpcInv' /\ UNCHANGED <<inbox, sender>>
         /\ \A t \in Tasks \ {s} : phase'[t] = phase[t] /\ sent'[t] = sent[t]
         /\ phase[s] = "awaiting reply" => phase'[s] = "running" /\ sent'[s] = NoMessage
         /\ phase[s] # "awaiting reply" => phase' = phase /\ sent' = sent
<1>1. CASE phase[s] = "awaiting reply"
  <2>1. /\ phase' = [phase EXCEPT ![s] = "running"] /\ sent' = [sent EXCEPT ![s] = NoMessage]
        /\ UNCHANGED <<inbox, sender>>
    BY <1>1 DEF Reply, R!ReplyTo
  <2>2. /\ phase'[s] = "running" /\ sent'[s] = NoMessage
        /\ \A t \in Tasks \ {s} : phase'[t] = phase[t] /\ sent'[t] = sent[t]
        /\ IpcTypes'
    BY <2>1 DEF IpcInv, IpcTypes, R!Phases
  <2>3. IpcInv'
    BY <1>1, <2>1, <2>2, InboxesKept
  <2> QED BY <1>1, <2>1, <2>2, <2>3
<1>2. CASE phase[s] # "awaiting reply"
  BY <1>2, IpcUnchanged DEF Reply, ipcVars
<1> QED BY <1>1, <1>2

\* A task is created, or destroyed while no message of its own is queued.
LEMMA StartedDoes ==
  ASSUME IpcInv, NEW t \in Tasks, Started(t)
  PROVE  /\ IpcInv' /\ UNCHANGED <<inbox, sent, sender>>
         /\ phase[t] = "none" /\ phase'[t] = "running"
         /\ \A u \in Tasks \ {t} : phase'[u] = phase[u]
<1>1. /\ phase' = [phase EXCEPT ![t] = "running"] /\ phase[t] = "none"
      /\ UNCHANGED <<inbox, sent, sender>>
  BY DEF Started, R!Start
<1>2. /\ phase'[t] = "running" /\ \A u \in Tasks \ {t} : phase'[u] = phase[u]
      /\ IpcTypes'
  BY <1>1 DEF IpcInv, IpcTypes, R!Phases
<1> QED BY <1>1, <1>2, InboxesKept

LEMMA DestroyedDoes ==
  ASSUME IpcInv, NEW t \in Tasks, Destroyed(t)
  PROVE  /\ IpcInv' /\ UNCHANGED <<inbox, sent, sender>>
         /\ phase[t] \notin {"none", "sending"} /\ phase'[t] = "none"
         /\ \A u \in Tasks \ {t} : phase'[u] = phase[u]
<1>1. /\ phase' = [phase EXCEPT ![t] = "none"] /\ phase[t] \notin {"none", "sending"}
      /\ UNCHANGED <<inbox, sent, sender>>
  BY DEF Destroyed, R!Stop
<1>2. /\ phase'[t] = "none" /\ \A u \in Tasks \ {t} : phase'[u] = phase[u]
      /\ IpcTypes'
  BY <1>1 DEF IpcInv, IpcTypes, R!Phases
<1> QED BY <1>1, <1>2, InboxesKept
=============================================================================
