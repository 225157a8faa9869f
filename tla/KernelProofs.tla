----------------------------- MODULE KernelProofs -----------------------------
(***************************************************************************)
(* The theorems about Kernel, for all values of the constants.  The first  *)
(* half proves TypeOK and that the scheduler's lists, the free list, the   *)
(* tids and the family tree are consistent; the second half, with these,   *)
(* what tasks may rely on: messages, events, priorities, answers.          *)
(***************************************************************************)
EXTENDS KernelProperties, SequenceTheorems, WellFoundedInduction, FiniteSetTheorems,
        FunctionTheorems, TLAPS

-----------------------------------------------------------------------------
(* What the three operations of lib/queue.c do to a queue without          *)
(* duplicates, for queues of any length; and of the loops that look for a  *)
(* first or best element, that there is one.                               *)

\* EnqueueQueue puts a new node in, keeps the others, and makes no duplicate.
LEMMA EnqueueProperties ==
  ASSUME NEW S, NEW q \in Seq(S), NEW n \in S, ~ Linked(q, n), Distinct(q)
  PROVE  /\ EnqueueQueue(q, n) \in Seq(S)
         /\ Distinct(EnqueueQueue(q, n))
         /\ \A m : Linked(EnqueueQueue(q, n), m) <=> Linked(q, m) \/ m = n
<1> DEFINE r == EnqueueQueue(q, n)
<1>1. /\ r \in Seq(S)
      /\ Len(r) = Len(q) + 1
      /\ \A i \in 1 .. Len(q) : r[i] = q[i]
      /\ r[Len(q) + 1] = n
  BY AppendProperties DEF EnqueueQueue
<1>2. DOMAIN q = 1 .. Len(q) /\ DOMAIN r = 1 .. Len(q) + 1 /\ Len(q) \in Nat
  BY <1>1, LenProperties
<1>3. Distinct(r)
  <2> SUFFICES ASSUME NEW i \in DOMAIN r, NEW j \in DOMAIN r, r[i] = r[j]
               PROVE  i = j
    BY DEF Distinct
  <2>1. CASE i \in 1 .. Len(q) /\ j \in 1 .. Len(q)
    BY <2>1, <1>1, <1>2 DEF Distinct
  <2>2. CASE i = Len(q) + 1 \/ j = Len(q) + 1
    BY <2>2, <1>1, <1>2 DEF Linked
  <2> QED BY <2>1, <2>2, <1>2
<1>4. ASSUME NEW m PROVE Linked(r, m) <=> Linked(q, m) \/ m = n
  <2>1. ASSUME Linked(r, m) PROVE Linked(q, m) \/ m = n
    BY <2>1, <1>1, <1>2 DEF Linked
  <2>2. ASSUME Linked(q, m) PROVE Linked(r, m)
    BY <2>2, <1>1, <1>2 DEF Linked
  <2>3. Linked(r, n)
    BY <1>1, <1>2 DEF Linked
  <2> QED BY <2>1, <2>2, <2>3
<1> QED BY <1>1, <1>3, <1>4

\* DequeueQueue takes the first node and nothing else.
LEMMA DequeueProperties ==
  ASSUME NEW S, NEW q \in Seq(S), q # <<>>, Distinct(q)
  PROVE  /\ DequeueQueue(q) \in Seq(S)
         /\ Distinct(DequeueQueue(q))
         /\ Head(q) \in S /\ Linked(q, Head(q))
         /\ \A m : Linked(DequeueQueue(q), m) <=> Linked(q, m) /\ m # Head(q)
<1> DEFINE r == DequeueQueue(q)
<1>1. /\ r \in Seq(S)
      /\ Head(q) \in S /\ Head(q) = q[1]
      /\ Len(r) = Len(q) - 1
      /\ \A i \in 1 .. Len(q) - 1 : r[i] = q[i + 1]
      /\ Len(q) \in Nat /\ Len(q) >= 1
  BY HeadTailProperties, EmptySeq, LenProperties DEF DequeueQueue
<1>2. DOMAIN q = 1 .. Len(q) /\ DOMAIN r = 1 .. Len(q) - 1
  BY <1>1, LenProperties
<1>3. Distinct(r)
  BY <1>1, <1>2 DEF Distinct
<1>4. Linked(q, Head(q))
  BY <1>1, <1>2 DEF Linked
<1>5. ASSUME NEW m PROVE Linked(r, m) <=> Linked(q, m) /\ m # Head(q)
  <2>1. ASSUME NEW i \in DOMAIN r, r[i] = m
        PROVE  Linked(q, m) /\ m # Head(q)
    <3>1. i + 1 \in DOMAIN q /\ 1 \in DOMAIN q /\ q[i + 1] = m /\ i + 1 # 1
      BY <2>1, <1>1, <1>2
    <3> QED BY <3>1, <1>1 DEF Linked, Distinct
  <2>2. ASSUME NEW i \in DOMAIN q, q[i] = m, m # Head(q) PROVE Linked(r, m)
    <3>1. i - 1 \in DOMAIN r /\ r[i - 1] = m
      BY <2>2, <1>1, <1>2
    <3> QED BY <3>1 DEF Linked
  <2> QED BY <2>1, <2>2 DEF Linked
<1> QED BY <1>1, <1>3, <1>4, <1>5

\* RemoveQueueNode closes the gap at the position of the node.
LEMMA RemoveElements ==
  ASSUME NEW S, NEW q \in Seq(S), NEW k \in DOMAIN q, Distinct(q)
  PROVE  /\ RemoveQueueNode(q, q[k]) \in Seq(S)
         /\ Len(RemoveQueueNode(q, q[k])) = Len(q) - 1
         /\ \A i \in 1 .. Len(q) - 1 :
              RemoveQueueNode(q, q[k])[i] = IF i < k THEN q[i] ELSE q[i + 1]
<1> DEFINE left == SubSeq(q, 1, k - 1)
           right == SubSeq(q, k + 1, Len(q))
           r == left \o right
<1>2. k \in 1 .. Len(q) /\ Len(q) \in Nat /\ DOMAIN q = 1 .. Len(q)
  BY LenProperties
<1>a. \A i \in 1 .. Len(q) : q[i] \in S
  BY <1>2
<1>3. /\ left \in Seq(S) /\ Len(left) = k - 1
      /\ \A i \in 1 .. k - 1 : left[i] = q[i]
  <2>1. \A i \in 1 .. k - 1 : q[i] \in S
    BY <1>2, <1>a
  <2>2. /\ left \in Seq(S)
        /\ Len(left) = IF 1 <= k - 1 THEN k - 1 - 1 + 1 ELSE 0
        /\ \A i \in 1 .. k - 1 - 1 + 1 : left[i] = q[1 + i - 1]
    BY <2>1, <1>2, SubSeqProperties
  <2> HIDE DEF left
  <2> QED BY <2>2, <1>2
<1>4. /\ right \in Seq(S) /\ Len(right) = Len(q) - k
      /\ \A i \in 1 .. Len(q) - k : right[i] = q[k + i]
  <2>1. \A i \in k + 1 .. Len(q) : q[i] \in S
    BY <1>2, <1>a
  <2>2. /\ right \in Seq(S)
        /\ Len(right) = IF k + 1 <= Len(q) THEN Len(q) - (k + 1) + 1 ELSE 0
        /\ \A i \in 1 .. Len(q) - (k + 1) + 1 : right[i] = q[k + 1 + i - 1]
    BY <2>1, <1>2, SubSeqProperties
  <2> HIDE DEF right
  <2>3. Len(right) = Len(q) - k
    <3>1. Len(right) = IF k + 1 <= Len(q) THEN Len(q) - (k + 1) + 1 ELSE 0
      BY <2>2
    <3>2. Len(q) \in Int /\ k \in Int /\ k <= Len(q)
      BY <1>2
    <3> QED BY <3>1, <3>2, SMTT(30)
  <2>4. ASSUME NEW i \in 1 .. Len(q) - k PROVE right[i] = q[k + i]
    <3>1. i \in 1 .. Len(q) - (k + 1) + 1 /\ k + 1 + i - 1 = k + i
      BY <1>2
    <3> QED BY <3>1, <2>2
  <2> QED BY <2>2, <2>3, <2>4
<1> HIDE DEF left, right
<1>5. /\ r \in Seq(S) /\ Len(r) = Len(q) - 1
      /\ \A i \in 1 .. Len(r) : r[i] = IF i <= k - 1 THEN left[i]
                                       ELSE right[i - (k - 1)]
  <2>1. /\ r \in Seq(S) /\ Len(r) = Len(left) + Len(right)
        /\ \A i \in 1 .. Len(left) + Len(right) :
             r[i] = IF i <= Len(left) THEN left[i] ELSE right[i - Len(left)]
    BY <1>3, <1>4, ConcatProperties
  <2> HIDE DEF r
  <2>2. Len(left) = k - 1 /\ Len(right) = Len(q) - k
    BY <1>3, <1>4
  <2>3. k - 1 + (Len(q) - k) = Len(q) - 1
    BY <1>2
  <2>4. Len(r) = Len(q) - 1
    BY <2>1, <2>2, <2>3
  <2>5. \A i \in 1 .. Len(r) : r[i] = IF i <= k - 1 THEN left[i] ELSE right[i - (k - 1)]
    BY <2>1, <2>2
  <2>6. r \in Seq(S)
    BY <2>1
  <2> QED BY <2>4, <2>5, <2>6, Zenon
<1> HIDE DEF r
<1>6. ASSUME NEW i \in 1 .. Len(q) - 1 PROVE r[i] = IF i < k THEN q[i] ELSE q[i + 1]
  <2>1. PICK n : n = Len(q) /\ n \in Nat /\ k \in 1 .. n /\ i \in 1 .. n - 1
    BY <1>2
  <2>2. CASE i < k
    <3>1. i \in 1 .. k - 1 /\ i <= k - 1
      BY <2>1, <2>2
    <3> QED BY <2>2, <3>1, <1>3, <1>5
  <2>3. CASE ~ i < k
    <3>1. PICK j : j = i - (k - 1) /\ j \in 1 .. n - k /\ k + j = i + 1 /\ ~ i <= k - 1
      BY <2>1, <2>3
    <3>2. r[i] = right[j]
      BY <3>1, <1>5
    <3>3. right[j] = q[k + j]
      BY <2>1, <3>1, <1>4
    <3> QED BY <2>3, <3>1, <3>2, <3>3
  <2> QED BY <2>2, <2>3
<1>7. DOMAIN r = 1 .. Len(q) - 1
  BY <1>5, LenProperties
<1>8. RemoveQueueNode(q, q[k]) = r
  <2>1. Linked(q, q[k])
    BY DEF Linked
  <2>2. k = CHOOSE i \in DOMAIN q : q[i] = q[k]
    BY DEF Distinct
  <2> QED BY <2>1, <2>2 DEF RemoveQueueNode, RemoveAt, r, left, right
<1> HIDE DEF r
<1> QED BY <1>2, <1>5, <1>6, <1>8

\* RemoveQueueNode takes out the node, if it is there, and nothing else.
LEMMA RemoveProperties ==
  ASSUME NEW S, NEW q \in Seq(S), NEW n, Distinct(q)
  PROVE  /\ RemoveQueueNode(q, n) \in Seq(S)
         /\ Distinct(RemoveQueueNode(q, n))
         /\ \A m : Linked(RemoveQueueNode(q, n), m) <=> Linked(q, m) /\ m # n
<1>1. CASE ~ Linked(q, n)
  BY <1>1 DEF RemoveQueueNode, Linked
<1>2. CASE Linked(q, n)
  <2>1. PICK k \in DOMAIN q : q[k] = n
    BY <1>2 DEF Linked
  <2> DEFINE r == RemoveQueueNode(q, n)
  <2>2. k \in 1 .. Len(q) /\ Len(q) \in Nat /\ DOMAIN q = 1 .. Len(q)
    BY LenProperties
  <2>5. /\ r \in Seq(S) /\ Len(r) = Len(q) - 1
        /\ \A i \in 1 .. Len(q) - 1 : r[i] = IF i < k THEN q[i] ELSE q[i + 1]
    BY <2>1, RemoveElements
  <2>6. \A i \in 1 .. Len(q) - 1 : r[i] = IF i < k THEN q[i] ELSE q[i + 1]
    BY <2>5
  <2>7. DOMAIN r = 1 .. Len(q) - 1
    BY <2>5, LenProperties
  <2> HIDE DEF r
  <2>8. Distinct(r)
    <3> SUFFICES ASSUME NEW i \in DOMAIN r, NEW j \in DOMAIN r, r[i] = r[j]
                 PROVE  i = j
      BY DEF Distinct
    <3> DEFINE a == IF i < k THEN i ELSE i + 1
               b == IF j < k THEN j ELSE j + 1
    <3>1. a \in DOMAIN q /\ b \in DOMAIN q /\ q[a] = r[i] /\ q[b] = r[j]
      BY <2>2, <2>6, <2>7
    <3>2. a = b
      BY <3>1 DEF Distinct
    <3> QED BY <3>2, <2>2, <2>7
  <2>9. ASSUME NEW m PROVE Linked(r, m) <=> Linked(q, m) /\ m # n
    <3>1. ASSUME NEW i \in DOMAIN r, r[i] = m PROVE Linked(q, m) /\ m # n
      <4> DEFINE j == IF i < k THEN i ELSE i + 1
      <4>1. j \in DOMAIN q /\ q[j] = m /\ j # k
        BY <3>1, <2>2, <2>6, <2>7
      <4> QED BY <4>1, <2>1 DEF Linked, Distinct
    <3>2. ASSUME NEW i \in DOMAIN q, q[i] = m, m # n PROVE Linked(r, m)
      <4> DEFINE j == IF i < k THEN i ELSE i - 1
      <4>1. j \in DOMAIN r /\ r[j] = m
        BY <3>2, <2>1, <2>2, <2>6, <2>7
      <4> QED BY <4>1 DEF Linked
    <3> QED BY <3>1, <3>2 DEF Linked
  <2> QED BY <2>5, <2>8, <2>9 DEF r
<1> QED BY <1>1, <1>2

\* A non-empty set of natural numbers has a least element.
LEMMA LeastElement ==
  ASSUME NEW S \in SUBSET Nat, S # {}
  PROVE  \E n \in S : \A m \in S : n <= m
<1> DEFINE Less == OpToRel(<, Nat)
<1>1. \E n \in S : \A m \in S : ~ (<<m, n>> \in Less)
  <2>1. IsWellFoundedOn(Less, Nat)
    BY NatLessThanWellFounded
  <2> HIDE DEF Less
  <2> QED BY <2>1, WFMin
<1>2. Less = {xy \in Nat \X Nat : xy[1] < xy[2]}
  BY DEF OpToRel
<1> HIDE DEF Less
<1>3. ASSUME NEW n \in S, NEW m \in S, ~ (<<m, n>> \in Less) PROVE n <= m
  BY <1>2, <1>3
<1> QED BY <1>1, <1>3

-----------------------------------------------------------------------------
(* Lemmas on the scheduler's lists: what each operation on them does to    *)
(* SchedOK, the agreement of the lists with the descriptors' states and    *)
(* priorities.  U is always a set of slots that no list need hold.         *)

\* The states of a descriptor fall into the queued and the dead ones.
LEMMA StatesFacts ==
  /\ "READY" \in QueuedStates /\ "ACTIVE" \in QueuedStates
  /\ "ZOMBIE" \in QueuedStates /\ "EVENT_BLOCKED" \in QueuedStates
  /\ "SEND_BLOCKED" \in QueuedStates /\ "RECEIVE_BLOCKED" \in QueuedStates
  /\ "REPLY_BLOCKED" \in QueuedStates
  /\ "FREE" \in DeadStates /\ "DESTROYED" \in DeadStates
  /\ QueuedStates \subseteq TaskStates /\ DeadStates \subseteq TaskStates
  /\ AliveStates \subseteq QueuedStates
  /\ \A st \in TaskStates : st \in QueuedStates <=> st \notin DeadStates
BY DEF QueuedStates, DeadStates, TaskStates, AliveStates

\* Linking a slot that is in no list.
LEMMA EnqueueTaskOK ==
  ASSUME NEW sc \in SchedTypes, NEW U, NEW s \in Slots, s \in U,
         sc.state[s] \in QueuedStates, SchedOK(sc, U)
  PROVE  /\ EnqueueTask(sc, s) \in SchedTypes
         /\ SchedOK(EnqueueTask(sc, s), U \ {s})
         /\ EnqueueTask(sc, s).state = sc.state
         /\ EnqueueTask(sc, s).priority = sc.priority
<1> DEFINE r == EnqueueTask(sc, s)
           x == sc.state[s]
           y == sc.priority[s]
           q == sc.queue[x][y]
<1>1. /\ x \in QueuedStates /\ y \in Priorities
      /\ q \in Seq(Slots) /\ Distinct(q) /\ ~ Linked(q, s)
  BY DEF SchedTypes, SchedOK
<1>2. /\ EnqueueQueue(q, s) \in Seq(Slots) /\ Distinct(EnqueueQueue(q, s))
      /\ \A m : Linked(EnqueueQueue(q, s), m) <=> Linked(q, m) \/ m = s
  <2> HIDE DEF x, y, q
  <2>1. q \in Seq(Slots) /\ Distinct(q) /\ ~ Linked(q, s)
    BY <1>1
  <2> QED BY <2>1, EnqueueProperties, SMTT(30)
<1>3. r = [sc EXCEPT !.queue = [sc.queue EXCEPT ![x] =
                                  [sc.queue[x] EXCEPT ![y] = EnqueueQueue(q, s)]]]
  BY DEF EnqueueTask
<1>4. /\ r.state = sc.state /\ r.priority = sc.priority
      /\ r.queue = [sc.queue EXCEPT ![x] =
                      [sc.queue[x] EXCEPT ![y] = EnqueueQueue(q, s)]]
      /\ r = [sc EXCEPT !.queue = r.queue]
  <2> HIDE DEF x, y, q
  <2> QED BY <1>3 DEF SchedTypes
<1>5. /\ r.queue \in [QueuedStates -> [Priorities -> Seq(Slots)]]
      /\ \A st \in QueuedStates, p \in Priorities :
           r.queue[st][p] = IF st = x /\ p = y THEN EnqueueQueue(q, s)
                            ELSE sc.queue[st][p]
  <2> HIDE DEF x, y, q, r
  <2>1. sc.queue \in [QueuedStates -> [Priorities -> Seq(Slots)]]
    BY DEF SchedTypes
  <2> QED BY <2>1, <1>1, <1>2, <1>4
<1>6. r \in SchedTypes
  <2> HIDE DEF x, y, q, r
  <2> QED BY <1>4, <1>5 DEF SchedTypes
<1> HIDE DEF r
<1>7. SchedOK(r, U \ {s})
  <2> SUFFICES ASSUME NEW st \in QueuedStates, NEW p \in Priorities
               PROVE  /\ Distinct(r.queue[st][p])
                      /\ \A m \in Slots : Linked(r.queue[st][p], m) <=>
                           /\ m \notin U \ {s}
                           /\ r.state[m] = st /\ r.priority[m] = p
    BY DEF SchedOK
  <2>1. /\ Distinct(sc.queue[st][p])
        /\ \A m \in Slots : Linked(sc.queue[st][p], m) <=>
             m \notin U /\ sc.state[m] = st /\ sc.priority[m] = p
    BY DEF SchedOK
  <2>2. CASE st = x /\ p = y
    <3>1. r.queue[st][p] = EnqueueQueue(q, s) /\ q = sc.queue[st][p]
      BY <2>2, <1>5
    <3>2. r.state[s] = st /\ r.priority[s] = p
      BY <2>2, <1>4
    <3> HIDE DEF q, x, y
    <3>3. Distinct(r.queue[st][p])
      BY <3>1, <1>2
    <3>4. ASSUME NEW m \in Slots
          PROVE  Linked(r.queue[st][p], m) <=>
                   m \notin U \ {s} /\ r.state[m] = st /\ r.priority[m] = p
      <4>1. Linked(r.queue[st][p], m) <=> Linked(sc.queue[st][p], m) \/ m = s
        BY <3>1, <1>2
      <4>2. CASE m = s
        BY <4>1, <4>2, <3>2
      <4>3. CASE m # s
        BY <4>1, <4>3, <2>1, <1>4
      <4> QED BY <4>2, <4>3
    <3> QED BY <3>3, <3>4
  <2>3. CASE ~ (st = x /\ p = y)
    <3>1. r.queue[st][p] = sc.queue[st][p]
      BY <2>3, <1>5
    <3> QED BY <3>1, <2>1, <2>3, <1>4
  <2> QED BY <2>2, <2>3
<1> QED BY <1>4, <1>6, <1>7 DEF r

\* Unlinking a slot, whether a list holds it or not.
LEMMA RemoveTaskOK ==
  ASSUME NEW sc \in SchedTypes, NEW U, NEW s \in Slots,
         sc.state[s] \in QueuedStates, SchedOK(sc, U)
  PROVE  /\ RemoveTask(sc, s) \in SchedTypes
         /\ SchedOK(RemoveTask(sc, s), U \cup {s})
         /\ RemoveTask(sc, s).state = sc.state
         /\ RemoveTask(sc, s).priority = sc.priority
<1> DEFINE r == RemoveTask(sc, s)
           x == sc.state[s]
           y == sc.priority[s]
           q == sc.queue[x][y]
<1>1. /\ x \in QueuedStates /\ y \in Priorities
      /\ q \in Seq(Slots) /\ Distinct(q)
  BY DEF SchedTypes, SchedOK
<1>2. /\ RemoveQueueNode(q, s) \in Seq(Slots) /\ Distinct(RemoveQueueNode(q, s))
      /\ \A m : Linked(RemoveQueueNode(q, s), m) <=> Linked(q, m) /\ m # s
  <2> HIDE DEF x, y, q
  <2>1. q \in Seq(Slots) /\ Distinct(q)
    BY <1>1
  <2> QED BY <2>1, RemoveProperties, SMTT(30)
<1>3. r = [sc EXCEPT !.queue = [sc.queue EXCEPT ![x] =
                                  [sc.queue[x] EXCEPT ![y] = RemoveQueueNode(q, s)]]]
  BY DEF RemoveTask
<1>4. /\ r.state = sc.state /\ r.priority = sc.priority
      /\ r.queue = [sc.queue EXCEPT ![x] =
                      [sc.queue[x] EXCEPT ![y] = RemoveQueueNode(q, s)]]
      /\ r = [sc EXCEPT !.queue = r.queue]
  <2> HIDE DEF x, y, q
  <2> QED BY <1>3 DEF SchedTypes
<1>5. /\ r.queue \in [QueuedStates -> [Priorities -> Seq(Slots)]]
      /\ \A st \in QueuedStates, p \in Priorities :
           r.queue[st][p] = IF st = x /\ p = y THEN RemoveQueueNode(q, s)
                            ELSE sc.queue[st][p]
  <2> HIDE DEF x, y, q, r
  <2>1. sc.queue \in [QueuedStates -> [Priorities -> Seq(Slots)]]
    BY DEF SchedTypes
  <2> QED BY <2>1, <1>1, <1>2, <1>4
<1>6. r \in SchedTypes
  <2> HIDE DEF x, y, q, r
  <2> QED BY <1>4, <1>5 DEF SchedTypes
<1> HIDE DEF r
<1>7. SchedOK(r, U \cup {s})
  <2> SUFFICES ASSUME NEW st \in QueuedStates, NEW p \in Priorities
               PROVE  /\ Distinct(r.queue[st][p])
                      /\ \A m \in Slots : Linked(r.queue[st][p], m) <=>
                           /\ m \notin U \cup {s}
                           /\ r.state[m] = st /\ r.priority[m] = p
    BY DEF SchedOK
  <2>1. /\ Distinct(sc.queue[st][p])
        /\ \A m \in Slots : Linked(sc.queue[st][p], m) <=>
             m \notin U /\ sc.state[m] = st /\ sc.priority[m] = p
    BY DEF SchedOK
  <2>2. CASE st = x /\ p = y
    <3>1. r.queue[st][p] = RemoveQueueNode(q, s) /\ q = sc.queue[st][p]
      BY <2>2, <1>5
    <3> HIDE DEF q
    <3> QED BY <3>1, <2>1, <2>2, <1>2, <1>4
  <2>3. CASE ~ (st = x /\ p = y)
    <3>1. r.queue[st][p] = sc.queue[st][p]
      BY <2>3, <1>5
    <3> QED BY <3>1, <2>1, <2>3, <1>4
  <2> QED BY <2>2, <2>3
<1> QED BY <1>4, <1>6, <1>7 DEF r

\* The state and the priority of a slot in no list may change at will.
LEMMA RestateOK ==
  ASSUME NEW sc \in SchedTypes, NEW U, NEW s \in Slots, s \in U,
         NEW to \in TaskStates, SchedOK(sc, U)
  PROVE  /\ [sc EXCEPT !.state[s] = to] \in SchedTypes
         /\ SchedOK([sc EXCEPT !.state[s] = to], U)
<1> DEFINE r == [sc EXCEPT !.state[s] = to]
<1>1. /\ r.queue = sc.queue /\ r.priority = sc.priority
      /\ r.state = [sc.state EXCEPT ![s] = to]
      /\ r \in SchedTypes
  BY DEF SchedTypes
<1>2. \A m \in Slots : m \notin U => r.state[m] = sc.state[m]
  BY <1>1 DEF SchedTypes
<1> HIDE DEF r
<1>3. SchedOK(r, U)
  BY <1>1, <1>2 DEF SchedOK
<1> QED BY <1>1, <1>3 DEF r

\* The priority of a slot in no list may change: no list is disturbed.
LEMMA ReprioritiseOK ==
  ASSUME NEW sc \in SchedTypes, NEW U, NEW s \in Slots, s \in U,
         NEW p \in Priorities, SchedOK(sc, U)
  PROVE  /\ [sc EXCEPT !.priority[s] = p] \in SchedTypes
         /\ SchedOK([sc EXCEPT !.priority[s] = p], U)
<1> DEFINE r == [sc EXCEPT !.priority[s] = p]
<1>1. /\ r.queue = sc.queue /\ r.state = sc.state
      /\ r.priority = [sc.priority EXCEPT ![s] = p]
      /\ r \in SchedTypes
  BY DEF SchedTypes
<1>2. \A m \in Slots : m \notin U => r.priority[m] = sc.priority[m]
  BY <1>1 DEF SchedTypes
<1> HIDE DEF r
<1>3. SchedOK(r, U)
  BY <1>1, <1>2 DEF SchedOK
<1> QED BY <1>1, <1>3 DEF r

\* A dead task is in no list.
LEMMA DeadOK ==
  ASSUME NEW sc \in SchedTypes, NEW U, NEW s \in Slots,
         sc.state[s] \in DeadStates
  PROVE  SchedOK(sc, U) <=> SchedOK(sc, U \cup {s})
BY StatesFacts DEF SchedOK

\* SetTaskState keeps the lists consistent, for the running task and for any
\* other, as long as it is not applied to a dead one.
LEMMA SetTaskStateOK ==
  ASSUME NEW sc \in SchedTypes, NEW t, SlotOf(t) \in Slots,
         NEW to \in TaskStates,
         tid[SlotOf(t)] = t => sc.state[SlotOf(t)] \in QueuedStates,
         SchedOK(sc, {current})
  PROVE  /\ SetTaskState(sc, t, to) \in SchedTypes
         /\ SchedOK(SetTaskState(sc, t, to), {current})
         /\ SetTaskState(sc, t, to).priority = sc.priority
         /\ SetTaskState(sc, t, to).state =
              IF tid[SlotOf(t)] = t THEN [sc.state EXCEPT ![SlotOf(t)] = to]
              ELSE sc.state
<1> DEFINE s == SlotOf(t)
           U == {current} \cup {s}
           removed == RemoveTask(sc, s)
           moved == [removed EXCEPT !.state[s] = to]
<1>1. CASE tid[s] # t
  BY <1>1 DEF SetTaskState
<1>2. CASE tid[s] = t
  <2>1. /\ removed \in SchedTypes /\ SchedOK(removed, U)
        /\ removed.state = sc.state /\ removed.priority = sc.priority
    BY <1>2, RemoveTaskOK
  <2> HIDE DEF removed
  <2>2. /\ moved \in SchedTypes /\ SchedOK(moved, U)
    BY <2>1, RestateOK
  <2>3. /\ moved.state = [sc.state EXCEPT ![s] = to]
        /\ moved.priority = sc.priority
        /\ moved.state[s] = to
    BY <2>1 DEF SchedTypes
  <2> HIDE DEF moved
  <2>4. CASE s # current /\ to \in QueuedStates
    <3>1. U \ {s} = {current}
      BY <2>4
    <3>2. SetTaskState(sc, t, to) = EnqueueTask(moved, s)
      BY <1>2, <2>4 DEF SetTaskState, moved, removed
    <3>3. s \in U /\ moved.state[s] \in QueuedStates
      BY <2>3, <2>4
    <3>4. /\ EnqueueTask(moved, s) \in SchedTypes
          /\ SchedOK(EnqueueTask(moved, s), U \ {s})
          /\ EnqueueTask(moved, s).state = moved.state
          /\ EnqueueTask(moved, s).priority = moved.priority
      BY <3>3, <2>2, EnqueueTaskOK
    <3> QED BY <3>1, <3>2, <3>4, <2>3, <1>2
  <2>5. CASE ~ (s # current /\ to \in QueuedStates)
    <3>1. SetTaskState(sc, t, to) = moved
      BY <1>2, <2>5 DEF SetTaskState, moved, removed
    <3>2. SchedOK(moved, {current})
      <4>1. CASE s = current
        BY <4>1, <2>2
      <4>2. CASE to \notin QueuedStates
        BY <4>2, <2>2, <2>3, DeadOK, StatesFacts
      <4> QED BY <4>1, <4>2, <2>5
    <3> QED BY <3>1, <3>2, <2>2, <2>3, <1>2
  <2> QED BY <2>4, <2>5
<1> QED BY <1>1, <1>2

\* The scheduler finds a best priority whenever some task is READY.
LEMMA BestOK ==
  ASSUME NEW sc, ReadyPriorities(sc) # {}
  PROVE  /\ Best(sc) \in Priorities
         /\ sc.queue["READY"][Best(sc)] # <<>>
         /\ \A p \in Priorities : sc.queue["READY"][p] # <<>> => Best(sc) <= p
<1>1. NULL_PRIORITY \in Nat
  BY TasksAssumption
<1>2. ReadyPriorities(sc) \in SUBSET Nat
  BY <1>1 DEF ReadyPriorities, Priorities, HIGHEST_PRIORITY
<1>3. \E p \in ReadyPriorities(sc) : \A q \in ReadyPriorities(sc) : p <= q
  BY <1>2, LeastElement
<1>4. /\ Best(sc) \in ReadyPriorities(sc)
      /\ \A q \in ReadyPriorities(sc) : Best(sc) <= q
  BY <1>3 DEF Best
<1> HIDE DEF Best
<1> QED BY <1>4 DEF ReadyPriorities

\* Taking the best READY task: it was in its list and is now in none.
LEMMA ActivateNextOK ==
  ASSUME NEW sc \in SchedTypes, NEW U, SchedOK(sc, U),
         ReadyPriorities(sc) # {},
         NEW s, s = Head(sc.queue["READY"][Best(sc)])
  PROVE  /\ s \in Slots /\ s \notin U /\ sc.state[s] = "READY"
         /\ \A m \in Slots \ U : sc.state[m] = "READY" =>
              sc.priority[s] <= sc.priority[m]
         /\ ActivateNext(sc) \in SchedTypes
         /\ SchedOK(ActivateNext(sc), U \cup {s})
         /\ ActivateNext(sc).state = [sc.state EXCEPT ![s] = "ACTIVE"]
         /\ ActivateNext(sc).priority = sc.priority
<1> DEFINE x == "READY"
           y == Best(sc)
           q == sc.queue[x][y]
           r == [sc EXCEPT !.queue = [sc.queue EXCEPT ![x] =
                             [sc.queue[x] EXCEPT ![y] = DequeueQueue(q)]]]
<1>1. /\ y \in Priorities /\ q # <<>> /\ x \in QueuedStates
      /\ \A p \in Priorities : sc.queue[x][p] # <<>> => y <= p
  BY BestOK, StatesFacts
<1> HIDE DEF y
<1>2. /\ q \in Seq(Slots) /\ Distinct(q)
      /\ \A m \in Slots : Linked(q, m) <=>
           m \notin U /\ sc.state[m] = x /\ sc.priority[m] = y
  BY <1>1 DEF SchedTypes, SchedOK
<1>3. /\ DequeueQueue(q) \in Seq(Slots) /\ Distinct(DequeueQueue(q))
      /\ s \in Slots /\ Linked(q, s)
      /\ \A m : Linked(DequeueQueue(q), m) <=> Linked(q, m) /\ m # s
  <2>1. s = Head(q)
    BY DEF y
  <2> HIDE DEF q, x
  <2> QED BY <2>1, <1>1, <1>2, DequeueProperties
<1>4. s \notin U /\ sc.state[s] = "READY" /\ sc.priority[s] = y
  BY <1>2, <1>3
<1>5. ASSUME NEW m \in Slots \ U, sc.state[m] = "READY"
      PROVE  sc.priority[s] <= sc.priority[m]
  <2>1. sc.priority[m] \in Priorities
    BY DEF SchedTypes
  <2>2. Linked(sc.queue[x][sc.priority[m]], m)
    BY <1>1, <1>5, <2>1 DEF SchedOK
  <2>3. sc.queue[x][sc.priority[m]] # <<>>
    BY <2>2 DEF Linked
  <2> QED BY <2>1, <2>3, <1>1, <1>4
<1>6. /\ r.state = sc.state /\ r.priority = sc.priority
      /\ r.queue = [sc.queue EXCEPT ![x] =
                      [sc.queue[x] EXCEPT ![y] = DequeueQueue(q)]]
      /\ r = [sc EXCEPT !.queue = r.queue]
  <2> HIDE DEF x, q
  <2> QED BY DEF SchedTypes
<1>7. ActivateNext(sc) = [r EXCEPT !.state[s] = "ACTIVE"]
  BY DEF ActivateNext, SchedTypes, y
<1>8. /\ r.queue \in [QueuedStates -> [Priorities -> Seq(Slots)]]
      /\ \A st \in QueuedStates, p \in Priorities :
           r.queue[st][p] = IF st = x /\ p = y THEN DequeueQueue(q)
                            ELSE sc.queue[st][p]
  <2> HIDE DEF x, q, r
  <2>1. sc.queue \in [QueuedStates -> [Priorities -> Seq(Slots)]]
    BY DEF SchedTypes
  <2> QED BY <2>1, <1>1, <1>3, <1>6
<1>9. r \in SchedTypes
  <2> HIDE DEF x, q, r
  <2> QED BY <1>6, <1>8 DEF SchedTypes
<1> HIDE DEF r
<1>10. SchedOK(r, U \cup {s})
  <2> SUFFICES ASSUME NEW st \in QueuedStates, NEW p \in Priorities
               PROVE  /\ Distinct(r.queue[st][p])
                      /\ \A m \in Slots : Linked(r.queue[st][p], m) <=>
                           /\ m \notin U \cup {s}
                           /\ r.state[m] = st /\ r.priority[m] = p
    BY DEF SchedOK
  <2>1. /\ Distinct(sc.queue[st][p])
        /\ \A m \in Slots : Linked(sc.queue[st][p], m) <=>
             m \notin U /\ sc.state[m] = st /\ sc.priority[m] = p
    BY DEF SchedOK
  <2>2. CASE st = x /\ p = y
    <3>1. r.queue[st][p] = DequeueQueue(q) /\ q = sc.queue[st][p]
      BY <2>2, <1>8
    <3> HIDE DEF q
    <3> QED BY <3>1, <2>1, <2>2, <1>3, <1>6
  <2>3. CASE ~ (st = x /\ p = y)
    <3>1. r.queue[st][p] = sc.queue[st][p]
      BY <2>3, <1>8
    <3> QED BY <3>1, <2>1, <2>3, <1>4, <1>6
  <2> QED BY <2>2, <2>3
<1>11. s \in U \cup {s} /\ "ACTIVE" \in TaskStates
  BY StatesFacts
<1> DEFINE W == U \cup {s}
<1> HIDE DEF W
<1>12. /\ [r EXCEPT !.state[s] = "ACTIVE"] \in SchedTypes
       /\ SchedOK([r EXCEPT !.state[s] = "ACTIVE"], W)
  BY <1>3, <1>9, <1>10, <1>11, RestateOK DEF W
<1>13. /\ [r EXCEPT !.state[s] = "ACTIVE"].state = [sc.state EXCEPT ![s] = "ACTIVE"]
       /\ [r EXCEPT !.state[s] = "ACTIVE"].priority = sc.priority
  BY <1>6, <1>9 DEF SchedTypes
<1> QED BY <1>3, <1>4, <1>5, <1>7, <1>12, <1>13 DEF W

\* Of the tasks that await an event, the first in the queue of the best
\* priority is found.
LEMMA FirstWaiterOK ==
  ASSUME NEW i, sched \in SchedTypes, SchedOK(sched, {current}),
         ~ \A p \in Priorities : WaitersAt(i, p) = {}
  PROVE  /\ FirstWaiter(i) \in Slots
         /\ sched.state[FirstWaiter(i)] = "EVENT_BLOCKED"
         /\ awaiting[FirstWaiter(i)] = i
<1> DEFINE P == {p \in Priorities : WaitersAt(i, p) # {}}
<1>1. NULL_PRIORITY \in Nat
  BY TasksAssumption
<1>2. P \in SUBSET Nat /\ P # {}
  BY <1>1 DEF Priorities, HIGHEST_PRIORITY
<1>3. \E p \in P : \A q \in P : p <= q
  <2> HIDE DEF P
  <2> QED BY <1>2, LeastElement
<1> DEFINE p0 == CHOOSE p \in Priorities : /\ WaitersAt(i, p) # {}
                                          /\ \A q \in Priorities :
                                               WaitersAt(i, q) # {} => p <= q
           W == WaitersAt(i, p0)
           k0 == CHOOSE k \in W : \A j \in W : k <= j
           q0 == sched.queue["EVENT_BLOCKED"][p0]
<1>4. p0 \in Priorities /\ W # {}
  BY <1>3
<1>5. FirstWaiter(i) = q0[k0]
  BY DEF FirstWaiter
<1> HIDE DEF p0
<1>6. q0 \in Seq(Slots)
  BY <1>4, StatesFacts DEF SchedTypes
<1>7. W \in SUBSET Nat
  <2>1. DOMAIN q0 = 1 .. Len(q0) /\ Len(q0) \in Nat
    BY <1>6, LenProperties
  <2>2. W \subseteq DOMAIN q0
    BY DEF WaitersAt
  <2> HIDE DEF W, q0
  <2> QED BY <2>1, <2>2
<1>8. \E k \in W : \A j \in W : k <= j
  <2> HIDE DEF W
  <2> QED BY <1>4, <1>7, LeastElement
<1>9. k0 \in W
  BY <1>8
<1> HIDE DEF k0
<1>10. k0 \in DOMAIN q0 /\ awaiting[q0[k0]] = i
  BY <1>9 DEF WaitersAt
<1>11. q0[k0] \in Slots /\ Linked(q0, q0[k0])
  BY <1>6, <1>10 DEF Linked
<1>12. sched.state[q0[k0]] = "EVENT_BLOCKED"
  BY <1>4, <1>11, StatesFacts DEF SchedOK
<1> QED BY <1>5, <1>10, <1>11, <1>12

-----------------------------------------------------------------------------
(* The invariant.                                                          *)

\* A task in use has a tid that is not negative.
TidsValid ==
  Sound => \A s \in Slots : /\ tid[s] >= - MAX_TASKS
                            /\ ~ IsDead(s) => tid[s] >= 0

\* The family tree has no cycle: the tasks can be ranked, a child above its
\* parent, and the recursion of DestroyHandler climbs the ranks.
Ranks(rank) ==
  /\ \A s \in Slots : ~ IsDead(s) /\ parent[s] # -1 =>
       rank[SlotOf(parent[s])] < rank[s]
  /\ \A i, j \in DOMAIN dstack : i < j => rank[dstack[i]] < rank[dstack[j]]
Ranked == Sound => \E rank \in [Slots -> Nat] : Ranks(rank)

\* The tasks being destroyed are not destroyed yet.
Recursion ==
  Sound => \A s \in Slots : Linked(dstack, s) => ~ IsDead(s)

Modes ==
  Sound => /\ mode = "destroy" <=> dstack # <<>>
           /\ mode # "kernel" => current \in Slots
           /\ mode = "user" => sched.state[current] = "ACTIVE"

\* The node of a sender names its own slot and the slot it is queued for.
NodesNameSlots(nd, mq, st) ==
  \A s \in Slots :
    /\ Distinct(mq[s])
    /\ \A r \in Slots : Linked(mq[r], s) =>
         SlotOf(nd[s].to) = r /\ SlotOf(nd[s].from) = s
    /\ st[s] \in {"RECEIVE_BLOCKED", "REPLY_BLOCKED"} =>
         SlotOf(nd[s].from) = s
NodeSlots == Sound => NodesNameSlots(nodes, msgq, sched.state)

\* The part of the invariant that speaks of which tasks exist.
Existence ==
  /\ FreeListConsistent
  /\ TidsInRange
  /\ TidsValid
  /\ FamilyTree
  /\ Ranked
  /\ Recursion

IInv ==
  /\ TypeOK
  /\ SchedulerConsistent
  /\ Existence
  /\ Modes
  /\ NodeSlots

-----------------------------------------------------------------------------
\* SlotOf is a remainder: the tids of one slot are MAX_TASKS apart.
LEMMA SlotFacts ==
  /\ \A t \in Int : SlotOf(t) \in Slots
  /\ \A t \in Int : SlotOf(t + MAX_TASKS) = SlotOf(t)
  /\ \A s \in Slots : SlotOf(s) = s /\ SlotOf(s - MAX_TASKS) = s
<1>1. MAX_TASKS \in Nat /\ MAX_TASKS >= 2
  BY TasksAssumption
<1>2. ASSUME NEW t \in Int PROVE SlotOf(t) \in Slots
  BY <1>1 DEF SlotOf, Slots
<1>3. ASSUME NEW t \in Int PROVE SlotOf(t + MAX_TASKS) = SlotOf(t)
  <2> DEFINE q1 == t \div MAX_TASKS
             r1 == t % MAX_TASKS
             q2 == (t + MAX_TASKS) \div MAX_TASKS
             r2 == (t + MAX_TASKS) % MAX_TASKS
             d == q2 - q1 - 1
  <2>1. /\ q1 \in Int /\ r1 \in 0 .. MAX_TASKS - 1 /\ q2 \in Int
        /\ r2 \in 0 .. MAX_TASKS - 1
        /\ t = MAX_TASKS * q1 + r1 /\ t + MAX_TASKS = MAX_TASKS * q2 + r2
    BY <1>1
  <2> HIDE DEF q1, r1, q2, r2
  <2>2. MAX_TASKS * d = r1 - r2
    BY <1>1, <2>1
  <2>3. d \in Int
    BY <2>1
  <2> HIDE DEF d
  <2>4. d = 0
    <3>1. CASE d >= 1
      <4>1. MAX_TASKS * d >= MAX_TASKS
        BY <3>1, <2>3, <1>1
      <4> QED BY <4>1, <2>1, <2>2, <1>1
    <3>2. CASE d <= -1
      <4>1. MAX_TASKS * d <= - MAX_TASKS
        BY <3>2, <2>3, <1>1
      <4> QED BY <4>1, <2>1, <2>2, <1>1
    <3> QED BY <3>1, <3>2, <2>3
  <2> QED BY <2>1, <2>2, <2>4, <1>1 DEF SlotOf, r1, r2
<1>4. ASSUME NEW s \in Slots PROVE SlotOf(s) = s
  BY <1>1 DEF SlotOf, Slots
<1>5. ASSUME NEW s \in Slots PROVE SlotOf(s - MAX_TASKS) = s
  <2>1. SlotOf(s - MAX_TASKS + MAX_TASKS) = SlotOf(s - MAX_TASKS)
    BY <1>1, <1>3 DEF Slots
  <2>2. s - MAX_TASKS + MAX_TASKS = s
    BY <1>1 DEF Slots
  <2> QED BY <2>1, <2>2, <1>4
<1> QED BY <1>2, <1>3, <1>4, <1>5

\* The facts about the constants that the provers need often.
LEMMA ConstantFacts ==
  /\ MAX_TASKS \in Nat /\ MAX_TASKS >= 2 /\ NULL_PRIORITY \in Nat
  /\ LONG_MAX \in Nat /\ LONG_MAX >= MAX_TASKS
  /\ NoTask \notin Slots
  /\ 0 \in Slots /\ 1 \in Slots
  /\ \A p \in Priorities : ~ IsValidPriority(p)
BY TasksAssumption DEF NoTask, Slots, Priorities, HIGHEST_PRIORITY,
   LOW_PRIORITY, IsValidPriority

\* A handler that creates and destroys nobody preserves Existence.
LEMMA ExistenceFrame ==
  ASSUME Existence, Sound, sched \in SchedTypes, sched' \in SchedTypes,
         parent \in [Slots -> Int],
         UNCHANGED <<tid, parent, children, avail, dstack>>,
         \A s \in Slots : \/ sched'.state[s] = sched.state[s]
                          \/ /\ sched.state[s] \in QueuedStates
                             /\ sched'.state[s] \in QueuedStates
  PROVE  Existence'
<1>1. \A s \in Slots :
        /\ IsDead(s)' <=> IsDead(s)
        /\ sched'.state[s] = "FREE" <=> sched.state[s] = "FREE"
  BY StatesFacts DEF IsDead, SchedTypes
<1>2. FreeListConsistent'
  BY <1>1 DEF Existence, FreeListConsistent
<1>3. TidsInRange'
  BY <1>1 DEF Existence, TidsInRange
<1>4. TidsValid'
  BY <1>1 DEF Existence, TidsValid
<1>5. FamilyTree'
  <2> SUFFICES ASSUME NEW s \in Slots
               PROVE  /\ Distinct(children[s])
                      /\ \A c \in Slots : Linked(children[s], c) <=>
                           /\ ~ IsDead(c)'
                           /\ parent[c] = tid[s] /\ parent[c] # -1
                           /\ ~ Linked(dstack, c)
                      /\ ~ IsDead(s)' /\ parent[s] # -1 =>
                           /\ tid[SlotOf(parent[s])] = parent[s]
                           /\ ~ IsDead(SlotOf(parent[s]))'
    BY DEF FamilyTree
  <2> QED BY <1>1, SlotFacts DEF Existence, FamilyTree
<1>6. Ranked'
  <2>1. PICK rank \in [Slots -> Nat] : Ranks(rank)
    BY DEF Existence, Ranked
  <2>2. Ranks(rank)'
    BY <1>1, <2>1 DEF Ranks
  <2> QED BY <2>2 DEF Ranked
<1>7. Recursion'
  BY <1>1 DEF Existence, Recursion
<1> QED BY <1>2, <1>3, <1>4, <1>5, <1>6, <1>7 DEF Existence

\* Damage is recorded and nothing else.
LEMMA DamageOK ==
  ASSUME IInv, NEW how \in Damages, how # NotCorrupt, Damage(how),
         UNCHANGED <<nodes, msgq>>
  PROVE  IInv'
<1>1. ~ Sound'
  BY DEF Damage, Sound
<1>2. TypeOK'
  BY DEF IInv, TypeOK, TasksTypeOK, CommTypeOK, Damage
<1> QED BY <1>1, <1>2 DEF IInv, SchedulerConsistent, Existence, Modes,
      NodeSlots, FreeListConsistent, TidsInRange, TidsValid, FamilyTree, Ranked,
      Recursion

\* A handler that only answers its caller.
LEMMA AnswersOK ==
  ASSUME IInv, Sound, mode = "user", NEW call, NEW arg, NEW value,
         Answers(call, arg, value), UNCHANGED <<nodes, msgq>>
  PROVE  IInv'
<1>1. /\ UNCHANGED <<sched, tid, parent, children, awaiting, avail, num_tasks,
                     current, enabled, dstack, corrupt, nodes, msgq>>
      /\ mode' = "kernel"
  BY DEF Answers, Returns
<1>2. TypeOK'
  BY <1>1 DEF IInv, TypeOK, TasksTypeOK, CommTypeOK
<1>3. SchedulerConsistent'
  BY <1>1 DEF IInv, SchedulerConsistent, Sound, SchedOK
<1>4. Existence'
  BY <1>1, ExistenceFrame DEF IInv, TypeOK, TasksTypeOK
<1>5. Modes'
  BY <1>1 DEF IInv, Modes, Sound
<1>6. NodeSlots'
  BY <1>1 DEF IInv, NodeSlots, Sound, NodesNameSlots
<1> QED BY <1>2, <1>3, <1>4, <1>5, <1>6 DEF IInv

-----------------------------------------------------------------------------
\* A handler called in user mode that creates and destroys nobody.
LEMMA HandlerOK ==
  ASSUME IInv, Sound, mode = "user", mode' = "kernel",
         UNCHANGED <<tid, parent, children, avail, dstack, current, corrupt>>,
         sched' \in SchedTypes, SchedOK(sched', {current}),
         awaiting' \in [Slots -> Interrupts \cup {NoInterrupt}],
         num_tasks' \in Int, enabled' \in SUBSET Interrupts,
         CommTypeOK', NodesNameSlots(nodes', msgq', sched'.state),
         \A s \in Slots : \/ sched'.state[s] = sched.state[s]
                          \/ /\ sched.state[s] \in QueuedStates
                             /\ sched'.state[s] \in QueuedStates
  PROVE  IInv'
<1>1. TypeOK'
  BY DEF IInv, TypeOK, TasksTypeOK
<1>2. SchedulerConsistent'
  BY DEF IInv, SchedulerConsistent
<1>3. Existence'
  BY ExistenceFrame DEF IInv, TypeOK, TasksTypeOK
<1>4. Modes'
  BY DEF IInv, Modes, Sound
<1>5. NodeSlots'
  BY DEF NodeSlots
<1> QED BY <1>1, <1>2, <1>3, <1>4, <1>5 DEF IInv

\* The nodes stay as they should when nobody newly waits for a message.
LEMMA NodesFrame ==
  ASSUME NEW nd, NEW mq, NEW st, NEW to, NodesNameSlots(nd, mq, st),
         \A s \in Slots : to[s] \in {"RECEIVE_BLOCKED", "REPLY_BLOCKED"} =>
                            st[s] \in {"RECEIVE_BLOCKED", "REPLY_BLOCKED"}
  PROVE  NodesNameSlots(nd, mq, to)
BY DEF NodesNameSlots

\* In user mode somebody runs.
LEMMA UserFacts ==
  ASSUME IInv, Sound, mode = "user"
  PROVE  /\ current \in Slots /\ sched.state[current] = "ACTIVE"
         /\ dstack = <<>>
         /\ sched \in SchedTypes /\ SchedOK(sched, {current})
         /\ tid[current] \in Int /\ tid[current] >= 0
         /\ SlotOf(tid[current]) = current
<1>1. current \in Slots /\ sched.state[current] = "ACTIVE" /\ dstack = <<>>
  BY DEF IInv, Modes
<1>2. sched \in SchedTypes /\ tid[current] \in Int
  BY <1>1 DEF IInv, TypeOK, TasksTypeOK
<1>3. SchedOK(sched, {current})
  BY DEF IInv, SchedulerConsistent
<1>4. ~ IsDead(current)
  BY <1>1 DEF IsDead, DeadStates
<1>5. tid[current] >= 0 /\ SlotOf(tid[current]) = current
  BY <1>1, <1>4 DEF IInv, Existence, TidsValid, TidsInRange
<1> QED BY <1>1, <1>2, <1>3, <1>5

\* The running task changes its own state, to one in which it waits for
\* nobody's message.
LEMMA SetCurrentOK ==
  ASSUME IInv, Sound, mode = "user", NEW to \in QueuedStates
  PROVE  /\ SetCurrentTaskState(sched, to) \in SchedTypes
         /\ SchedOK(SetCurrentTaskState(sched, to), {current})
         /\ SetCurrentTaskState(sched, to).state =
              [sched.state EXCEPT ![current] = to]
         /\ \A s \in Slots :
              \/ SetCurrentTaskState(sched, to).state[s] = sched.state[s]
              \/ /\ sched.state[s] \in QueuedStates
                 /\ SetCurrentTaskState(sched, to).state[s] \in QueuedStates
<1>1. current \in Slots /\ sched.state[current] = "ACTIVE"
      /\ sched \in SchedTypes /\ SchedOK(sched, {current})
  BY UserFacts
<1>2. to \in TaskStates /\ "ACTIVE" \in QueuedStates
  BY StatesFacts
<1> DEFINE r == [sched EXCEPT !.state[current] = to]
<1>3. /\ r \in SchedTypes /\ SchedOK(r, {current})
  BY <1>1, <1>2, RestateOK
<1>4. r.state = [sched.state EXCEPT ![current] = to]
  BY <1>1 DEF SchedTypes
<1>5. \A s \in Slots : \/ r.state[s] = sched.state[s]
                       \/ /\ sched.state[s] \in QueuedStates
                          /\ r.state[s] \in QueuedStates
  <2> HIDE DEF r
  <2> QED BY <1>1, <1>2, <1>4 DEF SchedTypes
<1> QED BY <1>3, <1>4, <1>5 DEF SetCurrentTaskState

-----------------------------------------------------------------------------
\* ExitTask: the caller becomes a ZOMBIE, its lists and its tid are kept.
LEMMA ExitOK ==
  ASSUME IInv, Sound, mode = "user", ExitTask, UNCHANGED <<nodes, msgq>>
  PROVE  IInv'
<1>1. /\ sched' = SetCurrentTaskState(sched, "ZOMBIE")
      /\ num_tasks' = num_tasks - 1 /\ mode' = "kernel"
      /\ UNCHANGED <<tid, parent, children, awaiting, avail, current, enabled,
                     dstack, corrupt, nodes, msgq>>
  BY DEF ExitTask, Returns, descVars
<1>2. "ZOMBIE" \in QueuedStates
  BY StatesFacts
<1> DEFINE r == SetCurrentTaskState(sched, "ZOMBIE")
<1>3. /\ r \in SchedTypes /\ SchedOK(r, {current})
      /\ r.state = [sched.state EXCEPT ![current] = "ZOMBIE"]
      /\ \A s \in Slots : \/ r.state[s] = sched.state[s]
                          \/ /\ sched.state[s] \in QueuedStates
                             /\ r.state[s] \in QueuedStates
  BY <1>2, SetCurrentOK
<1> HIDE DEF r
<1>4. sched \in SchedTypes /\ current \in Slots /\ NodesNameSlots(nodes, msgq, sched.state)
  BY UserFacts DEF IInv, NodeSlots
<1>5. NodesNameSlots(nodes, msgq, r.state)
  BY <1>3, <1>4, NodesFrame DEF SchedTypes
<1>6. TypeOK
  BY DEF IInv
<1> QED BY <1>1, <1>3, <1>5, <1>6, HandlerOK DEF TypeOK, TasksTypeOK, CommTypeOK, r

\* AwaitEventHandler: the caller is blocked and stays out of every list.
LEMMA AwaitEventOK ==
  ASSUME IInv, Sound, mode = "user", NEW i \in Interrupts, AwaitEventHandler(i),
         UNCHANGED <<nodes, msgq>>
  PROVE  IInv'
<1>1. /\ sched' = SetCurrentTaskState(sched, "EVENT_BLOCKED")
      /\ awaiting' = [awaiting EXCEPT ![current] = i]
      /\ enabled' = enabled \cup {i} /\ mode' = "kernel"
      /\ UNCHANGED <<tid, parent, children, avail, num_tasks, current, dstack,
                     corrupt, nodes, msgq>>
  BY DEF AwaitEventHandler, EnableInterrupt, Returns, descVars
<1>2. "EVENT_BLOCKED" \in QueuedStates
  BY StatesFacts
<1> DEFINE r == SetCurrentTaskState(sched, "EVENT_BLOCKED")
<1>3. /\ r \in SchedTypes /\ SchedOK(r, {current})
      /\ r.state = [sched.state EXCEPT ![current] = "EVENT_BLOCKED"]
      /\ \A s \in Slots : \/ r.state[s] = sched.state[s]
                          \/ /\ sched.state[s] \in QueuedStates
                             /\ r.state[s] \in QueuedStates
  BY <1>2, SetCurrentOK
<1> HIDE DEF r
<1>4. sched \in SchedTypes /\ current \in Slots /\ NodesNameSlots(nodes, msgq, sched.state)
  BY UserFacts DEF IInv, NodeSlots
<1>5. NodesNameSlots(nodes, msgq, r.state)
  BY <1>3, <1>4, NodesFrame DEF SchedTypes
<1>6. TypeOK
  BY DEF IInv
<1>7. /\ awaiting' \in [Slots -> Interrupts \cup {NoInterrupt}]
      /\ enabled' \in SUBSET Interrupts
  BY <1>1, <1>6 DEF TypeOK, TasksTypeOK
<1> QED BY <1>1, <1>3, <1>5, <1>6, <1>7, HandlerOK
      DEF TypeOK, TasksTypeOK, CommTypeOK, r

\* SetCurrentTaskPriority: the caller is in no list, so none is stale.
LEMMA SetMyPriorityOK ==
  ASSUME IInv, Sound, mode = "user", NEW p \in Priorities,
         SetCurrentTaskPriority(p), UNCHANGED <<nodes, msgq>>
  PROVE  IInv'
<1>1. CASE LOW_PRIORITY < p
  BY <1>1, AnswersOK DEF SetCurrentTaskPriority
<1>2. CASE ~ (LOW_PRIORITY < p)
  <2> DEFINE r == [sched EXCEPT !.priority[current] = p]
  <2>1. /\ sched' = r /\ mode' = "kernel"
        /\ UNCHANGED <<tid, parent, children, awaiting, avail, num_tasks, current,
                       enabled, dstack, corrupt, nodes, msgq>>
    BY <1>2 DEF SetCurrentTaskPriority, Returns, descVars
  <2>2. current \in Slots /\ sched \in SchedTypes /\ SchedOK(sched, {current})
    BY UserFacts
  <2>3. /\ r \in SchedTypes /\ SchedOK(r, {current})
    BY <2>2, ReprioritiseOK
  <2>4. r.state = sched.state
    BY <2>2 DEF SchedTypes
  <2> HIDE DEF r
  <2>5. NodesNameSlots(nodes, msgq, r.state)
    BY <2>4 DEF IInv, NodeSlots
  <2>6. TypeOK
    BY DEF IInv
  <2> QED BY <2>1, <2>3, <2>4, <2>5, <2>6, HandlerOK
        DEF TypeOK, TasksTypeOK, CommTypeOK
<1> QED BY <1>1, <1>2

\* An interrupt: the task woken was found in a list, so it exists.
LEMMA IrqOK ==
  ASSUME IInv, Sound, mode = "user", NEW i \in enabled, HandleIrq(i),
         UNCHANGED <<nodes, msgq>>
  PROVE  IInv'
<1>1. /\ mode' = "kernel"
      /\ UNCHANGED <<tid, parent, children, awaiting, avail, num_tasks, current,
                     dstack, corrupt, nodes, msgq>>
      /\ enabled' \in SUBSET enabled
  BY DEF HandleIrq, DisableInterrupt, Returns, descVars
<1>2. /\ sched \in SchedTypes /\ SchedOK(sched, {current}) /\ TypeOK
      /\ NodesNameSlots(nodes, msgq, sched.state)
  BY UserFacts DEF IInv, NodeSlots
<1>3. /\ sched' \in SchedTypes /\ SchedOK(sched', {current})
      /\ \A s \in Slots : \/ sched'.state[s] = sched.state[s]
                          \/ /\ sched.state[s] = "EVENT_BLOCKED"
                             /\ sched'.state[s] = "READY"
  <2>1. CASE \A p \in Priorities : WaitersAt(i, p) = {}
    BY <2>1, <1>2 DEF HandleIrq, UnblockTaskWaitingOnEvent
  <2>2. CASE ~ \A p \in Priorities : WaitersAt(i, p) = {}
    <3> DEFINE f == FirstWaiter(i)
               r == SetTaskState(sched, tid[f], "READY")
    <3>1. f \in Slots /\ sched.state[f] = "EVENT_BLOCKED"
      BY <2>2, <1>2, FirstWaiterOK
    <3> HIDE DEF f
    <3>2. sched' = r
      BY <2>2 DEF HandleIrq, UnblockTaskWaitingOnEvent, f
    <3>3. SlotOf(tid[f]) = f
      BY <3>1 DEF IInv, Existence, TidsInRange
    <3>4. /\ r \in SchedTypes /\ SchedOK(r, {current})
          /\ r.state = [sched.state EXCEPT ![f] = "READY"]
      <4>1. "READY" \in TaskStates /\ "EVENT_BLOCKED" \in QueuedStates
        BY StatesFacts
      <4>2. SlotOf(tid[f]) \in Slots
        BY <3>1, <3>3
      <4> HIDE DEF r
      <4> QED BY <4>1, <4>2, <3>1, <3>3, <1>2, SetTaskStateOK DEF r
    <3> HIDE DEF r
    <3> QED BY <3>1, <3>2, <3>4 DEF SchedTypes
  <2> QED BY <2>1, <2>2
<1>4. NodesNameSlots(nodes, msgq, sched'.state)
  BY <1>2, <1>3, NodesFrame
<1>5. \A s \in Slots : \/ sched'.state[s] = sched.state[s]
                       \/ /\ sched.state[s] \in QueuedStates
                          /\ sched'.state[s] \in QueuedStates
  BY <1>3, StatesFacts
<1> QED BY <1>1, <1>2, <1>3, <1>4, <1>5, HandlerOK
      DEF TypeOK, TasksTypeOK, CommTypeOK

-----------------------------------------------------------------------------
\* The empty recursion of DestroyHandler.
LEMMA EmptyFacts ==
  /\ DOMAIN << >> = {} /\ << >> \in Seq(Slots)
  /\ Distinct(<< >>) /\ \A m : ~ Linked(<< >>, m)
BY DEF Distinct, Linked

\* CreateTask: the descriptor taken leaves the free list and enters exactly
\* one list of the scheduler and one list of children.
LEMMA CreateOK ==
  ASSUME IInv, Sound, mode = "user", NEW p \in Priorities, avail # <<>>,
         CreateTask(p), UNCHANGED <<nodes, msgq>>
  PROVE  IInv'
<1> DEFINE s == Head(avail)
           t == tid[s] + MAX_TASKS
           marked == [sched EXCEPT !.state[s] = "READY"]
           fresh == [marked EXCEPT !.priority[s] = p]
<1>1. /\ avail' = DequeueQueue(avail)
      /\ tid' = [tid EXCEPT ![s] = t]
      /\ parent' = [parent EXCEPT ![s] = tid[current]]
      /\ awaiting' = [awaiting EXCEPT ![s] = NoInterrupt]
      /\ children' = [children EXCEPT ![s] = <<>>,
                                      ![current] = EnqueueQueue(@, s)]
      /\ num_tasks' = num_tasks + 1 /\ mode' = "kernel"
      /\ UNCHANGED <<current, enabled, dstack, corrupt, nodes, msgq>>
  BY DEF CreateTask, NextTid, Returns
<1>2. /\ current \in Slots /\ sched.state[current] = "ACTIVE" /\ dstack = <<>>
      /\ sched \in SchedTypes /\ SchedOK(sched, {current})
      /\ tid[current] \in Int /\ tid[current] >= 0
      /\ SlotOf(tid[current]) = current
  BY UserFacts
<1>3. TypeOK /\ Existence /\ NodesNameSlots(nodes, msgq, sched.state)
  BY DEF IInv, NodeSlots
<1>4. /\ avail' \in Seq(Slots) /\ Distinct(avail') /\ s \in Slots /\ Linked(avail, s)
      /\ \A m : Linked(avail', m) <=> Linked(avail, m) /\ m # s
  <2>1. avail \in Seq(Slots) /\ Distinct(avail)
    BY <1>3 DEF TypeOK, TasksTypeOK, Existence, FreeListConsistent
  <2> QED BY <2>1, <1>1, DequeueProperties
<1> HIDE DEF s
<1>5. sched.state[s] = "FREE" /\ s # current
  BY <1>2, <1>3, <1>4 DEF Existence, FreeListConsistent
<1>6. sched' = EnqueueTask(fresh, s)
  <2>1. fresh = [sched EXCEPT !.state[s] = "READY", !.priority[s] = p]
    BY <1>2, <1>4 DEF SchedTypes
  <2> QED BY <2>1 DEF CreateTask, s
<1>7. /\ marked \in SchedTypes /\ SchedOK(marked, {current} \cup {s})
      /\ marked.state = [sched.state EXCEPT ![s] = "READY"]
  <2>1. sched.state[s] \in DeadStates /\ "READY" \in TaskStates
    BY <1>5, StatesFacts
  <2>2. SchedOK(sched, {current} \cup {s})
    BY <2>1, <1>2, <1>4, DeadOK
  <2>3. marked.state = [sched.state EXCEPT ![s] = "READY"]
    BY <1>2 DEF SchedTypes
  <2> DEFINE U == {current} \cup {s}
  <2>4. s \in U
    OBVIOUS
  <2> HIDE DEF U
  <2>5. marked \in SchedTypes /\ SchedOK(marked, U)
    BY <2>1, <2>2, <2>4, <1>2, <1>4, RestateOK DEF U
  <2> QED BY <2>3, <2>5 DEF U
<1> HIDE DEF marked
<1>8. /\ fresh \in SchedTypes /\ SchedOK(fresh, {current} \cup {s})
      /\ fresh.state = marked.state
  <2>1. fresh.state = marked.state
    BY <1>7 DEF SchedTypes
  <2> DEFINE U == {current} \cup {s}
  <2>2. s \in U
    OBVIOUS
  <2> HIDE DEF U
  <2>3. fresh \in SchedTypes /\ SchedOK(fresh, U)
    BY <2>2, <1>4, <1>7, ReprioritiseOK DEF U
  <2> QED BY <2>1, <2>3 DEF U
<1> HIDE DEF fresh
<1>9. /\ sched' \in SchedTypes /\ SchedOK(sched', {current})
      /\ sched'.state = [sched.state EXCEPT ![s] = "READY"]
  <2> DEFINE U == {current} \cup {s}
  <2>1. s \in U /\ U \ {s} = {current}
    BY <1>5
  <2> HIDE DEF U
  <2>2. fresh.state[s] \in QueuedStates
    BY <1>2, <1>4, <1>7, <1>8, StatesFacts DEF SchedTypes
  <2>3. fresh \in SchedTypes /\ SchedOK(fresh, U)
    BY <1>8 DEF U
  <2>4. /\ EnqueueTask(fresh, s) \in SchedTypes
        /\ SchedOK(EnqueueTask(fresh, s), U \ {s})
        /\ EnqueueTask(fresh, s).state = fresh.state
    BY <2>1, <2>2, <2>3, <1>4, EnqueueTaskOK
  <2> QED BY <2>1, <2>4, <1>6, <1>7, <1>8
<1>10. \A m \in Slots :
         /\ sched'.state[m] = IF m = s THEN "READY" ELSE sched.state[m]
         /\ IsDead(m)' <=> IsDead(m) /\ m # s
         /\ tid'[m] = IF m = s THEN t ELSE tid[m]
         /\ parent'[m] = IF m = s THEN tid[current] ELSE parent[m]
  BY <1>1, <1>2, <1>3, <1>4, <1>9, StatesFacts
     DEF SchedTypes, IsDead, TypeOK, TasksTypeOK
<1>11. /\ t \in Int /\ SlotOf(t) = s /\ 0 <= t /\ t <= LONG_MAX
       /\ IsDead(s) /\ ~ IsDead(current) /\ tid[s] \in Int
  <2>1. tid[s] \in Int /\ SlotOf(tid[s]) = s /\ tid[s] >= - MAX_TASKS
        /\ tid[s] + MAX_TASKS <= LONG_MAX
    BY <1>3, <1>4, <1>5
       DEF TypeOK, TasksTypeOK, Existence, TidsInRange, TidsValid
  <2>2. SlotOf(tid[s] + MAX_TASKS) = s
    BY <2>1, SlotFacts
  <2>3. t \in Int /\ 0 <= t /\ t <= LONG_MAX
    BY <2>1, ConstantFacts
  <2>4. IsDead(s) /\ ~ IsDead(current)
    BY <1>2, <1>5 DEF IsDead, DeadStates
  <2> QED BY <2>1, <2>2, <2>3, <2>4
<1> HIDE DEF t
<1>12. \A x \in Slots :
         children'[x] = IF x = s THEN <<>>
                        ELSE IF x = current THEN EnqueueQueue(children[x], s)
                        ELSE children[x]
  BY <1>1, <1>2, <1>3, <1>4, <1>5 DEF TypeOK, TasksTypeOK
<1>13. \A x \in Slots :
         /\ children[x] \in Seq(Slots)
         /\ Distinct(children[x])
         /\ \A c \in Slots : Linked(children[x], c) <=>
              /\ ~ IsDead(c) /\ parent[c] = tid[x] /\ parent[c] # -1
         /\ ~ IsDead(x) /\ parent[x] # -1 =>
              /\ tid[SlotOf(parent[x])] = parent[x]
              /\ ~ IsDead(SlotOf(parent[x]))
  BY <1>2, <1>3, EmptyFacts DEF Existence, FamilyTree, TypeOK, TasksTypeOK
<1>14. /\ EnqueueQueue(children[current], s) \in Seq(Slots)
       /\ Distinct(EnqueueQueue(children[current], s))
       /\ \A m : Linked(EnqueueQueue(children[current], s), m)
                   <=> Linked(children[current], m) \/ m = s
  BY <1>2, <1>4, <1>11, <1>13, EnqueueProperties
<1>15. TypeOK'
  <2>1. children' \in [Slots -> Seq(Slots)]
    BY <1>1, <1>3, <1>14, EmptyFacts DEF TypeOK, TasksTypeOK
  <2>2. tid' \in [Slots -> Int] /\ parent' \in [Slots -> Int]
    BY <1>1, <1>2, <1>3, <1>11 DEF TypeOK, TasksTypeOK
  <2>3. awaiting' \in [Slots -> Interrupts \cup {NoInterrupt}]
    BY <1>1, <1>3 DEF TypeOK, TasksTypeOK
  <2>4. /\ num_tasks' \in Int /\ avail' \in Seq(Slots)
        /\ mode' \in {"user", "kernel", "destroy"}
    BY <1>1, <1>3, <1>4 DEF TypeOK, TasksTypeOK
  <2>5. CommTypeOK'
    BY <1>1, <1>3 DEF TypeOK, CommTypeOK
  <2> QED BY <2>1, <2>2, <2>3, <2>4, <2>5, <1>1, <1>3, <1>9
          DEF TypeOK, TasksTypeOK
<1>16. FreeListConsistent'
  BY <1>3, <1>4, <1>10 DEF Existence, FreeListConsistent
<1>17. TidsInRange'
  BY <1>3, <1>10, <1>11 DEF Existence, TidsInRange
<1>18. TidsValid'
  BY <1>3, <1>10, <1>11, ConstantFacts DEF Existence, TidsValid
<1>19. FamilyTree'
  <2>a. \A m : ~ Linked(dstack', m)
    BY <1>1, <1>2, EmptyFacts
  <2> SUFFICES ASSUME NEW x \in Slots
               PROVE  /\ Distinct(children'[x])
                      /\ \A c \in Slots : Linked(children'[x], c) <=>
                           /\ ~ IsDead(c)'
                           /\ parent'[c] = tid'[x] /\ parent'[c] # -1
                      /\ ~ IsDead(x)' /\ parent'[x] # -1 =>
                           /\ tid'[SlotOf(parent'[x])] = parent'[x]
                           /\ sched'.state[SlotOf(parent'[x])] \notin DeadStates
    BY <2>a DEF FamilyTree, IsDead
  <2>1. \A c \in Slots : ~ IsDead(c) /\ parent[c] # -1 =>
          SlotOf(parent[c]) \in Slots \ {s} /\ SlotOf(parent[c]) # s
    BY <1>3, <1>11, <1>13, SlotFacts DEF TypeOK, TasksTypeOK
  <2>2. ~ IsDead(x)' /\ parent'[x] # -1 =>
          /\ tid'[SlotOf(parent'[x])] = parent'[x]
          /\ sched'.state[SlotOf(parent'[x])] \notin DeadStates
    <3>1. CASE x = s
      BY <3>1, <1>2, <1>5, <1>10, <1>11 DEF IsDead
    <3>2. CASE x # s
      BY <3>2, <2>1, <1>10, <1>13 DEF IsDead
    <3> QED BY <3>1, <3>2
  <2>3. CASE x = s
    <3>1. \A c \in Slots : ~ (~ IsDead(c)' /\ parent'[c] = tid'[x] /\ parent'[c] # -1)
      <4> SUFFICES ASSUME NEW c \in Slots, ~ IsDead(c)', parent'[c] = t,
                          parent'[c] # -1
                   PROVE  FALSE
        BY <2>3, <1>10
      <4>1. c # s
        BY <1>2, <1>5, <1>10, <1>11
      <4> QED BY <4>1, <2>1, <1>10, <1>11
    <3> QED BY <3>1, <2>2, <2>3, <1>12, EmptyFacts
  <2>4. CASE x = current
    <3>1. tid'[x] = tid[x] /\ children'[x] = EnqueueQueue(children[x], s)
          /\ tid[x] # -1
      BY <2>4, <1>2, <1>5, <1>10, <1>12
    <3> QED BY <3>1, <2>2, <2>4, <1>10, <1>13, <1>14
  <2>5. CASE x # s /\ x # current
    <3>1. tid'[x] = tid[x] /\ children'[x] = children[x]
      BY <2>5, <1>10, <1>12
    <3>2. tid[x] # tid[current]
      BY <2>5, <1>2, <1>3 DEF Existence, TidsInRange
    <3> QED BY <3>1, <3>2, <2>2, <1>10, <1>11, <1>13
  <2> QED BY <2>3, <2>4, <2>5
<1>20. Ranked'
  <2>1. PICK rank \in [Slots -> Nat] : Ranks(rank)
    BY <1>3 DEF Existence, Ranked
  <2>2. rank[current] + 1 \in Nat
    BY <1>2
  <2>3. PICK higher \in [Slots -> Nat] :
          \A m \in Slots : higher[m] = IF m = s THEN rank[current] + 1 ELSE rank[m]
    <3> DEFINE h == [m \in Slots |-> IF m = s THEN rank[current] + 1 ELSE rank[m]]
    <3>1. h \in [Slots -> Nat]
      BY <2>2
    <3> QED BY <3>1
  <2>4. ASSUME NEW m \in Slots, ~ IsDead(m)', parent'[m] # -1
        PROVE  higher[SlotOf(parent'[m])] < higher[m]
    <3>1. CASE m = s
      BY <3>1, <2>3, <1>2, <1>5, <1>10
    <3>2. CASE m # s
      <4>1. ~ IsDead(m) /\ parent'[m] = parent[m] /\ parent[m] # -1
        BY <3>2, <2>4, <1>10
      <4>2. SlotOf(parent[m]) \in Slots /\ SlotOf(parent[m]) # s
        BY <4>1, <1>3, <1>11, <1>13, SlotFacts DEF TypeOK, TasksTypeOK
      <4> QED BY <4>1, <4>2, <3>2, <2>1, <2>3 DEF Ranks
    <3> QED BY <3>1, <3>2
  <2>5. DOMAIN dstack' = {}
    BY <1>1, <1>2, EmptyFacts
  <2>6. Ranks(higher)'
    BY <2>4, <2>5 DEF Ranks
  <2> QED BY <2>6 DEF Ranked
<1>21. Recursion'
  BY <1>1, <1>2, EmptyFacts DEF Recursion
<1>22. SchedulerConsistent' /\ Modes'
  BY <1>1, <1>2, <1>9 DEF SchedulerConsistent, Modes
<1>23. NodeSlots'
  BY <1>1, <1>3, <1>10, NodesFrame DEF NodeSlots
<1> QED BY <1>15, <1>16, <1>17, <1>18, <1>19, <1>20, <1>21, <1>22, <1>23
      DEF IInv, Existence

-----------------------------------------------------------------------------
\* The outcome of a delivery of the first message queued for t, or of finding
\* that its sender has been destroyed.
Delivered(t, nd, mq, sc) ==
  LET r == SlotOf(t)
      n == Head(mq[r])
  IN  /\ n \in Slots /\ Linked(mq[r], n)
      /\ SlotOf(nd[n].from) = n /\ SlotOf(nd[n].to) = r
      /\ DequeueQueue(mq[r]) \in Seq(Slots) /\ Distinct(DequeueQueue(mq[r]))
      /\ \A m : Linked(DequeueQueue(mq[r]), m) <=> Linked(mq[r], m) /\ m # n
      /\ \/ Damage("destroyed sender resumed") /\ UNCHANGED <<nodes, msgq>>
         \/ /\ nodes' = nd
            /\ msgq' = [mq EXCEPT ![r] = DequeueQueue(mq[r])]
            /\ mode' = "kernel"
            /\ sched' \in SchedTypes /\ SchedOK(sched', {current})
            /\ tid[n] = nd[n].from => sc.state[n] \in QueuedStates
            /\ \A s \in Slots : sched'.state[s] =
                 IF s = r /\ tid[r] = nd[n].to THEN "READY"
                 ELSE IF s = n /\ tid[n] = nd[n].from THEN "REPLY_BLOCKED"
                 ELSE sc.state[s]
            /\ UNCHANGED <<tid, parent, children, awaiting, avail, num_tasks,
                           current, enabled, dstack, corrupt>>

\* What a delivery does: it resumes the receiver and the sender that are there,
\* the sender being the slot of the first node queued, the receiver that of
\* the queue; or it finds the sender destroyed.
LEMMA DeliveryOK ==
  ASSUME IInv, Sound, mode = "user",
         NEW call, NEW arg, NEW t \in Int, NEW nd, NEW mq, NEW sc,
         nd \in [Slots -> [from : Int, to : Int, put : Slots \cup {Garbage}]],
         mq \in [Slots -> Seq(Slots)], mq[SlotOf(t)] # <<>>,
         NodesNameSlots(nd, mq, sc.state),
         sc \in SchedTypes, SchedOK(sc, {current}),
         sc.state[SlotOf(t)] \in QueuedStates,
         CompleteReceive(call, arg, t, nd, mq, sc)
  PROVE  Delivered(t, nd, mq, sc)
<1> DEFINE r == SlotOf(t)
           n == Head(mq[r])
           from == nd[n].from
           dest == nd[n].to
           s1 == SetTaskState(sc, from, "REPLY_BLOCKED")
           s2 == SetTaskState(s1, dest, "READY")
<1>1. r \in Slots /\ mq[r] \in Seq(Slots) /\ Distinct(mq[r]) /\ mq[r] # <<>>
  BY SlotFacts DEF NodesNameSlots
<1>2. /\ DequeueQueue(mq[r]) \in Seq(Slots) /\ Distinct(DequeueQueue(mq[r]))
      /\ n \in Slots /\ Linked(mq[r], n)
      /\ \A m : Linked(DequeueQueue(mq[r]), m) <=> Linked(mq[r], m) /\ m # n
  <2> HIDE DEF r
  <2> QED BY <1>1, DequeueProperties
<1>3. from \in Int /\ dest \in Int /\ SlotOf(from) = n /\ SlotOf(dest) = r
  <2> HIDE DEF r, n
  <2> QED BY <1>1, <1>2 DEF NodesNameSlots
<1>4. CASE tid[n] = from /\ sc.state[n] \in DeadStates
  <2>1. Damage("destroyed sender resumed") /\ UNCHANGED <<nodes, msgq>>
    BY <1>3, <1>4 DEF CompleteReceive, commVars
  <2> QED BY <2>1, <1>2, <1>3 DEF Delivered
<1>5. CASE ~ (tid[n] = from /\ sc.state[n] \in DeadStates)
  <2>1. /\ nodes' = nd /\ msgq' = [mq EXCEPT ![r] = DequeueQueue(mq[r])]
        /\ sched' = s2 /\ mode' = "kernel"
        /\ UNCHANGED <<tid, parent, children, awaiting, avail, num_tasks, current,
                       enabled, dstack, corrupt>>
    BY <1>3, <1>5 DEF CompleteReceive, Taken, Returns, descVars
  <2> HIDE DEF r, n, from, dest, Delivered
  <2>2. tid[n] = from => sc.state[n] \in QueuedStates
    BY <1>2, <1>5, StatesFacts DEF SchedTypes
  <2>3. /\ s1 \in SchedTypes /\ SchedOK(s1, {current})
        /\ s1.state = IF tid[n] = from
                      THEN [sc.state EXCEPT ![n] = "REPLY_BLOCKED"] ELSE sc.state
    <3>1. "REPLY_BLOCKED" \in TaskStates
      BY StatesFacts
    <3>2. SlotOf(from) \in Slots
          /\ (tid[SlotOf(from)] = from => sc.state[SlotOf(from)] \in QueuedStates)
      BY <2>2, <1>2, <1>3
    <3>3. /\ s1 \in SchedTypes /\ SchedOK(s1, {current})
          /\ s1.state = IF tid[SlotOf(from)] = from
                        THEN [sc.state EXCEPT ![SlotOf(from)] = "REPLY_BLOCKED"] ELSE sc.state
      <4>1. s1 = SetTaskState(sc, from, "REPLY_BLOCKED")
        OBVIOUS
      <4> HIDE DEF s1
      <4>2. s1 \in SchedTypes
        BY <3>1, <3>2, <4>1, SetTaskStateOK, ZenonT(30)
      <4>3. SchedOK(s1, {current})
        BY <3>1, <3>2, <4>1, SetTaskStateOK, ZenonT(30)
      <4>4. s1.state = IF tid[SlotOf(from)] = from
                       THEN [sc.state EXCEPT ![SlotOf(from)] = "REPLY_BLOCKED"] ELSE sc.state
        BY <3>1, <3>2, <4>1, SetTaskStateOK, ZenonT(30)
      <4> QED BY <4>2, <4>3, <4>4
    <3> HIDE DEF s1
    <3> QED BY <3>3, <1>3
  <2> HIDE DEF s1
  <2>4. s1.state[r] \in QueuedStates
    BY <2>3, <1>1, StatesFacts DEF SchedTypes, r
  <2>5. /\ s2 \in SchedTypes /\ SchedOK(s2, {current})
        /\ s2.state = IF tid[r] = dest
                      THEN [s1.state EXCEPT ![r] = "READY"] ELSE s1.state
    <3>1. "READY" \in TaskStates
      BY StatesFacts
    <3>2. SlotOf(dest) \in Slots
          /\ (tid[SlotOf(dest)] = dest => s1.state[SlotOf(dest)] \in QueuedStates)
      BY <2>3, <2>4, <1>1, <1>3
    <3>3. /\ s2 \in SchedTypes /\ SchedOK(s2, {current})
          /\ s2.state = IF tid[SlotOf(dest)] = dest
                        THEN [s1.state EXCEPT ![SlotOf(dest)] = "READY"] ELSE s1.state
      <4>1. s1 \in SchedTypes /\ SchedOK(s1, {current})
        BY <2>3
      <4>2. s2 = SetTaskState(s1, dest, "READY")
        OBVIOUS
      <4> HIDE DEF s2
      <4>3. s2 \in SchedTypes
        BY <3>1, <3>2, <4>1, <4>2, SetTaskStateOK, ZenonT(30)
      <4>4. SchedOK(s2, {current})
        BY <3>1, <3>2, <4>1, <4>2, SetTaskStateOK, ZenonT(30)
      <4>5. s2.state = IF tid[SlotOf(dest)] = dest
                        THEN [s1.state EXCEPT ![SlotOf(dest)] = "READY"] ELSE s1.state
        BY <3>1, <3>2, <4>1, <4>2, SetTaskStateOK, ZenonT(30)
      <4> QED BY <4>3, <4>4, <4>5
    <3> HIDE DEF s2
    <3> QED BY <3>3, <1>3
  <2> HIDE DEF s2
  <2>6. \A s \in Slots : s2.state[s] = IF s = r /\ tid[r] = dest THEN "READY"
                                       ELSE IF s = n /\ tid[n] = from THEN "REPLY_BLOCKED"
                                       ELSE sc.state[s]
    <3> SUFFICES ASSUME NEW s \in Slots
                 PROVE  s2.state[s] = IF s = r /\ tid[r] = dest THEN "READY"
                                      ELSE IF s = n /\ tid[n] = from THEN "REPLY_BLOCKED"
                                      ELSE sc.state[s]
      OBVIOUS
    <3>1. s2.state[s] = IF s = r /\ tid[r] = dest THEN "READY" ELSE s1.state[s]
      BY <2>3, <2>5 DEF SchedTypes
    <3>2. s1.state[s] = IF s = n /\ tid[n] = from THEN "REPLY_BLOCKED"
                        ELSE sc.state[s]
      BY <2>3 DEF SchedTypes
    <3> QED BY <3>1, <3>2
  <2> QED BY <2>1, <2>2, <2>5, <2>6, <1>2, <1>3 DEF r, n, from, dest, Delivered
<1> QED BY <1>4, <1>5

\* A delivery preserves the invariant.
LEMMA CompleteReceiveOK ==
  ASSUME IInv, Sound, mode = "user",
         NEW call, NEW arg, NEW t \in Int, NEW nd, NEW mq, NEW sc,
         nd \in [Slots -> [from : Int, to : Int, put : Slots \cup {Garbage}]],
         mq \in [Slots -> Seq(Slots)], mq[SlotOf(t)] # <<>>,
         NodesNameSlots(nd, mq, sc.state),
         sc \in SchedTypes, SchedOK(sc, {current}),
         sc.state[SlotOf(t)] \in QueuedStates,
         \A s \in Slots : \/ sc.state[s] = sched.state[s]
                          \/ /\ sched.state[s] \in QueuedStates
                             /\ sc.state[s] \in QueuedStates,
         CompleteReceive(call, arg, t, nd, mq, sc)
  PROVE  IInv'
<1> DEFINE r == SlotOf(t)
           n == Head(mq[r])
<1>1. Delivered(t, nd, mq, sc)
  BY DeliveryOK
<1>2. CASE Damage("destroyed sender resumed") /\ UNCHANGED <<nodes, msgq>>
  BY <1>2, DamageOK DEF Damages, NotCorrupt
<1>3. CASE ~ (Damage("destroyed sender resumed") /\ UNCHANGED <<nodes, msgq>>)
  <2>1. /\ n \in Slots /\ SlotOf(nd[n].from) = n
        /\ DequeueQueue(mq[r]) \in Seq(Slots) /\ Distinct(DequeueQueue(mq[r]))
        /\ \A m : Linked(DequeueQueue(mq[r]), m) <=> Linked(mq[r], m) /\ m # n
        /\ nodes' = nd /\ msgq' = [mq EXCEPT ![r] = DequeueQueue(mq[r])]
        /\ mode' = "kernel"
        /\ sched' \in SchedTypes /\ SchedOK(sched', {current})
        /\ tid[n] = nd[n].from => sc.state[n] \in QueuedStates
        /\ \A s \in Slots : sched'.state[s] =
             IF s = r /\ tid[r] = nd[n].to THEN "READY"
             ELSE IF s = n /\ tid[n] = nd[n].from THEN "REPLY_BLOCKED"
             ELSE sc.state[s]
        /\ UNCHANGED <<tid, parent, children, awaiting, avail, num_tasks,
                       current, enabled, dstack, corrupt>>
    BY <1>1, <1>3 DEF Delivered
  <2>2. r \in Slots /\ sc.state[r] \in QueuedStates
    BY SlotFacts
  <2> HIDE DEF r, n
  <2>3. \A s \in Slots :
          \/ sched'.state[s] = sc.state[s]
          \/ s = n /\ sc.state[s] \in QueuedStates /\ sched'.state[s] = "REPLY_BLOCKED"
          \/ sched'.state[s] = "READY" /\ sc.state[s] \in QueuedStates
    BY <2>1, <2>2
  <2>4. \A s \in Slots : \/ sched'.state[s] = sched.state[s]
                         \/ /\ sched.state[s] \in QueuedStates
                            /\ sched'.state[s] \in QueuedStates
    BY <2>3, StatesFacts
  <2>5. NodesNameSlots(nodes', msgq', sched'.state)
    <3> SUFFICES ASSUME NEW s \in Slots
                 PROVE  /\ Distinct(msgq'[s])
                        /\ \A q \in Slots : Linked(msgq'[q], s) =>
                             SlotOf(nd[s].to) = q /\ SlotOf(nd[s].from) = s
                        /\ sched'.state[s] \in {"RECEIVE_BLOCKED", "REPLY_BLOCKED"} =>
                             SlotOf(nd[s].from) = s
      BY <2>1 DEF NodesNameSlots
    <3>1. \A q \in Slots : msgq'[q] = IF q = r THEN DequeueQueue(mq[r]) ELSE mq[q]
      BY <2>1
    <3>2. Distinct(msgq'[s])
      BY <3>1, <2>1 DEF NodesNameSlots
    <3>3. \A q \in Slots : Linked(msgq'[q], s) => Linked(mq[q], s)
      BY <3>1, <2>1
    <3>4. sched'.state[s] \in {"RECEIVE_BLOCKED", "REPLY_BLOCKED"} =>
            SlotOf(nd[s].from) = s
      BY <2>1, <2>3 DEF NodesNameSlots
    <3> QED BY <3>2, <3>3, <3>4 DEF NodesNameSlots
  <2>6. CommTypeOK'
    BY <2>1 DEF CommTypeOK
  <2>7. TypeOK
    BY DEF IInv
  <2> QED BY <2>1, <2>4, <2>5, <2>6, <2>7, HandlerOK DEF TypeOK, TasksTypeOK
<1> QED BY <1>2, <1>3

\* SendProxy: the sender is filed later, a waiting receiver becomes READY.
LEMMA SendOK ==
  ASSUME IInv, Sound, mode = "user", NEW t \in Int, SendProxy(t)
  PROVE  IInv'
<1> DEFINE r == SlotOf(t)
           n == [from |-> tid[current], to |-> t, put |-> Garbage]
           mq == [msgq EXCEPT ![r] = EnqueueQueue(@, current)]
           sc == SetCurrentTaskState(sched, "RECEIVE_BLOCKED")
<1>1. CASE ~ IsValidTid(t)
  BY <1>1, AnswersOK DEF SendProxy, commVars
<1>2. CASE IsValidTid(t) /\ ~ IsTaskAlive(t)
  BY <1>2, AnswersOK DEF SendProxy, commVars
<1>3. CASE IsValidTid(t) /\ IsTaskAlive(t) /\ Pending(current)
  <2>1. Damage("linked node overwritten") /\ UNCHANGED <<nodes, msgq>>
    BY <1>3 DEF SendProxy, commVars
  <2> QED BY <2>1, DamageOK DEF Damages, NotCorrupt
<1>4. CASE IsValidTid(t) /\ IsTaskAlive(t) /\ ~ Pending(current)
  <2>1. PostMessage(t)
    BY <1>4 DEF SendProxy
  <2>2. /\ current \in Slots /\ sched \in SchedTypes
        /\ tid[current] \in Int /\ SlotOf(tid[current]) = current
        /\ sched.state[current] = "ACTIVE"
    BY UserFacts
  <2>3. /\ nodes \in [Slots -> [from : Int, to : Int, put : Slots \cup {Garbage}]]
        /\ msgq \in [Slots -> Seq(Slots)]
        /\ NodesNameSlots(nodes, msgq, sched.state)
        /\ TypeOK
    BY DEF IInv, TypeOK, CommTypeOK, NodeSlots
  <2>4. r \in Slots /\ sched.state[r] \in QueuedStates
    BY <1>4, SlotFacts DEF IsTaskAlive, AliveStates
  <2>5. /\ sc \in SchedTypes /\ SchedOK(sc, {current})
        /\ sc.state = [sched.state EXCEPT ![current] = "RECEIVE_BLOCKED"]
        /\ \A s \in Slots : \/ sc.state[s] = sched.state[s]
                            \/ /\ sched.state[s] \in QueuedStates
                               /\ sc.state[s] \in QueuedStates
    BY StatesFacts, SetCurrentOK
  <2> HIDE DEF sc, r
  <2>6. \A s \in Slots : sc.state[s] = IF s = current THEN "RECEIVE_BLOCKED"
                                       ELSE sched.state[s]
    BY <2>2, <2>5 DEF SchedTypes
  <2>7. /\ EnqueueQueue(msgq[r], current) \in Seq(Slots)
        /\ Distinct(EnqueueQueue(msgq[r], current))
        /\ \A m : Linked(EnqueueQueue(msgq[r], current), m)
                    <=> Linked(msgq[r], m) \/ m = current
    BY <1>4, <2>2, <2>3, <2>4, EnqueueProperties DEF Pending, NodesNameSlots
  <2>8. /\ mq \in [Slots -> Seq(Slots)]
        /\ \A q \in Slots : mq[q] = IF q = r THEN EnqueueQueue(msgq[r], current)
                                    ELSE msgq[q]
    BY <2>3, <2>4, <2>7
  <2>9. mq[r] # <<>>
    BY <2>4, <2>7, <2>8, EmptyFacts
  <2> HIDE DEF mq
  <2>10. ASSUME NEW nd, nd \in [Slots -> [from : Int, to : Int,
                                          put : Slots \cup {Garbage}]],
                nd[current].from = tid[current], nd[current].to = t,
                \A s \in Slots : s # current => nd[s] = nodes[s]
         PROVE  NodesNameSlots(nd, mq, sc.state)
    <3> SUFFICES ASSUME NEW s \in Slots
                 PROVE  /\ Distinct(mq[s])
                        /\ \A q \in Slots : Linked(mq[q], s) =>
                             SlotOf(nd[s].to) = q /\ SlotOf(nd[s].from) = s
                        /\ sc.state[s] \in {"RECEIVE_BLOCKED", "REPLY_BLOCKED"} =>
                             SlotOf(nd[s].from) = s
      BY DEF NodesNameSlots
    <3>1. Distinct(mq[s])
      BY <2>3, <2>7, <2>8 DEF NodesNameSlots
    <3>2. CASE s = current
      <4>1. \A q \in Slots : Linked(mq[q], s) => q = r
        BY <3>2, <1>4, <2>8 DEF Pending
      <4> QED BY <3>1, <3>2, <4>1, <2>2, <2>10 DEF r
    <3>3. CASE s # current
      <4>1. \A q \in Slots : Linked(mq[q], s) => Linked(msgq[q], s)
        BY <3>3, <2>7, <2>8
      <4>2. sc.state[s] = sched.state[s] /\ nd[s] = nodes[s]
        BY <3>3, <2>6, <2>10
      <4> QED BY <3>1, <4>1, <4>2, <2>3 DEF NodesNameSlots
    <3> QED BY <3>2, <3>3
  <2>11. n \in [from : Int, to : Int, put : Slots \cup {Garbage}]
         /\ n.from = tid[current] /\ n.to = t
    BY <2>2
  <2>12. CASE Waits(sc, r)
    <3> DEFINE m == [n EXCEPT !.put = nodes[r].put]
               nd == [nodes EXCEPT ![current] = m]
    <3>1. CompleteReceive("Send", t, t, nd, mq, sc)
      BY <2>1, <2>12 DEF PostMessage, MetBy, r, mq, sc
    <3>2. m \in [from : Int, to : Int, put : Slots \cup {Garbage}]
          /\ m.from = tid[current] /\ m.to = t
      BY <2>3, <2>4, <2>11
    <3> HIDE DEF m, n
    <3>3. /\ nd \in [Slots -> [from : Int, to : Int, put : Slots \cup {Garbage}]]
          /\ nd[current].from = tid[current] /\ nd[current].to = t
          /\ \A s \in Slots : s # current => nd[s] = nodes[s]
      BY <3>2, <2>2, <2>3
    <3> HIDE DEF nd
    <3>4. sc.state[r] \in QueuedStates
      BY <2>4, <2>5
    <3> QED BY <3>1, <3>3, <3>4, <2>5, <2>8, <2>9, <2>10, CompleteReceiveOK DEF r
  <2>13. CASE ~ Waits(sc, r)
    <3> DEFINE nd == [nodes EXCEPT ![current] = n]
    <3>1. /\ nodes' = nd /\ msgq' = mq /\ sched' = sc /\ mode' = "kernel"
          /\ UNCHANGED <<tid, parent, children, awaiting, avail, num_tasks, current,
                         enabled, dstack, corrupt>>
      BY <2>1, <2>13 DEF PostMessage, Returns, descVars, r, mq, sc
    <3> HIDE DEF n
    <3>2. /\ nd \in [Slots -> [from : Int, to : Int, put : Slots \cup {Garbage}]]
          /\ nd[current].from = tid[current] /\ nd[current].to = t
          /\ \A s \in Slots : s # current => nd[s] = nodes[s]
      BY <2>2, <2>3, <2>11
    <3> HIDE DEF nd
    <3>3. CommTypeOK'
      BY <3>1, <3>2, <2>8 DEF CommTypeOK
    <3>4. NodesNameSlots(nodes', msgq', sched'.state)
      BY <3>1, <3>2, <2>10
    <3> QED BY <3>1, <3>3, <3>4, <2>3, <2>5, HandlerOK DEF TypeOK, TasksTypeOK
  <2> QED BY <2>12, <2>13
<1> QED BY <1>1, <1>2, <1>3, <1>4

\* ReceiveProxy: the caller waits, or the first sender is marked as received.
LEMMA ReceiveOK ==
  ASSUME IInv, Sound, mode = "user", ReceiveProxy
  PROVE  IInv'
<1> DEFINE q == msgq[current]
           NodeType == [from : Int, to : Int, put : Slots \cup {Garbage}]
<1>1. /\ current \in Slots /\ sched \in SchedTypes /\ SchedOK(sched, {current})
      /\ tid[current] \in Int /\ SlotOf(tid[current]) = current
      /\ sched.state[current] = "ACTIVE"
  BY UserFacts
<1>2. /\ nodes \in [Slots -> NodeType]
      /\ msgq \in [Slots -> Seq(Slots)]
      /\ NodesNameSlots(nodes, msgq, sched.state)
      /\ TypeOK
  BY DEF IInv, TypeOK, CommTypeOK, NodeSlots
<1>3. CASE q = <<>> /\ Pending(current)
  <2>1. Damage("linked node overwritten") /\ UNCHANGED <<nodes, msgq>>
    BY <1>3 DEF ReceiveProxy, ReceiveBlocks, commVars
  <2> QED BY <2>1, DamageOK DEF Damages, NotCorrupt
<1>4. CASE q = <<>> /\ ~ Pending(current)
  <2> DEFINE sc == SetCurrentTaskState(sched, "SEND_BLOCKED")
             n == [from |-> Garbage, to |-> Garbage, put |-> current]
             nd == [nodes EXCEPT ![current] = n]
  <2>1. /\ nodes' = nd /\ msgq' = msgq /\ sched' = sc /\ mode' = "kernel"
        /\ UNCHANGED <<tid, parent, children, awaiting, avail, num_tasks, current,
                       enabled, dstack, corrupt>>
    BY <1>4 DEF ReceiveProxy, ReceiveBlocks, Returns, descVars
  <2>2. /\ sc \in SchedTypes /\ SchedOK(sc, {current})
        /\ sc.state = [sched.state EXCEPT ![current] = "SEND_BLOCKED"]
        /\ \A s \in Slots : \/ sc.state[s] = sched.state[s]
                            \/ /\ sched.state[s] \in QueuedStates
                               /\ sc.state[s] \in QueuedStates
    BY StatesFacts, SetCurrentOK
  <2> HIDE DEF sc
  <2>3. \A s \in Slots : sc.state[s] = IF s = current THEN "SEND_BLOCKED"
                                       ELSE sched.state[s]
    BY <1>1, <2>2 DEF SchedTypes
  <2>4. Garbage \in Int
    BY ConstantFacts DEF Garbage
  <2>5. n \in NodeType
    BY <1>1, <2>4
  <2> HIDE DEF n
  <2>6. /\ nd \in [Slots -> NodeType]
        /\ \A s \in Slots : s # current => nd[s] = nodes[s]
    BY <1>1, <1>2, <2>5
  <2> HIDE DEF nd
  <2>7. NodesNameSlots(nd, msgq, sc.state)
    BY <1>2, <1>4, <2>3, <2>6 DEF NodesNameSlots, Pending
  <2>8. CommTypeOK'
    BY <2>1, <2>6, <1>2 DEF CommTypeOK
  <2> QED BY <2>1, <2>2, <2>7, <2>8, <1>2, HandlerOK DEF TypeOK, TasksTypeOK
<1>5. CASE q # <<>>
  <2> DEFINE l == q[Len(q)]
             nd == [nodes EXCEPT ![l].put = current]
  <2>1. CompleteReceive("Receive", 0, tid[current], nd, msgq, sched)
    BY <1>5 DEF ReceiveProxy
  <2>2. l \in Slots
    <3>1. q \in Seq(Slots)
      BY <1>1, <1>2
    <3> HIDE DEF q
    <3>2. Len(q) \in 1 .. Len(q)
      BY <1>5, <3>1, EmptySeq, LenProperties
    <3> QED BY <3>1, <3>2
  <2> HIDE DEF l
  <2>3. /\ nd \in [Slots -> NodeType]
        /\ \A s \in Slots : nd[s].from = nodes[s].from /\ nd[s].to = nodes[s].to
    <3>1. nodes[l] \in NodeType
      BY <1>2, <2>2
    <3>2. /\ [nodes[l] EXCEPT !.put = current] \in NodeType
          /\ [nodes[l] EXCEPT !.put = current].from = nodes[l].from
          /\ [nodes[l] EXCEPT !.put = current].to = nodes[l].to
      BY <1>1, <3>1
    <3> DEFINE changed == [nodes[l] EXCEPT !.put = current]
    <3>3. nd = [nodes EXCEPT ![l] = changed]
      OBVIOUS
    <3> HIDE DEF changed, NodeType, nd
    <3>4. changed \in NodeType
      BY <3>2 DEF changed
    <3>5. nd \in [Slots -> NodeType]
      BY <3>3, <3>4, <1>2, <2>2
    <3>6. \A s \in Slots : nd[s] = IF s = l THEN changed ELSE nodes[s]
      BY <3>3, <1>2
    <3> QED BY <3>2, <3>5, <3>6 DEF changed
  <2> HIDE DEF nd
  <2>4. NodesNameSlots(nd, msgq, sched.state)
    BY <1>2, <2>3 DEF NodesNameSlots
  <2>5. sched.state[current] \in QueuedStates
    BY <1>1, StatesFacts
  <2>6. msgq[SlotOf(tid[current])] # <<>>
        /\ sched.state[SlotOf(tid[current])] \in QueuedStates
    BY <1>1, <1>5, <2>5
  <2> QED BY <1>1, <1>2, <2>1, <2>3, <2>4, <2>6, CompleteReceiveOK
<1> QED BY <1>3, <1>4, <1>5

\* Reply resumes the task of the slot it tested.
LEMMA ReplyOK ==
  ASSUME IInv, Sound, mode = "user", NEW t \in Int, NEW tooSmall,
         ReplyProxy(t, tooSmall)
  PROVE  IInv'
<1> DEFINE s == SlotOf(t)
           from == nodes[s].from
           sc == SetTaskState(sched, from, "READY")
<1>1. CASE ~ IsValidTid(t)
  BY <1>1, AnswersOK DEF ReplyProxy, commVars
<1>2. CASE IsValidTid(t) /\ ~ IsTaskAlive(t)
  BY <1>2, AnswersOK DEF ReplyProxy, commVars
<1>3. CASE IsValidTid(t) /\ IsTaskAlive(t) /\ ~ AwaitsReply(t)
  BY <1>3, AnswersOK DEF ReplyProxy, commVars
<1>4. CASE IsValidTid(t) /\ IsTaskAlive(t) /\ AwaitsReply(t)
  <2>1. /\ sched' = sc /\ mode' = "kernel"
        /\ UNCHANGED <<tid, parent, children, awaiting, avail, num_tasks, current,
                       enabled, dstack, corrupt, nodes, msgq>>
    BY <1>4 DEF ReplyProxy, Returns, descVars, commVars
  <2>2. s \in Slots /\ sched.state[s] = "REPLY_BLOCKED"
    BY <1>4, SlotFacts DEF AwaitsReply
  <2>3. sched \in SchedTypes /\ SchedOK(sched, {current})
    BY UserFacts
  <2>4. NodesNameSlots(nodes, msgq, sched.state) /\ TypeOK
    BY DEF IInv, NodeSlots
  <2> HIDE DEF s
  <2>5. SlotOf(from) = s
    BY <2>2, <2>4 DEF NodesNameSlots
  <2> HIDE DEF from
  <2>6. /\ sc \in SchedTypes /\ SchedOK(sc, {current})
        /\ sc.state = IF tid[s] = from THEN [sched.state EXCEPT ![s] = "READY"]
                      ELSE sched.state
    <3>1. "READY" \in TaskStates /\ "REPLY_BLOCKED" \in QueuedStates
      BY StatesFacts
    <3>2. SlotOf(from) \in Slots
          /\ (tid[SlotOf(from)] = from => sched.state[SlotOf(from)] \in QueuedStates)
      BY <3>1, <2>2, <2>5
    <3>3. /\ sc \in SchedTypes /\ SchedOK(sc, {current})
          /\ sc.state = IF tid[SlotOf(from)] = from
                        THEN [sched.state EXCEPT ![SlotOf(from)] = "READY"]
                        ELSE sched.state
      BY <3>1, <3>2, <2>3, SetTaskStateOK
    <3> HIDE DEF sc
    <3> QED BY <3>3, <2>5
  <2> HIDE DEF sc
  <2>7. \A m \in Slots : \/ sc.state[m] = sched.state[m]
                         \/ m = s /\ sc.state[m] = "READY"
    BY <2>3, <2>6 DEF SchedTypes
  <2>8. NodesNameSlots(nodes, msgq, sc.state)
    BY <2>4, <2>7, NodesFrame
  <2>9. \A m \in Slots : \/ sched'.state[m] = sched.state[m]
                         \/ /\ sched.state[m] \in QueuedStates
                            /\ sched'.state[m] \in QueuedStates
    BY <2>1, <2>2, <2>7, StatesFacts
  <2> QED BY <2>1, <2>4, <2>6, <2>8, <2>9, HandlerOK
        DEF TypeOK, TasksTypeOK, CommTypeOK
<1> QED BY <1>1, <1>2, <1>3, <1>4

-----------------------------------------------------------------------------
\* The outgoing task is queued again unless it is dead.
LEMMA RequeuedOK ==
  ASSUME IInv, Sound
  PROVE  /\ Requeued \in SchedTypes /\ SchedOK(Requeued, {})
         /\ \A s \in Slots : \/ Requeued.state[s] = sched.state[s]
                             \/ /\ s = current /\ sched.state[s] = "ACTIVE"
                                /\ Requeued.state[s] = "READY"
         /\ current \in Slots => Requeued.state[current] # "ACTIVE"
<1>0. /\ sched \in SchedTypes /\ SchedOK(sched, {current})
      /\ current \in Slots \cup {NoTask}
  BY DEF IInv, TypeOK, TasksTypeOK, SchedulerConsistent
<1>1. CASE current = NoTask
  <2>1. Requeued = sched
    BY <1>1 DEF Requeued
  <2>2. SchedOK(sched, {})
    BY <1>1, <1>0, ConstantFacts DEF SchedOK
  <2> QED BY <2>1, <2>2, <1>0, <1>1, ConstantFacts
<1>2. CASE current # NoTask /\ sched.state[current] = "ACTIVE"
  <2> DEFINE sc == [sched EXCEPT !.state[current] = "READY"]
             U == {current}
  <2>1. current \in Slots /\ current \in U /\ U \ {current} = {}
    BY <1>2, <1>0
  <2>2. Requeued = EnqueueTask(sc, current)
    BY <1>2 DEF Requeued, SetCurrentTaskState
  <2>3. sc.state = [sched.state EXCEPT ![current] = "READY"]
        /\ sc.state[current] = "READY"
    BY <2>1, <1>0 DEF SchedTypes
  <2> HIDE DEF U
  <2>4. "READY" \in TaskStates /\ "READY" \in QueuedStates
    BY StatesFacts
  <2>5. SchedOK(sched, U)
    BY <1>0 DEF U
  <2>6. sc \in SchedTypes /\ SchedOK(sc, U)
    BY <2>1, <2>4, <2>5, <1>0, RestateOK
  <2> HIDE DEF sc
  <2>7. /\ EnqueueTask(sc, current) \in SchedTypes
        /\ SchedOK(EnqueueTask(sc, current), U \ {current})
        /\ EnqueueTask(sc, current).state = sc.state
    BY <2>1, <2>3, <2>4, <2>6, EnqueueTaskOK
  <2> QED BY <2>1, <2>2, <2>3, <2>7, <1>2, <1>0 DEF SchedTypes
<1>3. CASE /\ current # NoTask /\ sched.state[current] # "ACTIVE"
           /\ sched.state[current] \in QueuedStates
  <2> DEFINE U == {current}
  <2>1. current \in Slots /\ current \in U /\ U \ {current} = {}
    BY <1>3, <1>0
  <2>2. Requeued = EnqueueTask(sched, current)
    BY <1>3 DEF Requeued
  <2> HIDE DEF U
  <2>3. SchedOK(sched, U)
    BY <1>0 DEF U
  <2>4. /\ EnqueueTask(sched, current) \in SchedTypes
        /\ SchedOK(EnqueueTask(sched, current), U \ {current})
        /\ EnqueueTask(sched, current).state = sched.state
    BY <2>1, <2>3, <1>3, <1>0, EnqueueTaskOK
  <2> QED BY <2>1, <2>2, <2>4, <1>3
<1>4. CASE /\ current # NoTask /\ sched.state[current] \notin QueuedStates
  <2>1. current \in Slots
    BY <1>4, <1>0
  <2>2. Requeued = sched
    BY <1>4, StatesFacts DEF Requeued
  <2>3. sched.state[current] \in DeadStates
    BY <1>4, <2>1, <1>0, StatesFacts DEF SchedTypes
  <2>4. SchedOK(sched, {})
    <3>1. {} \cup {current} = {current}
      OBVIOUS
    <3>2. SchedOK(sched, {}) <=> SchedOK(sched, {} \cup {current})
      BY <2>1, <2>3, <1>0, DeadOK
    <3> QED BY <3>1, <3>2, <1>0
  <2> QED BY <2>2, <2>4, <1>0, <1>4, StatesFacts
<1> QED BY <1>1, <1>2, <1>3, <1>4

\* The kernel loop: the task that is activated leaves its queue.
LEMMA ScheduleOK ==
  ASSUME IInv, Sound, mode = "kernel", ScheduleAndActivate,
         UNCHANGED <<nodes, msgq>>
  PROVE  IInv'
<1> DEFINE r == Requeued
           n == Head(r.queue["READY"][Best(r)])
<1>1. /\ sched' = ActivateNext(r) /\ current' = n /\ mode' = "user"
      /\ ReadyPriorities(r) # {}
      /\ UNCHANGED <<tid, parent, children, awaiting, avail, num_tasks, enabled,
                     dstack, corrupt, nodes, msgq>>
  BY DEF ScheduleAndActivate, descVars
<1>2. /\ sched \in SchedTypes /\ SchedOK(sched, {current}) /\ TypeOK
      /\ current \in Slots \cup {NoTask} /\ dstack = <<>>
      /\ NodesNameSlots(nodes, msgq, sched.state)
  BY DEF IInv, TypeOK, TasksTypeOK, SchedulerConsistent, Modes, NodeSlots
<1>3. /\ r \in SchedTypes /\ SchedOK(r, {})
      /\ \A s \in Slots : \/ r.state[s] = sched.state[s]
                          \/ sched.state[s] = "ACTIVE" /\ r.state[s] = "READY"
  BY RequeuedOK
<1> HIDE DEF r
<1> DEFINE E == {}
<1> HIDE DEF E
<1>4. SchedOK(r, E)
  BY <1>3 DEF E
<1>5. /\ n \in Slots /\ r.state[n] = "READY"
      /\ ActivateNext(r) \in SchedTypes
      /\ SchedOK(ActivateNext(r), E \cup {n})
      /\ ActivateNext(r).state = [r.state EXCEPT ![n] = "ACTIVE"]
  BY <1>1, <1>3, <1>4, ActivateNextOK
<1> HIDE DEF n
<1>6. E \cup {n} = {current'}
  BY <1>1 DEF E
<1>7. \A s \in Slots : sched'.state[s] = IF s = n THEN "ACTIVE" ELSE r.state[s]
  BY <1>1, <1>3, <1>5 DEF SchedTypes
<1>8. \A s \in Slots : \/ sched'.state[s] = sched.state[s]
                       \/ /\ sched.state[s] \in {"ACTIVE", "READY"}
                          /\ sched'.state[s] \in {"ACTIVE", "READY"}
  BY <1>3, <1>5, <1>7
<1>9. NodesNameSlots(nodes, msgq, sched'.state)
  BY <1>2, <1>8, NodesFrame
<1>10. TypeOK'
  BY <1>1, <1>2, <1>5 DEF TypeOK, TasksTypeOK, CommTypeOK
<1>11. SchedulerConsistent'
  BY <1>1, <1>5, <1>6 DEF SchedulerConsistent
<1>12. Existence'
  <2>1. \A s \in Slots : \/ sched'.state[s] = sched.state[s]
                         \/ /\ sched.state[s] \in QueuedStates
                            /\ sched'.state[s] \in QueuedStates
    BY <1>8, StatesFacts
  <2>2. Existence /\ sched' \in SchedTypes /\ parent \in [Slots -> Int]
    BY <1>1, <1>2, <1>5 DEF IInv, TypeOK, TasksTypeOK
  <2> QED BY <2>1, <2>2, <1>1, <1>2, ExistenceFrame
<1>13. Modes'
  BY <1>1, <1>2, <1>5, <1>7 DEF Modes
<1>14. NodeSlots'
  BY <1>1, <1>9 DEF NodeSlots
<1> QED BY <1>10, <1>11, <1>12, <1>13, <1>14 DEF IInv

-----------------------------------------------------------------------------
\* Destroy of slot s, called in user mode or for the child just dequeued: the
\* family tree loses s, the recursion gains it.
LEMMA EnterDestroyOK ==
  ASSUME IInv, Sound, mode \in {"user", "destroy"}, UNCHANGED <<nodes, msgq>>,
         NEW s \in Slots, NEW ch \in [Slots -> Seq(Slots)],
         \A x \in Slots :
           /\ Distinct(ch[x])
           /\ \A c \in Slots : Linked(ch[x], c) => Linked(children[x], c)
           /\ \A c \in Slots : Linked(children[x], c) /\ c # s => Linked(ch[x], c),
         \/ dstack = <<>>
         \/ parent[s] # -1 /\ SlotOf(parent[s]) = dstack[Len(dstack)],
         EnterDestroy(s, ch)
  PROVE  IInv'
<1>1. CASE IsDead(s)
  <2>1. Damage("destroyed twice")
    BY <1>1 DEF EnterDestroy
  <2> QED BY <2>1, DamageOK DEF Damages, NotCorrupt
<1>2. CASE ~ IsDead(s)
  <2>1. /\ children' = ForgottenByParent(ch, s) /\ dstack' = Append(dstack, s)
        /\ mode' = "destroy"
        /\ UNCHANGED <<sched, tid, parent, awaiting, avail, num_tasks, current,
                       enabled, corrupt, nodes, msgq>>
    BY <1>2 DEF EnterDestroy
  <2>2. TypeOK /\ Existence /\ NodesNameSlots(nodes, msgq, sched.state)
        /\ current \in Slots
    BY DEF IInv, NodeSlots, Modes
  <2>3. /\ dstack \in Seq(Slots) /\ parent \in [Slots -> Int]
        /\ tid \in [Slots -> Int]
    BY <2>2 DEF TypeOK, TasksTypeOK
  <2>4. \A x \in Slots :
          /\ \A c \in Slots : Linked(children[x], c) <=>
               /\ ~ IsDead(c) /\ parent[c] = tid[x] /\ parent[c] # -1
               /\ ~ Linked(dstack, c)
          /\ ~ IsDead(x) /\ parent[x] # -1 =>
               /\ tid[SlotOf(parent[x])] = parent[x]
               /\ ~ IsDead(SlotOf(parent[x]))
          /\ SlotOf(tid[x]) = x
    BY <2>2 DEF Existence, FamilyTree, TidsInRange
  <2>5. /\ children' \in [Slots -> Seq(Slots)]
        /\ \A x \in Slots : /\ Distinct(children'[x])
                            /\ \A c \in Slots : Linked(children'[x], c)
                                 <=> Linked(children[x], c) /\ c # s
    <3>1. CASE parent[s] = -1
      <4>1. children' = ch
        BY <2>1, <3>1 DEF ForgottenByParent
      <4>2. \A x \in Slots : ~ Linked(children[x], s)
        BY <2>4, <3>1
      <4> QED BY <4>1, <4>2
    <3>2. CASE parent[s] # -1
      <4> DEFINE p == SlotOf(parent[s])
                 q == RemoveQueueNode(ch[p], s)
      <4>1. p \in Slots
        BY <2>3, SlotFacts
      <4> HIDE DEF p
      <4>2. children' = [ch EXCEPT ![p] = q]
        BY <2>1, <3>2 DEF ForgottenByParent, p
      <4>3. /\ q \in Seq(Slots) /\ Distinct(q)
            /\ \A m : Linked(q, m) <=> Linked(ch[p], m) /\ m # s
        BY <4>1, RemoveProperties
      <4> HIDE DEF q
      <4>4. /\ children' \in [Slots -> Seq(Slots)]
            /\ \A x \in Slots : children'[x] = IF x = p THEN q ELSE ch[x]
        BY <4>1, <4>2, <4>3
      <4>5. \A x \in Slots : x # p => ~ Linked(children[x], s)
        BY <2>4 DEF p
      <4>6. ASSUME NEW x \in Slots
            PROVE  /\ Distinct(children'[x])
                   /\ \A c \in Slots : Linked(children'[x], c)
                        <=> Linked(children[x], c) /\ c # s
        <5>1. CASE x = p
          BY <5>1, <4>1, <4>3, <4>4
        <5>2. CASE x # p
          BY <5>2, <4>4, <4>5
        <5> QED BY <5>1, <5>2
      <4> QED BY <4>4, <4>6
    <3> QED BY <3>1, <3>2
  <2>6. /\ dstack' \in Seq(Slots) /\ Len(dstack) \in Nat
        /\ DOMAIN dstack = 1 .. Len(dstack) /\ DOMAIN dstack' = 1 .. Len(dstack) + 1
        /\ \A i \in 1 .. Len(dstack) : dstack'[i] = dstack[i]
        /\ dstack'[Len(dstack) + 1] = s
    BY <2>1, <2>3, AppendProperties, LenProperties
  <2>7. \A m : Linked(dstack', m) <=> Linked(dstack, m) \/ m = s
    <3> SUFFICES ASSUME NEW m
                 PROVE  Linked(dstack', m) <=> Linked(dstack, m) \/ m = s
      OBVIOUS
    <3>1. ASSUME Linked(dstack', m) PROVE Linked(dstack, m) \/ m = s
      <4>1. PICK i \in DOMAIN dstack' : dstack'[i] = m
        BY <3>1 DEF Linked
      <4>2. CASE i = Len(dstack) + 1
        BY <4>1, <4>2, <2>6
      <4>3. CASE i # Len(dstack) + 1
        <5>1. i \in DOMAIN dstack /\ dstack[i] = m
          BY <4>1, <4>3, <2>6
        <5> QED BY <5>1 DEF Linked
      <4> QED BY <4>2, <4>3
    <3>2. ASSUME Linked(dstack, m) PROVE Linked(dstack', m)
      BY <3>2, <2>6 DEF Linked
    <3>3. Linked(dstack', s)
      BY <2>6 DEF Linked
    <3> QED BY <3>1, <3>2, <3>3
  <2>8. TypeOK'
    BY <2>1, <2>2, <2>5, <2>6 DEF TypeOK, TasksTypeOK, CommTypeOK
  <2>9. SchedulerConsistent'
    BY <2>1 DEF IInv, SchedulerConsistent, SchedOK
  <2>10. FreeListConsistent' /\ TidsInRange' /\ TidsValid'
    BY <2>1, <2>2 DEF Existence, FreeListConsistent, TidsInRange, TidsValid, IsDead
  <2>11. FamilyTree'
    <3> SUFFICES ASSUME NEW x \in Slots
                 PROVE  /\ Distinct(children'[x])
                        /\ \A c \in Slots : Linked(children'[x], c) <=>
                             /\ ~ IsDead(c)
                             /\ parent[c] = tid[x] /\ parent[c] # -1
                             /\ ~ Linked(dstack', c)
                        /\ ~ IsDead(x) /\ parent[x] # -1 =>
                             /\ tid[SlotOf(parent[x])] = parent[x]
                             /\ ~ IsDead(SlotOf(parent[x]))
      BY <2>1 DEF FamilyTree, IsDead
    <3> QED BY <2>4, <2>5, <2>7
  <2>12. Ranked'
    <3>1. PICK rank \in [Slots -> Nat] : Ranks(rank)
      BY <2>2 DEF Existence, Ranked
    <3>2. \A i \in 1 .. Len(dstack) : rank[dstack[i]] < rank[s]
      <4> SUFFICES ASSUME NEW i \in 1 .. Len(dstack)
                   PROVE  rank[dstack[i]] < rank[s]
        OBVIOUS
      <4> DEFINE l == Len(dstack)
      <4>1. dstack # <<>>
        BY EmptyFacts, <2>6
      <4>2. parent[s] # -1 /\ SlotOf(parent[s]) = dstack[l]
        BY <4>1
      <4>3. rank[dstack[l]] < rank[s]
        BY <4>2, <3>1, <1>2 DEF Ranks
      <4>4. l \in DOMAIN dstack /\ i \in DOMAIN dstack
        BY <2>6
      <4>5. rank[dstack[l]] \in Nat /\ rank[dstack[i]] \in Nat /\ rank[s] \in Nat
        <5>1. dstack[l] \in Slots /\ dstack[i] \in Slots
          BY <4>4, <2>3
        <5> QED BY <5>1
      <4>6. CASE i = l
        BY <4>6, <4>3
      <4>7. CASE i # l
        <5>1. i < l
          <6>1. Len(dstack) \in Nat
            BY <2>6
          <6> QED BY <6>1, <4>7
        <5>2. rank[dstack[i]] < rank[dstack[l]]
          BY <5>1, <4>4, <3>1 DEF Ranks
        <5> QED BY <5>2, <4>3, <4>5
      <4> QED BY <4>6, <4>7
    <3>3. \A i, j \in DOMAIN dstack' : i < j => rank[dstack'[i]] < rank[dstack'[j]]
      <4> SUFFICES ASSUME NEW i \in DOMAIN dstack', NEW j \in DOMAIN dstack', i < j
                   PROVE  rank[dstack'[i]] < rank[dstack'[j]]
        OBVIOUS
      <4>1. i \in 1 .. Len(dstack)
        BY <2>6
      <4>2. CASE j = Len(dstack) + 1
        BY <4>1, <4>2, <3>2, <2>6
      <4>3. CASE j # Len(dstack) + 1
        <5>1. i \in DOMAIN dstack /\ j \in DOMAIN dstack
          BY <4>1, <4>3, <2>6
        <5>2. dstack'[i] = dstack[i] /\ dstack'[j] = dstack[j]
          BY <5>1, <2>6
        <5> QED BY <5>1, <5>2, <3>1 DEF Ranks
      <4> QED BY <4>2, <4>3
    <3>4. Ranks(rank)'
      BY <3>1, <3>3, <2>1 DEF Ranks, IsDead
    <3> QED BY <3>4 DEF Ranked
  <2>13. Recursion'
    BY <2>1, <2>2, <2>7, <1>2 DEF Existence, Recursion, IsDead
  <2>14. Modes'
    BY <2>1, <2>2, <2>6, EmptyFacts DEF Modes
  <2>15. NodeSlots'
    BY <2>1, <2>2 DEF NodeSlots, NodesNameSlots
  <2> QED BY <2>8, <2>9, <2>10, <2>11, <2>12, <2>13, <2>14, <2>15
          DEF IInv, Existence
<1> QED BY <1>1, <1>2

\* The recursion at work: its top is a task that exists, above the others.
LEMMA DestroyingFacts ==
  ASSUME IInv, Sound, mode = "destroy"
  PROVE  /\ dstack \in Seq(Slots) /\ Len(dstack) \in Nat /\ Len(dstack) >= 1
         /\ DOMAIN dstack = 1 .. Len(dstack)
         /\ Destroying \in Slots /\ Linked(dstack, Destroying)
         /\ ~ IsDead(Destroying) /\ current \in Slots
<1>1. dstack \in Seq(Slots) /\ dstack # <<>> /\ current \in Slots
  BY DEF IInv, TypeOK, TasksTypeOK, Modes
<1>2. Len(dstack) \in Nat /\ Len(dstack) >= 1 /\ DOMAIN dstack = 1 .. Len(dstack)
  BY <1>1, EmptySeq, LenProperties
<1>3. Destroying \in Slots /\ Linked(dstack, Destroying)
  BY <1>1, <1>2 DEF Destroying, Linked
<1>4. ~ IsDead(Destroying)
  BY <1>3 DEF IInv, Existence, Recursion
<1> QED BY <1>1, <1>2, <1>3, <1>4

\* One recursive call of DestroyHandler for the first child.
LEMMA DestroyChildOK ==
  ASSUME IInv, Sound, DestroyChild, UNCHANGED <<nodes, msgq>>
  PROVE  IInv'
<1> DEFINE d == Destroying
           q == children[d]
           s == Head(q)
           ch == [children EXCEPT ![d] = DequeueQueue(q)]
<1>1. mode = "destroy" /\ q # <<>> /\ EnterDestroy(s, ch)
  BY DEF DestroyChild
<1>2. d \in Slots /\ ~ IsDead(d) /\ d = dstack[Len(dstack)]
  BY <1>1, DestroyingFacts DEF Destroying
<1> HIDE DEF d
<1>3. /\ children \in [Slots -> Seq(Slots)]
      /\ \A x \in Slots : Distinct(children[x])
      /\ \A x, c \in Slots : Linked(children[x], c) =>
           parent[c] = tid[x] /\ parent[c] # -1
      /\ SlotOf(tid[d]) = d
  BY <1>2 DEF IInv, TypeOK, TasksTypeOK, Existence, FamilyTree, TidsInRange
<1>4. /\ DequeueQueue(q) \in Seq(Slots) /\ Distinct(DequeueQueue(q))
      /\ s \in Slots /\ Linked(q, s)
      /\ \A m : Linked(DequeueQueue(q), m) <=> Linked(q, m) /\ m # s
  <2>1. q \in Seq(Slots) /\ Distinct(q)
    BY <1>2, <1>3
  <2> HIDE DEF q
  <2> QED BY <2>1, <1>1, DequeueProperties
<1>5. parent[s] # -1 /\ SlotOf(parent[s]) = d
  BY <1>2, <1>3, <1>4
<1> HIDE DEF s
<1>6. /\ ch \in [Slots -> Seq(Slots)]
      /\ \A x \in Slots : ch[x] = IF x = d THEN DequeueQueue(q) ELSE children[x]
  BY <1>2, <1>3, <1>4
<1>7. \A x \in Slots :
        /\ Distinct(ch[x])
        /\ \A c \in Slots : Linked(ch[x], c) => Linked(children[x], c)
        /\ \A c \in Slots : Linked(children[x], c) /\ c # s => Linked(ch[x], c)
  BY <1>3, <1>4, <1>6
<1> HIDE DEF ch
<1> QED BY <1>1, <1>2, <1>4, <1>5, <1>6, <1>7, EnterDestroyOK

\* The end of one call of DestroyHandler: nobody refers any more to the task
\* that becomes FREE or DESTROYED.
LEMMA DestroySelfOK ==
  ASSUME IInv, Sound, DestroySelf, UNCHANGED <<nodes, msgq>>
  PROVE  IInv'
<1> DEFINE s == Destroying
           n == Len(dstack)
           to == StateOnceDestroyed(s)
<1>1. /\ mode = "destroy" /\ children[s] = <<>>
      /\ sched' = SetTaskState(sched, tid[s], to)
      /\ avail' = IF Reusable(s) THEN EnqueueQueue(avail, s) ELSE avail
      /\ enabled' \in SUBSET enabled
      /\ num_tasks' = num_tasks - 1
      /\ dstack' = SubSeq(dstack, 1, n - 1)
      /\ mode' = IF n = 1 THEN "kernel" ELSE "destroy"
      /\ UNCHANGED <<tid, parent, children, awaiting, current, corrupt, nodes, msgq>>
  BY DEF DestroySelf, descVars, DisableInterrupt
<1>2. /\ dstack \in Seq(Slots) /\ n \in Nat /\ n >= 1
      /\ DOMAIN dstack = 1 .. n /\ s \in Slots /\ s = dstack[n]
      /\ Linked(dstack, s) /\ ~ IsDead(s) /\ current \in Slots
  BY <1>1, DestroyingFacts DEF Destroying
<1>3. /\ to \in TaskStates /\ to \in DeadStates
      /\ to = IF Reusable(s) THEN "FREE" ELSE "DESTROYED"
  BY StatesFacts DEF StateOnceDestroyed
<1> HIDE DEF s, n, to
<1>4. /\ TypeOK /\ Existence /\ NodesNameSlots(nodes, msgq, sched.state)
      /\ sched \in SchedTypes /\ SchedOK(sched, {current})
      /\ SlotOf(tid[s]) = s /\ tid[s] \in Int
  BY <1>2 DEF IInv, NodeSlots, TypeOK, TasksTypeOK, SchedulerConsistent,
     Existence, TidsInRange
<1>5. sched.state[s] \in QueuedStates
  BY <1>2, <1>4, StatesFacts DEF IsDead, SchedTypes
<1>6. /\ sched' \in SchedTypes /\ SchedOK(sched', {current})
      /\ sched'.state = [sched.state EXCEPT ![s] = to]
  <2>1. SlotOf(tid[s]) \in Slots /\ sched.state[SlotOf(tid[s])] \in QueuedStates
    BY <1>2, <1>4, <1>5
  <2>2. /\ sched' \in SchedTypes /\ SchedOK(sched', {current})
        /\ sched'.state = IF tid[SlotOf(tid[s])] = tid[s]
                          THEN [sched.state EXCEPT ![SlotOf(tid[s])] = to]
                          ELSE sched.state
    <3>1. sched' = SetTaskState(sched, tid[s], to) /\ to \in TaskStates
          /\ sched \in SchedTypes /\ SchedOK(sched, {current})
      BY <1>1, <1>3, <1>4
    <3>2. sched' \in SchedTypes
      BY <3>1, <2>1, SetTaskStateOK
    <3>3. SchedOK(sched', {current})
      BY <3>1, <2>1, SetTaskStateOK
    <3>4. sched'.state = IF tid[SlotOf(tid[s])] = tid[s]
                         THEN [sched.state EXCEPT ![SlotOf(tid[s])] = to]
                         ELSE sched.state
      BY <3>1, <2>1, SetTaskStateOK
    <3> QED BY <3>2, <3>3, <3>4
  <2> QED BY <2>2, <1>4
<1>7. \A m \in Slots :
        /\ sched'.state[m] = IF m = s THEN to ELSE sched.state[m]
        /\ IsDead(m)' <=> IsDead(m) \/ m = s
  BY <1>3, <1>4, <1>6 DEF SchedTypes, IsDead
<1>8. PICK rank \in [Slots -> Nat] : Ranks(rank)
  BY <1>4 DEF Existence, Ranked
<1>9. /\ dstack' \in Seq(Slots) /\ DOMAIN dstack' = 1 .. n - 1
      /\ \A i \in 1 .. n - 1 : dstack'[i] = dstack[i]
      /\ n = 1 => dstack' = <<>>
      /\ n > 1 => dstack' # <<>>
  <2>1. \A i \in 1 .. n - 1 : dstack[i] \in Slots
    BY <1>2
  <2>2. /\ dstack' \in Seq(Slots)
        /\ Len(dstack') = IF 1 <= n - 1 THEN n - 1 - 1 + 1 ELSE 0
        /\ \A i \in 1 .. n - 1 - 1 + 1 : dstack'[i] = dstack[1 + i - 1]
    BY <2>1, <1>1, <1>2, SubSeqProperties
  <2>3. Len(dstack') = n - 1
    BY <2>2, <1>2
  <2>4. DOMAIN dstack' = 1 .. n - 1
    BY <2>2, <2>3, LenProperties
  <2>5. \A i \in 1 .. n - 1 : dstack'[i] = dstack[i]
    BY <2>2, <1>2
  <2> QED BY <2>2, <2>3, <2>4, <2>5, EmptySeq, <1>2
<1>10. \A m \in Slots : Linked(dstack', m) <=> Linked(dstack, m) /\ m # s
  <2> SUFFICES ASSUME NEW m \in Slots
               PROVE  Linked(dstack', m) <=> Linked(dstack, m) /\ m # s
    OBVIOUS
  <2>1. ASSUME NEW i \in DOMAIN dstack', dstack'[i] = m
        PROVE  Linked(dstack, m) /\ m # s
    <3>1. i \in DOMAIN dstack /\ n \in DOMAIN dstack /\ i < n /\ dstack[i] = m
      BY <2>1, <1>2, <1>9
    <3>2. rank[m] < rank[s]
      BY <3>1, <1>2, <1>8 DEF Ranks
    <3>3. rank[m] # rank[s]
      BY <3>2, <1>2
    <3> QED BY <3>1, <3>3 DEF Linked
  <2>2. ASSUME NEW i \in DOMAIN dstack, dstack[i] = m, m # s
        PROVE  Linked(dstack', m)
    <3>1. i \in DOMAIN dstack' /\ dstack'[i] = m
      BY <2>2, <1>2, <1>9
    <3> QED BY <3>1 DEF Linked
  <2> QED BY <2>1, <2>2 DEF Linked
<1>11. avail' \in Seq(Slots) /\ FreeListConsistent'
  <2>1. /\ avail \in Seq(Slots) /\ Distinct(avail)
        /\ \A m \in Slots : Linked(avail, m) <=> sched.state[m] = "FREE"
    BY <1>4 DEF TypeOK, TasksTypeOK, Existence, FreeListConsistent
  <2>2. ~ Linked(avail, s)
    BY <2>1, <1>2, <1>5, StatesFacts
  <2>3. CASE Reusable(s)
    <3>1. /\ avail' \in Seq(Slots) /\ Distinct(avail')
          /\ \A m : Linked(avail', m) <=> Linked(avail, m) \/ m = s
      BY <2>1, <2>2, <2>3, <1>1, <1>2, EnqueueProperties
    <3> QED BY <3>1, <2>1, <2>3, <1>3, <1>7 DEF FreeListConsistent
  <2>4. CASE ~ Reusable(s)
    BY <2>1, <2>2, <2>4, <1>1, <1>3, <1>7 DEF FreeListConsistent
  <2> QED BY <2>3, <2>4
<1>12. TidsInRange'
  <2>1. to = "FREE" => tid[s] + MAX_TASKS <= LONG_MAX
    BY <1>3, <1>4, ConstantFacts DEF Reusable
  <2> QED BY <2>1, <1>1, <1>4, <1>7 DEF Existence, TidsInRange
<1>13. TidsValid'
  BY <1>1, <1>4, <1>7 DEF Existence, TidsValid
<1>14. \A x \in Slots :
         /\ Distinct(children[x])
         /\ \A c \in Slots : Linked(children[x], c) <=>
              /\ ~ IsDead(c) /\ parent[c] = tid[x] /\ parent[c] # -1
              /\ ~ Linked(dstack, c)
         /\ ~ IsDead(x) /\ parent[x] # -1 =>
              /\ SlotOf(parent[x]) \in Slots
              /\ tid[SlotOf(parent[x])] = parent[x]
              /\ ~ IsDead(SlotOf(parent[x]))
  BY <1>4, SlotFacts DEF Existence, FamilyTree, TypeOK, TasksTypeOK
<1>15. \A x \in Slots : ~ IsDead(x) /\ parent[x] # -1 /\ x # s =>
         SlotOf(parent[x]) # s
  <2> SUFFICES ASSUME NEW x \in Slots, ~ IsDead(x), parent[x] # -1, x # s,
                      SlotOf(parent[x]) = s
               PROVE  FALSE
    OBVIOUS
  <2>1. ~ Linked(children[s], x)
    BY <1>1, EmptyFacts
  <2>2. Linked(dstack, x)
    BY <2>1, <1>2, <1>14
  <2>3. PICK i \in DOMAIN dstack : dstack[i] = x
    BY <2>2 DEF Linked
  <2>4. i < n /\ n \in DOMAIN dstack
    BY <2>3, <1>2
  <2>5. rank[x] < rank[s]
    BY <2>3, <2>4, <1>2, <1>8 DEF Ranks
  <2>6. rank[s] < rank[x]
    BY <1>8 DEF Ranks
  <2>7. rank[s] \in Nat /\ rank[x] \in Nat
    BY <1>2
  <2> QED BY <2>5, <2>6, <2>7
<1>16. FamilyTree'
  <2> SUFFICES ASSUME NEW x \in Slots
               PROVE  /\ Distinct(children[x])
                      /\ \A c \in Slots : Linked(children[x], c) <=>
                           /\ ~ IsDead(c)'
                           /\ parent[c] = tid[x] /\ parent[c] # -1
                           /\ ~ Linked(dstack', c)
                      /\ ~ IsDead(x)' /\ parent[x] # -1 =>
                           /\ tid[SlotOf(parent[x])] = parent[x]
                           /\ sched'.state[SlotOf(parent[x])] \notin DeadStates
    BY <1>1 DEF FamilyTree, IsDead
  <2>1. \A c \in Slots : Linked(children[x], c) <=>
          /\ ~ IsDead(c)' /\ parent[c] = tid[x] /\ parent[c] # -1
          /\ ~ Linked(dstack', c)
    BY <1>2, <1>7, <1>10, <1>14
  <2>2. ~ IsDead(x)' /\ parent[x] # -1 =>
          /\ tid[SlotOf(parent[x])] = parent[x]
          /\ sched'.state[SlotOf(parent[x])] \notin DeadStates
    BY <1>7, <1>14, <1>15 DEF IsDead
  <2> QED BY <2>1, <2>2, <1>14
<1>17. Ranked'
  <2>1. \A i, j \in DOMAIN dstack' : i < j => rank[dstack'[i]] < rank[dstack'[j]]
    <3> SUFFICES ASSUME NEW i \in DOMAIN dstack', NEW j \in DOMAIN dstack', i < j
                 PROVE  rank[dstack'[i]] < rank[dstack'[j]]
      OBVIOUS
    <3>1. /\ i \in DOMAIN dstack /\ j \in DOMAIN dstack
          /\ dstack'[i] = dstack[i] /\ dstack'[j] = dstack[j]
      BY <1>2, <1>9
    <3> QED BY <3>1, <1>8 DEF Ranks
  <2>2. Ranks(rank)'
    BY <2>1, <1>1, <1>7, <1>8 DEF Ranks
  <2> QED BY <2>2 DEF Ranked
<1>18. Recursion'
  BY <1>4, <1>7, <1>10, <1>1 DEF Existence, Recursion
<1>19. Modes'
  BY <1>1, <1>2, <1>9 DEF Modes
<1>20. TypeOK'
  <2>1. enabled' \in SUBSET Interrupts /\ num_tasks' \in Int
        /\ mode' \in {"user", "kernel", "destroy"}
    BY <1>1, <1>4 DEF TypeOK, TasksTypeOK
  <2>2. CommTypeOK'
    BY <1>1, <1>4 DEF TypeOK, CommTypeOK
  <2> QED BY <2>1, <2>2, <1>1, <1>4, <1>6, <1>9, <1>11 DEF TypeOK, TasksTypeOK
<1>21. SchedulerConsistent'
  BY <1>1, <1>6 DEF SchedulerConsistent
<1>22. NodeSlots'
  <2>1. \A m \in Slots : sched'.state[m] \in {"RECEIVE_BLOCKED", "REPLY_BLOCKED"} =>
          sched.state[m] \in {"RECEIVE_BLOCKED", "REPLY_BLOCKED"}
    BY <1>3, <1>7, StatesFacts
  <2>2. NodesNameSlots(nodes, msgq, sched'.state)
    BY <2>1, <1>4, NodesFrame
  <2> QED BY <2>2, <1>1 DEF NodeSlots
<1> QED BY <1>11, <1>12, <1>13, <1>16, <1>17, <1>18, <1>19, <1>20, <1>21, <1>22
      DEF IInv, Existence

-----------------------------------------------------------------------------
(* The initial state.                                                      *)

\* The lists that the two calls of CreateTask leave agree with their states.
LEMMA InitSchedOK ==
  ASSUME TasksInit
  PROVE  sched \in SchedTypes /\ SchedOK(sched, {current})
<1>1. /\ sched.state = [s \in Slots |-> IF s < 2 THEN "READY" ELSE "FREE"]
      /\ sched.priority = [s \in Slots |-> IF s = 0 THEN NULL_PRIORITY
                                           ELSE IF s = 1 THEN LOW_PRIORITY
                                           ELSE HIGHEST_PRIORITY]
      /\ sched.queue = [st \in QueuedStates |-> [p \in Priorities |->
                          IF st # "READY" THEN <<>>
                          ELSE IF p = NULL_PRIORITY THEN <<0>>
                          ELSE IF p = LOW_PRIORITY THEN <<1>>
                          ELSE <<>>]]
      /\ sched = [state |-> sched.state, priority |-> sched.priority,
                  queue |-> sched.queue]
      /\ current = NoTask
  BY DEF TasksInit
<1>2. /\ NULL_PRIORITY \in Priorities /\ LOW_PRIORITY \in Priorities
      /\ HIGHEST_PRIORITY \in Priorities /\ LOW_PRIORITY # NULL_PRIORITY
      /\ HIGHEST_PRIORITY # LOW_PRIORITY /\ HIGHEST_PRIORITY # NULL_PRIORITY
      /\ 0 \in Slots /\ 1 \in Slots /\ NoTask \notin Slots
  BY TasksAssumption DEF Priorities, LOW_PRIORITY, HIGHEST_PRIORITY, Slots, NoTask
<1>3. /\ <<0>> \in Seq(Slots) /\ <<1>> \in Seq(Slots) /\ <<>> \in Seq(Slots)
      /\ Distinct(<<0>>) /\ Distinct(<<1>>) /\ Distinct(<<>>)
      /\ \A m : Linked(<<0>>, m) <=> m = 0
      /\ \A m : Linked(<<1>>, m) <=> m = 1
      /\ \A m : ~ Linked(<<>>, m)
  BY <1>2 DEF Distinct, Linked
<1>4. sched \in SchedTypes
  <2>1. "READY" \in TaskStates /\ "FREE" \in TaskStates
    BY StatesFacts
  <2>2. sched.state \in [Slots -> TaskStates]
    BY <2>1, <1>1
  <2>3. sched.priority \in [Slots -> Priorities]
    BY <1>1, <1>2
  <2>4. sched.queue \in [QueuedStates -> [Priorities -> Seq(Slots)]]
    BY <1>1, <1>3
  <2> QED BY <1>1, <2>2, <2>3, <2>4 DEF SchedTypes
<1>5. ASSUME NEW st \in QueuedStates, NEW p \in Priorities
      PROVE  /\ Distinct(sched.queue[st][p])
             /\ \A s \in Slots : Linked(sched.queue[st][p], s) <=>
                  s \notin {current} /\ sched.state[s] = st /\ sched.priority[s] = p
  <2>1. /\ sched.state[0] = "READY" /\ sched.priority[0] = NULL_PRIORITY
        /\ sched.state[1] = "READY" /\ sched.priority[1] = LOW_PRIORITY
        /\ \A s \in Slots : s # 0 /\ s # 1 => sched.state[s] = "FREE"
    BY <1>1, <1>2 DEF Slots
  <2>2. st # "FREE"
    BY StatesFacts DEF QueuedStates
  <2>3. CASE st = "READY" /\ p = NULL_PRIORITY
    <3>1. sched.queue[st][p] = <<0>>
      BY <2>3, <1>1
    <3> QED BY <3>1, <2>1, <2>2, <2>3, <1>1, <1>2, <1>3
  <2>4. CASE st = "READY" /\ p = LOW_PRIORITY
    <3>1. sched.queue[st][p] = <<1>>
      BY <2>4, <1>1, <1>2
    <3> QED BY <3>1, <2>1, <2>2, <2>4, <1>1, <1>2, <1>3
  <2>5. CASE st # "READY" \/ p \notin {NULL_PRIORITY, LOW_PRIORITY}
    <3>1. sched.queue[st][p] = <<>>
      BY <2>5, <1>1
    <3> QED BY <3>1, <2>1, <2>2, <2>5, <1>1, <1>2, <1>3
  <2> QED BY <2>3, <2>4, <2>5
<1> QED BY <1>4, <1>5 DEF SchedOK

\* RtkLaunch establishes the inductive invariant.
LEMMA InitOK == Init => IInv
<1> SUFFICES ASSUME Init PROVE IInv
  OBVIOUS
<1>1. TasksInit /\ CommunicationInit
  BY DEF Init
<1>2. sched \in SchedTypes /\ SchedOK(sched, {current})
  BY <1>1, InitSchedOK
<1>3. /\ \A s \in Slots : sched.state[s] = IF s < 2 THEN "READY" ELSE "FREE"
      /\ tid = [s \in Slots |-> IF s < 2 THEN s ELSE s - MAX_TASKS]
      /\ parent = [s \in Slots |-> -1]
      /\ children = [s \in Slots |-> <<>>]
      /\ awaiting = [s \in Slots |-> NoInterrupt]
      /\ avail = [i \in 1 .. MAX_TASKS - 2 |-> i + 1]
      /\ num_tasks = 2 /\ current = NoTask /\ enabled = {TimerInterrupt}
      /\ mode = "kernel" /\ dstack = <<>> /\ corrupt = NotCorrupt
      /\ nodes = [s \in Slots |-> [from |-> 0, to |-> 0, put |-> Garbage]]
      /\ msgq = [s \in Slots |-> <<>>]
  BY <1>1 DEF TasksInit, CommunicationInit
<1>4. \A s \in Slots : tid[s] \in Int /\ SlotOf(tid[s]) = s
                       /\ tid[s] >= - MAX_TASKS /\ tid[s] <= LONG_MAX
  <2> SUFFICES ASSUME NEW s \in Slots
               PROVE  tid[s] \in Int /\ SlotOf(tid[s]) = s
                      /\ tid[s] >= - MAX_TASKS /\ tid[s] <= LONG_MAX
    OBVIOUS
  <2>1. tid[s] = IF s < 2 THEN s ELSE s - MAX_TASKS
    BY <1>3
  <2>2. SlotOf(tid[s]) = s
    BY <2>1, SlotFacts
  <2>3. tid[s] \in Int /\ tid[s] >= - MAX_TASKS /\ tid[s] <= LONG_MAX
    BY <2>1, ConstantFacts DEF Slots
  <2> QED BY <2>2, <2>3
<1>5. /\ avail \in Seq(Slots) /\ Distinct(avail)
      /\ \A s \in Slots : Linked(avail, s) <=> s >= 2
  <2>1. MAX_TASKS - 2 \in Nat
    BY ConstantFacts
  <2>2. DOMAIN avail = 1 .. MAX_TASKS - 2
        /\ \A i \in 1 .. MAX_TASKS - 2 : avail[i] = i + 1 /\ avail[i] \in Slots
    BY <2>1, <1>3, ConstantFacts DEF Slots
  <2>3. avail \in Seq(Slots)
    BY <2>1, <2>2, <1>3, IsASeq
  <2>4. Distinct(avail)
    BY <2>2 DEF Distinct
  <2>5. ASSUME NEW s \in Slots PROVE Linked(avail, s) <=> s >= 2
    <3>1. ASSUME s >= 2 PROVE Linked(avail, s)
      <4>1. s - 1 \in DOMAIN avail /\ avail[s - 1] = s
        BY <3>1, <2>2, ConstantFacts DEF Slots
      <4> QED BY <4>1 DEF Linked
    <3>2. ASSUME Linked(avail, s) PROVE s >= 2
      BY <3>2, <2>2, ConstantFacts DEF Linked
    <3> QED BY <3>1, <3>2
  <2> QED BY <2>3, <2>4, <2>5
<1>6. \A s \in Slots : IsDead(s) <=> s >= 2
  BY <1>3 DEF IsDead, DeadStates, Slots
<1>7. TypeOK
  <2>1. tid \in [Slots -> Int] /\ parent \in [Slots -> Int]
    BY <1>3, <1>4
  <2>2. children \in [Slots -> Seq(Slots)] /\ msgq \in [Slots -> Seq(Slots)]
    BY <1>3, EmptyFacts
  <2>3. nodes \in [Slots -> [from : Int, to : Int, put : Slots \cup {Garbage}]]
    BY <1>3
  <2> QED BY <2>1, <2>2, <2>3, <1>2, <1>3, <1>5, TasksAssumption, EmptyFacts
        DEF TypeOK, TasksTypeOK, CommTypeOK, Damages
<1>8. FreeListConsistent
  BY <1>3, <1>5 DEF FreeListConsistent, Slots
<1>9. TidsInRange
  <2>1. \A s \in Slots : sched.state[s] = "FREE" => tid[s] + MAX_TASKS <= LONG_MAX
    BY <1>3, ConstantFacts DEF Slots
  <2> QED BY <2>1, <1>4 DEF TidsInRange
<1>10. TidsValid
  <2>1. \A s \in Slots : s < 2 => tid[s] >= 0
    BY <1>3 DEF Slots
  <2> QED BY <2>1, <1>4, <1>6 DEF TidsValid, Slots
<1>11. FamilyTree
  BY <1>3, EmptyFacts DEF FamilyTree
<1>12. Ranked
  <2>1. [s \in Slots |-> 0] \in [Slots -> Nat]
    OBVIOUS
  <2>2. Ranks([s \in Slots |-> 0])
    BY <1>3, EmptyFacts DEF Ranks
  <2> QED BY <2>1, <2>2 DEF Ranked
<1>13. Recursion
  BY <1>3, EmptyFacts DEF Recursion
<1>14. Modes
  BY <1>3 DEF Modes
<1>15. NodeSlots
  <2>1. \A s \in Slots : sched.state[s] \notin {"RECEIVE_BLOCKED", "REPLY_BLOCKED"}
    BY <1>3
  <2> QED BY <2>1, <1>3, EmptyFacts DEF NodeSlots, NodesNameSlots
<1> QED BY <1>2, <1>7, <1>8, <1>9, <1>10, <1>11, <1>12, <1>13, <1>14, <1>15
      DEF IInv, Existence, SchedulerConsistent

-----------------------------------------------------------------------------
\* Every step of the kernel preserves the inductive invariant.
LEMMA StepOK == IInv /\ [Next]_vars => IInv'
<1> SUFFICES ASSUME IInv, [Next]_vars PROVE IInv'
  OBVIOUS
<1>1. CASE UNCHANGED vars
  <2>1. UNCHANGED <<sched, tid, parent, children, awaiting, avail, num_tasks,
                    current, enabled, mode, dstack, corrupt, nodes, msgq>>
    BY <1>1 DEF vars, taskVars, commVars
  <2>2. TypeOK'
    BY <2>1 DEF IInv, TypeOK, TasksTypeOK, CommTypeOK
  <2>3. SchedulerConsistent' /\ Modes' /\ NodeSlots'
    BY <2>1 DEF IInv, SchedulerConsistent, SchedOK, Sound, Modes, NodeSlots,
       NodesNameSlots
  <2>4. Existence'
    <3>1. CASE Sound
      BY <2>1, <3>1, ExistenceFrame DEF IInv, TypeOK, TasksTypeOK
    <3>2. CASE ~ Sound
      BY <2>1, <3>2 DEF Existence, FreeListConsistent, TidsInRange, TidsValid,
         FamilyTree, Ranked, Recursion, Sound
    <3> QED BY <3>1, <3>2
  <2> QED BY <2>2, <2>3, <2>4 DEF IInv
<1>2. CASE Damaged
  BY <1>1, <1>2 DEF Damaged
<1>3. ASSUME NEW call, Running(call) PROVE Sound /\ mode = "user"
  BY <1>3 DEF Running, Sound
<1>4. CASE Create
  <2>1. Sound /\ mode = "user" /\ UNCHANGED <<nodes, msgq>>
    BY <1>3, <1>4 DEF Create, commVars
  <2>2. PICK p \in PriorityArgs : CreateTaskSafe(p)
    BY <1>4 DEF Create
  <2>3. CASE p < HIGHEST_PRIORITY \/ LOW_PRIORITY < p
    BY <2>1, <2>2, <2>3, AnswersOK DEF CreateTaskSafe
  <2>4. CASE ~ (p < HIGHEST_PRIORITY \/ LOW_PRIORITY < p) /\ avail = <<>>
    BY <2>1, <2>2, <2>4, AnswersOK DEF CreateTaskSafe
  <2>5. CASE ~ (p < HIGHEST_PRIORITY \/ LOW_PRIORITY < p) /\ avail # <<>>
    <3>1. p \in Priorities
      BY <2>5, KernelAssumption, ConstantFacts
         DEF Priorities, HIGHEST_PRIORITY, LOW_PRIORITY
    <3>2. CreateTask(p)
      BY <2>2, <2>5 DEF CreateTaskSafe
    <3> QED BY <3>1, <3>2, <2>1, <2>5, CreateOK
  <2> QED BY <2>3, <2>4, <2>5
<1>5. CASE Exit
  BY <1>3, <1>5, ExitOK DEF Exit, commVars
<1>6. CASE Pass \/ MyTid \/ GetMyPriority \/ GetTasksStats
  BY <1>3, <1>6, AnswersOK DEF Pass, MyTid, GetMyPriority, GetTasksStats, Nop,
     GetCurrentTid, GetCurrentTaskPriority, TasksStatsHandler, commVars
<1>7. CASE MyParentTid
  BY <1>3, <1>7, AnswersOK DEF MyParentTid, GetParentTid, commVars
<1>8. CASE GetPriority
  <2>1. PICK t \in TidArgs : GetTaskPriority(t)
    BY <1>8 DEF GetPriority
  <2> QED BY <2>1, <1>3, <1>8, AnswersOK DEF GetPriority, GetTaskPriority, commVars
<1>9. CASE SetMyPriority
  <2>1. PICK p \in Priorities : SetCurrentTaskPriority(p)
    BY <1>9 DEF SetMyPriority
  <2> QED BY <2>1, <1>3, <1>9, SetMyPriorityOK DEF SetMyPriority, commVars
<1>10. CASE SetPriority
  <2>1. PICK t \in TidArgs, p \in Priorities : SetTaskPriority(t, p)
    BY <1>10 DEF SetPriority
  <2>2. Answers("SetPriority", t, -1)
    BY <2>1, ConstantFacts DEF SetTaskPriority
  <2> QED BY <2>2, <1>3, <1>10, AnswersOK DEF SetPriority, commVars
<1>11. CASE Send
  <2>1. PICK t \in TidArgs : SendProxy(t)
    BY <1>11 DEF Send
  <2>2. t \in Int
    BY ConstantFacts DEF TidArgs
  <2> QED BY <2>1, <2>2, <1>3, <1>11, SendOK DEF Send
<1>12. CASE Receive
  BY <1>3, <1>12, ReceiveOK DEF Receive
<1>13. CASE Reply
  <2>1. PICK t \in TidArgs, tooSmall \in BOOLEAN : ReplyProxy(t, tooSmall)
    BY <1>13 DEF Reply
  <2>2. t \in Int
    BY ConstantFacts DEF TidArgs
  <2> QED BY <2>1, <2>2, <1>3, <1>13, ReplyOK DEF Reply
<1>14. CASE AwaitEvent
  <2>1. PICK i \in Interrupts : AwaitEventHandler(i)
    BY <1>14 DEF AwaitEvent
  <2> QED BY <2>1, <1>3, <1>14, AwaitEventOK DEF AwaitEvent, commVars
<1>15. CASE Destroy
  <2>1. Sound /\ mode = "user" /\ UNCHANGED <<nodes, msgq>>
    BY <1>3, <1>15 DEF Destroy, commVars
  <2>2. PICK t \in TidArgs : DestroyHandler(t)
    BY <1>15 DEF Destroy
  <2>3. CASE ~ IsValidTid(t) \/ tid[SlotOf(t)] # t
    BY <2>1, <2>2, <2>3, AnswersOK DEF DestroyHandler
  <2>4. CASE IsValidTid(t) /\ tid[SlotOf(t)] = t
    <3>1. EnterDestroy(SlotOf(t), children)
      BY <2>2, <2>4 DEF DestroyHandler
    <3>2. SlotOf(t) \in Slots
      BY ConstantFacts, SlotFacts DEF TidArgs
    <3>3. /\ children \in [Slots -> Seq(Slots)] /\ dstack = <<>>
          /\ \A x \in Slots : Distinct(children[x])
      BY <2>1, UserFacts DEF IInv, TypeOK, TasksTypeOK, Existence, FamilyTree
    <3> QED BY <3>1, <3>2, <3>3, <2>1, EnterDestroyOK
  <2> QED BY <2>3, <2>4
<1>16. CASE Irq
  <2>1. PICK i \in enabled : HandleIrq(i)
    BY <1>16 DEF Irq
  <2> QED BY <2>1, <1>16, IrqOK DEF Irq, Sound, commVars
<1>17. CASE DestroyStep
  BY <1>17, DestroyChildOK, DestroySelfOK DEF DestroyStep, Sound, commVars
<1>18. CASE Activate
  <2>1. Sound /\ mode = "kernel" /\ UNCHANGED <<nodes, msgq>>
    BY <1>18 DEF Activate, Sound
  <2>2. CASE ScheduleAndActivate
    BY <2>1, <2>2, ScheduleOK
  <2>3. CASE ActivateNobody
    BY <2>1, <2>3, DamageOK DEF ActivateNobody, Damages, NotCorrupt
  <2> QED BY <2>2, <2>3, <1>18 DEF Activate
<1> QED BY <1>1, <1>2, <1>4, <1>5, <1>6, <1>7, <1>8, <1>9, <1>10, <1>11, <1>12,
      <1>13, <1>14, <1>15, <1>16, <1>17, <1>18 DEF Next, SystemCall

-----------------------------------------------------------------------------
\* The inductive invariant holds in every reachable state.
THEOREM Invariance == Spec => []IInv
<1>1. Init => IInv
  BY InitOK
<1>2. IInv /\ [Next]_vars => IInv'
  BY StepOK
<1> QED BY <1>1, <1>2, PTL DEF Spec

\* The kernel's descriptors, lists and message nodes keep their types.
THEOREM TypeCorrect == Spec => []TypeOK
<1>1. IInv => TypeOK
  BY DEF IInv
<1> QED BY <1>1, Invariance, PTL

\* The scheduler's lists agree with the descriptors (task.c, task_queue.c):
\* no task is lost, listed twice or listed under a stale state or priority.
THEOREM SchedulerAgrees == Spec => []SchedulerConsistent
<1>1. IInv => SchedulerConsistent
  BY DEF IInv
<1> QED BY <1>1, Invariance, PTL

\* available_descriptors holds the FREE descriptors, each once.
THEOREM FreeListAgrees == Spec => []FreeListConsistent
<1>1. IInv => FreeListConsistent
  BY DEF IInv, Existence
<1> QED BY <1>1, Invariance, PTL

\* A tid names its slot and stays in range.
THEOREM TidsStayInRange == Spec => []TidsInRange
<1>1. IInv => TidsInRange
  BY DEF IInv, Existence
<1> QED BY <1>1, Invariance, PTL

\* The children lists are the inverse of parent_tid, and nobody outlives the
\* descriptor of its parent, at every step of DestroyHandler's recursion.
THEOREM FamilyTreeAgrees == Spec => []FamilyTree
<1>1. IInv => FamilyTree
  BY DEF IInv, Existence
<1> QED BY <1>1, Invariance, PTL

-----------------------------------------------------------------------------
(* What follows from how each step moves tasks between their states: that  *)
(* the message queues agree with who is blocked in Send and Receive, who   *)
(* is dead for good, who runs, and what the calls that answer with a state *)
(* of affairs answer.  Tasks that destroy nobody, or only as CanDestroy    *)
(* allows, never damage the kernel, and for them Send, Receive and Reply   *)
(* are the rendezvous of module Rendezvous.                                *)

\* The ways in which a step other than Send and Receive treats a task.
Same(s) == sched'.state[s] = sched.state[s] /\ tid'[s] = tid[s]
Born(s) == /\ sched.state[s] = "FREE" /\ sched'.state[s] = "READY" /\ Create
           /\ tid'[s] = tid[s] + MAX_TASKS
Dies(s) == /\ ~ IsDead(s) /\ sched'.state[s] \in DeadStates
           /\ tid'[s] = tid[s] /\ Linked(dstack, s)
Stops(s) == /\ sched.state[s] = "ACTIVE" /\ tid'[s] = tid[s] /\ tid[s] # 0
            /\ \/ sched'.state[s] = "ZOMBIE" /\ Exit
               \/ sched'.state[s] = "EVENT_BLOCKED" /\ AwaitEvent
Woken(s) == /\ sched.state[s] = "EVENT_BLOCKED" /\ sched'.state[s] = "READY"
            /\ tid'[s] = tid[s] /\ WokenBy(s, awaiting[s])
Answered(s) == /\ sched.state[s] = "REPLY_BLOCKED" /\ sched'.state[s] = "READY"
               /\ tid'[s] = tid[s]
               /\ result'.call = "Reply" /\ result'.arg = tid[s]
Yields(s) == /\ sched.state[s] = "ACTIVE" /\ sched'.state[s] = "READY"
             /\ tid'[s] = tid[s]
Chosen(s) == /\ sched.state[s] = "READY" /\ sched'.state[s] = "ACTIVE"
             /\ tid'[s] = tid[s] /\ mode = "kernel"
Moves(s) == \/ Same(s) \/ Born(s) \/ Dies(s) \/ Stops(s) \/ Woken(s)
            \/ Answered(s) \/ Yields(s) \/ Chosen(s)

\* All tasks but one stay as they are, or give way to the next.
Alone == \E m \in Slots : \A s \in Slots :
           s # m => Same(s) \/ Yields(s) \/ Chosen(s)
Quiet == UNCHANGED <<nodes, msgq>> /\ Alone /\ \A s \in Slots : Moves(s)

-----------------------------------------------------------------------------
\* What the invariant says of the kernel's variables in any mode.
LEMMA SoundFacts ==
  ASSUME IInv, Sound
  PROVE  /\ sched \in SchedTypes /\ SchedOK(sched, {current})
         /\ tid \in [Slots -> Int] /\ parent \in [Slots -> Int]
         /\ nodes \in [Slots -> [from : Int, to : Int, put : Slots \cup {Garbage}]]
         /\ msgq \in [Slots -> Seq(Slots)]
         /\ NodesNameSlots(nodes, msgq, sched.state)
         /\ \A s \in Slots : SlotOf(tid[s]) = s
BY DEF IInv, TypeOK, TasksTypeOK, CommTypeOK, SchedulerConsistent, NodeSlots,
   Existence, TidsInRange

\* SetTaskState moves one task, if it is still the one meant.
LEMMA MovesOne ==
  ASSUME IInv, Sound, NEW t, NEW to \in TaskStates, NEW s \in Slots,
         SlotOf(t) = s, sched.state[s] \in QueuedStates
  PROVE  SetTaskState(sched, t, to).state =
           IF tid[s] = t THEN [sched.state EXCEPT ![s] = to] ELSE sched.state
<1>1. sched \in SchedTypes /\ SchedOK(sched, {current})
  BY SoundFacts
<1>2. /\ SlotOf(t) \in Slots
      /\ tid[SlotOf(t)] = t => sched.state[SlotOf(t)] \in QueuedStates
  OBVIOUS
<1>3. SetTaskState(sched, t, to).state =
        IF tid[SlotOf(t)] = t THEN [sched.state EXCEPT ![SlotOf(t)] = to]
        ELSE sched.state
  BY <1>1, <1>2, SetTaskStateOK, ZenonT(30)
<1> QED BY <1>3

\* A step that leaves states and tids alone.
LEMMA SameQuiet ==
  ASSUME UNCHANGED <<sched, tid, nodes, msgq>>
  PROVE  Quiet
BY ConstantFacts DEF Quiet, Alone, Moves, Same

LEMMA AnswersQuiet ==
  ASSUME NEW call, NEW arg, NEW value, Answers(call, arg, value),
         UNCHANGED commVars
  PROVE  Quiet
BY SameQuiet DEF Answers, commVars

LEMMA DamageQuiet ==
  ASSUME NEW how, Damage(how), UNCHANGED <<nodes, msgq>>
  PROVE  Quiet
BY SameQuiet DEF Damage

LEMMA CreateQuiet ==
  ASSUME IInv, Sound, Create, mode = "user", NEW p, avail # <<>>,
         CreateTask(p), UNCHANGED commVars
  PROVE  Quiet
<1> DEFINE s == Head(avail)
           fresh == [sched EXCEPT !.state[s] = "READY", !.priority[s] = p]
<1>1. sched' = EnqueueTask(fresh, s) /\ UNCHANGED <<nodes, msgq>>
      /\ tid' = [tid EXCEPT ![s] = tid[s] + MAX_TASKS]
  BY DEF CreateTask, NextTid, commVars
<1>2. s \in Slots /\ sched.state[s] = "FREE"
  <2>1. avail \in Seq(Slots) /\ Distinct(avail)
    BY DEF IInv, TypeOK, TasksTypeOK, Existence, FreeListConsistent
  <2>2. s \in Slots /\ Linked(avail, s)
    BY <2>1, DequeueProperties
  <2> QED BY <2>2 DEF IInv, Existence, FreeListConsistent
<1>3. sched \in SchedTypes /\ tid \in [Slots -> Int]
  BY SoundFacts
<1> HIDE DEF s
<1>4. sched'.state = [sched.state EXCEPT ![s] = "READY"]
  BY <1>1, <1>3 DEF EnqueueTask, SchedTypes
<1>5. \A m \in Slots : IF m = s THEN Born(m) ELSE Same(m)
  BY <1>1, <1>2, <1>3, <1>4 DEF Born, Same, SchedTypes
<1> QED BY <1>1, <1>2, <1>5 DEF Quiet, Alone, Moves

\* Exit and AwaitEvent: only the running task changes its state.
LEMMA StopsQuiet ==
  ASSUME IInv, Sound, mode = "user", tid[current] # 0,
         NEW to \in {"ZOMBIE", "EVENT_BLOCKED"},
         to = "ZOMBIE" => Exit, to = "EVENT_BLOCKED" => AwaitEvent,
         sched' = SetCurrentTaskState(sched, to),
         UNCHANGED <<tid, nodes, msgq>>
  PROVE  Quiet
<1>1. current \in Slots /\ sched.state[current] = "ACTIVE"
  BY UserFacts
<1>2. sched'.state = [sched.state EXCEPT ![current] = to]
  BY SetCurrentOK, StatesFacts
<1>3. \A m \in Slots : IF m = current THEN Stops(m) ELSE Same(m)
  BY <1>1, <1>2, SoundFacts DEF Stops, Same, SchedTypes
<1> QED BY <1>1, <1>3 DEF Quiet, Alone, Moves

LEMMA SetMyPriorityQuiet ==
  ASSUME IInv, Sound, NEW p, SetCurrentTaskPriority(p), UNCHANGED commVars
  PROVE  Quiet
<1>1. CASE LOW_PRIORITY < p
  BY <1>1, AnswersQuiet DEF SetCurrentTaskPriority
<1>2. CASE ~ (LOW_PRIORITY < p)
  <2>1. sched' = [sched EXCEPT !.priority[current] = p]
        /\ UNCHANGED <<tid, nodes, msgq>>
    BY <1>2 DEF SetCurrentTaskPriority, descVars, commVars
  <2>2. sched'.state = sched.state
    BY <2>1, SoundFacts DEF SchedTypes
  <2> QED BY <2>1, <2>2, ConstantFacts DEF Quiet, Alone, Moves, Same
<1> QED BY <1>1, <1>2

LEMMA IrqQuiet ==
  ASSUME IInv, Sound, mode = "user", NEW i \in enabled, HandleIrq(i),
         UNCHANGED commVars
  PROVE  Quiet
<1>1. /\ UNCHANGED <<tid, nodes, msgq>>
      /\ result'.call = "HandleIrq" /\ result'.arg = i
  BY DEF HandleIrq, Returns, descVars, commVars
<1>2. CASE \A p \in Priorities : WaitersAt(i, p) = {}
  BY <1>1, <1>2, SameQuiet DEF HandleIrq, UnblockTaskWaitingOnEvent
<1>3. CASE ~ \A p \in Priorities : WaitersAt(i, p) = {}
  <2> DEFINE f == FirstWaiter(i)
             r == SetTaskState(sched, tid[f], "READY")
  <2>1. /\ f \in Slots /\ sched.state[f] = "EVENT_BLOCKED" /\ awaiting[f] = i
    BY <1>3, SoundFacts, FirstWaiterOK
  <2> HIDE DEF f
  <2>2. sched' = r
    BY <1>3 DEF HandleIrq, UnblockTaskWaitingOnEvent, f
  <2>3. SlotOf(tid[f]) = f
    BY <2>1, SoundFacts
  <2>4. r.state = [sched.state EXCEPT ![f] = "READY"]
    <3>1. "READY" \in TaskStates /\ "EVENT_BLOCKED" \in QueuedStates
      BY StatesFacts
    <3> HIDE DEF r
    <3> QED BY <3>1, <2>1, <2>3, MovesOne DEF r
  <2> HIDE DEF r
  <2>5. \A m \in Slots : IF m = f THEN Woken(m) ELSE Same(m)
    <3>1. \A m \in Slots : /\ sched'.state[m] = IF m = f THEN "READY"
                                                 ELSE sched.state[m]
                           /\ tid'[m] = tid[m]
      BY <1>1, <2>1, <2>2, <2>4, SoundFacts DEF SchedTypes
    <3>2. WokenBy(f, awaiting[f])
      BY <1>1, <2>1, <3>1 DEF WokenBy
    <3> QED BY <2>1, <3>1, <3>2 DEF Woken, Same
  <2> QED BY <1>1, <2>1, <2>5 DEF Quiet, Alone, Moves
<1> QED BY <1>2, <1>3

LEMMA ReplyQuiet ==
  ASSUME IInv, Sound, mode = "user", NEW t \in Int, NEW tooSmall,
         ReplyProxy(t, tooSmall)
  PROVE  Quiet
<1> DEFINE s == SlotOf(t)
           from == nodes[s].from
           sc == SetTaskState(sched, from, "READY")
<1>1. CASE ~ (IsValidTid(t) /\ IsTaskAlive(t) /\ AwaitsReply(t))
  BY <1>1, AnswersQuiet DEF ReplyProxy
<1>2. CASE IsValidTid(t) /\ IsTaskAlive(t) /\ AwaitsReply(t)
  <2>1. /\ sched' = sc /\ result'.call = "Reply" /\ result'.arg = t
        /\ UNCHANGED <<tid, nodes, msgq>>
    BY <1>2 DEF ReplyProxy, Returns, descVars, commVars
  <2>2. s \in Slots /\ sched.state[s] = "REPLY_BLOCKED" /\ tid[s] = t
    BY <1>2, SlotFacts DEF AwaitsReply, IsTaskAlive
  <2> HIDE DEF s
  <2>3. SlotOf(from) = s
    BY <2>2, SoundFacts DEF NodesNameSlots
  <2> HIDE DEF from
  <2>4. sc.state = IF tid[s] = from THEN [sched.state EXCEPT ![s] = "READY"]
                   ELSE sched.state
    <3>1. "READY" \in TaskStates /\ "REPLY_BLOCKED" \in QueuedStates
      BY StatesFacts
    <3> HIDE DEF sc
    <3> QED BY <3>1, <2>2, <2>3, MovesOne DEF sc
  <2> HIDE DEF sc
  <2>5. \A m \in Slots : IF m = s THEN Answered(m) \/ Same(m) ELSE Same(m)
    BY <2>1, <2>2, <2>4, SoundFacts DEF Answered, Same, SchedTypes
  <2> QED BY <2>1, <2>2, <2>5 DEF Quiet, Alone, Moves
<1> QED BY <1>1, <1>2

LEMMA DestroySelfQuiet ==
  ASSUME IInv, Sound, DestroySelf, UNCHANGED commVars
  PROVE  Quiet
<1> DEFINE s == Destroying
           to == StateOnceDestroyed(s)
<1>1. /\ mode = "destroy" /\ sched' = SetTaskState(sched, tid[s], to)
      /\ UNCHANGED <<tid, nodes, msgq>>
  BY DEF DestroySelf, descVars, commVars
<1>2. s \in Slots /\ ~ IsDead(s) /\ Linked(dstack, s)
  BY <1>1, DestroyingFacts
<1>3. to \in TaskStates /\ to \in DeadStates
  BY StatesFacts DEF StateOnceDestroyed
<1> HIDE DEF s, to
<1>4. sched.state[s] \in QueuedStates /\ SlotOf(tid[s]) = s
  BY <1>2, SoundFacts, StatesFacts DEF IsDead, SchedTypes
<1>5. sched'.state = [sched.state EXCEPT ![s] = to]
  BY <1>1, <1>2, <1>3, <1>4, MovesOne
<1>6. \A m \in Slots : IF m = s THEN Dies(m) ELSE Same(m)
  BY <1>1, <1>2, <1>3, <1>5, SoundFacts DEF Dies, Same, SchedTypes
<1> QED BY <1>1, <1>2, <1>6 DEF Quiet, Alone, Moves

\* The task that is activated was READY, or has just been made so.
LEMMA ScheduleFacts ==
  ASSUME IInv, Sound, ScheduleAndActivate
  PROVE  /\ current' \in Slots /\ Requeued.state[current'] = "READY"
         /\ sched' \in SchedTypes
         /\ sched'.state = [Requeued.state EXCEPT ![current'] = "ACTIVE"]
         /\ \A m \in Slots : Requeued.state[m] = "READY" =>
              sched'.priority[current'] <= sched'.priority[m]
<1> DEFINE n == Head(Requeued.queue["READY"][Best(Requeued)])
           E == {}
<1>1. /\ sched' = ActivateNext(Requeued) /\ current' = n
      /\ ReadyPriorities(Requeued) # {}
  BY DEF ScheduleAndActivate
<1>2. Requeued \in SchedTypes /\ SchedOK(Requeued, E)
  BY RequeuedOK
<1>3. \A m \in Slots : m \notin E
  OBVIOUS
<1> HIDE DEF E
<1>4. /\ n \in Slots /\ Requeued.state[n] = "READY"
      /\ \A m \in Slots \ E : Requeued.state[m] = "READY" =>
           Requeued.priority[n] <= Requeued.priority[m]
      /\ ActivateNext(Requeued) \in SchedTypes
      /\ ActivateNext(Requeued).state = [Requeued.state EXCEPT ![n] = "ACTIVE"]
      /\ ActivateNext(Requeued).priority = Requeued.priority
  BY <1>1, <1>2, ActivateNextOK
<1> HIDE DEF n
<1> QED BY <1>1, <1>3, <1>4

LEMMA ScheduleQuiet ==
  ASSUME IInv, Sound, mode = "kernel", ScheduleAndActivate,
         UNCHANGED <<nodes, msgq>>
  PROVE  Quiet
<1>1. UNCHANGED tid /\ Requeued \in SchedTypes /\ sched \in SchedTypes
  BY RequeuedOK, SoundFacts DEF ScheduleAndActivate, descVars
<1>2. ASSUME NEW m \in Slots PROVE Same(m) \/ Yields(m) \/ Chosen(m)
  <2>1. \/ Requeued.state[m] = sched.state[m]
        \/ sched.state[m] = "ACTIVE" /\ Requeued.state[m] = "READY"
    BY RequeuedOK
  <2>2. sched'.state[m] = IF m = current' THEN "ACTIVE" ELSE Requeued.state[m]
    BY <1>1, ScheduleFacts DEF SchedTypes
  <2>3. m = current' => Requeued.state[m] = "READY"
    BY ScheduleFacts
  <2> QED BY <1>1, <2>1, <2>2, <2>3 DEF Same, Yields, Chosen
<1> QED BY <1>2, ConstantFacts DEF Quiet, Alone, Moves

\* Every step other than Send and Receive is quiet.
LEMMA QuietStep ==
  ASSUME IInv, [Next]_vars, ~ (Sound /\ mode = "user" /\ (Send \/ Receive))
  PROVE  Quiet
<1>1. CASE UNCHANGED vars
  BY <1>1, SameQuiet DEF vars, taskVars, commVars
<1>2. CASE Damaged
  BY <1>1, <1>2 DEF Damaged
<1>3. ASSUME NEW call, Running(call)
      PROVE  Sound /\ mode = "user" /\ tid[current] # 0
  BY <1>3 DEF Running, Sound
<1>4. CASE Create
  <2>1. Sound /\ mode = "user" /\ UNCHANGED commVars
    BY <1>3, <1>4 DEF Create
  <2>2. PICK p \in PriorityArgs : CreateTaskSafe(p)
    BY <1>4 DEF Create
  <2> QED BY <1>4, <2>1, <2>2, AnswersQuiet, CreateQuiet DEF CreateTaskSafe
<1>5. CASE Exit
  <2>1. /\ Sound /\ mode = "user" /\ tid[current] # 0
        /\ UNCHANGED <<tid, nodes, msgq>>
        /\ sched' = SetCurrentTaskState(sched, "ZOMBIE")
    BY <1>3, <1>5 DEF Exit, ExitTask, descVars, commVars
  <2> DEFINE to == "ZOMBIE"
  <2>2. /\ to \in {"ZOMBIE", "EVENT_BLOCKED"}
        /\ (to = "ZOMBIE" => Exit) /\ (to = "EVENT_BLOCKED" => AwaitEvent)
        /\ sched' = SetCurrentTaskState(sched, to)
    BY <1>5, <2>1
  <2> HIDE DEF to
  <2> QED BY <2>1, <2>2, StopsQuiet
<1>6. CASE Pass \/ MyTid \/ MyParentTid \/ GetMyPriority \/ GetTasksStats
  BY <1>6, AnswersQuiet DEF Pass, MyTid, MyParentTid, GetMyPriority,
     GetTasksStats, Nop, GetCurrentTid, GetParentTid, GetCurrentTaskPriority,
     TasksStatsHandler
<1>7. CASE GetPriority
  BY <1>7, AnswersQuiet DEF GetPriority, GetTaskPriority
<1>8. CASE SetMyPriority
  BY <1>3, <1>8, SetMyPriorityQuiet DEF SetMyPriority
<1>9. CASE SetPriority
  <2>1. PICK t \in TidArgs, p \in Priorities : SetTaskPriority(t, p)
    BY <1>9 DEF SetPriority
  <2>2. Answers("SetPriority", t, -1)
    BY <2>1, ConstantFacts DEF SetTaskPriority
  <2> QED BY <2>2, <1>9, AnswersQuiet DEF SetPriority
<1>10. CASE Reply
  <2>1. PICK t \in TidArgs, tooSmall \in BOOLEAN : ReplyProxy(t, tooSmall)
    BY <1>10 DEF Reply
  <2>2. t \in Int
    BY ConstantFacts DEF TidArgs
  <2> QED BY <2>1, <2>2, <1>3, <1>10, ReplyQuiet DEF Reply
<1>11. CASE AwaitEvent
  <2>1. /\ Sound /\ mode = "user" /\ tid[current] # 0
        /\ UNCHANGED <<tid, nodes, msgq>>
        /\ sched' = SetCurrentTaskState(sched, "EVENT_BLOCKED")
    BY <1>3, <1>11 DEF AwaitEvent, AwaitEventHandler, descVars, commVars
  <2> QED BY <2>1, <1>11, StopsQuiet
<1>12. CASE Destroy
  <2>1. PICK t \in TidArgs : DestroyHandler(t)
    BY <1>12 DEF Destroy
  <2>2. UNCHANGED <<sched, tid, nodes, msgq>>
    BY <2>1, <1>12 DEF Destroy, DestroyHandler, EnterDestroy, Answers, Damage,
       commVars
  <2> QED BY <2>2, SameQuiet
<1>13. CASE Irq
  <2>1. PICK i \in enabled : HandleIrq(i)
    BY <1>13 DEF Irq
  <2> QED BY <2>1, <1>13, IrqQuiet DEF Irq, Sound
<1>14. CASE DestroyStep
  <2>1. Sound /\ UNCHANGED commVars
    BY <1>14 DEF DestroyStep, Sound
  <2>2. CASE DestroyChild
    BY <2>1, <2>2, SameQuiet DEF DestroyChild, EnterDestroy, Damage, commVars
  <2>3. CASE DestroySelf
    BY <2>1, <2>3, DestroySelfQuiet
  <2> QED BY <2>2, <2>3, <1>14 DEF DestroyStep
<1>15. CASE Activate
  <2>1. Sound /\ mode = "kernel" /\ UNCHANGED <<nodes, msgq>>
    BY <1>15 DEF Activate, Sound
  <2>2. CASE ScheduleAndActivate
    BY <2>1, <2>2, ScheduleQuiet
  <2>3. CASE ActivateNobody
    BY <2>1, <2>3, DamageQuiet DEF ActivateNobody
  <2> QED BY <2>2, <2>3, <1>15 DEF Activate
<1>16. CASE Send \/ Receive
  BY <1>3, <1>16 DEF Send, Receive
<1> QED BY <1>1, <1>2, <1>4, <1>5, <1>6, <1>7, <1>8, <1>9, <1>10, <1>11, <1>12,
      <1>13, <1>14, <1>15, <1>16 DEF Next, SystemCall

-----------------------------------------------------------------------------
(* Send and Receive.                                                       *)

\* Who waits in Receive has no mail, and its own buffers.
NoMailFor(nd, mq, st, S) ==
  \A s \in S : st[s] = "SEND_BLOCKED" => mq[s] = <<>> /\ nd[s].put = s

\* Who is blocked in Send is filed where its node says; once received, or
\* waiting itself, nowhere.  A node that is filed for anybody else is left
\* from a sender that has been destroyed.
Filed(nd, mq, st, td) ==
  \A s \in Slots :
    /\ st[s] = "SEND_BLOCKED" => \A r \in Slots : ~ Linked(mq[r], s)
    /\ st[s] = "RECEIVE_BLOCKED" =>
         nd[s].from = td[s] /\ Linked(mq[SlotOf(nd[s].to)], s)
    /\ st[s] = "REPLY_BLOCKED" =>
         nd[s].from = td[s] /\ \A r \in Slots : ~ Linked(mq[r], s)
    /\ \A r \in Slots : Linked(mq[r], s) =>
         \/ /\ nd[s].from = td[s]
            /\ st[s] \in {"RECEIVE_BLOCKED"} \cup DeadStates
         \/ nd[s].from < td[s]

MailInv == Sound => /\ NoMailFor(nodes, msgq, sched.state, Slots)
                    /\ Filed(nodes, msgq, sched.state, tid)

\* Nothing but Send and Receive makes a task wait for a message or a reply.
LEMMA QuietMail ==
  ASSUME IInv, Sound, MailInv, Quiet
  PROVE  MailInv'
<1>1. UNCHANGED <<nodes, msgq>> /\ \A s \in Slots : Moves(s)
  BY DEF Quiet
<1>2. /\ NoMailFor(nodes, msgq, sched.state, Slots)
      /\ Filed(nodes, msgq, sched.state, tid)
  BY DEF MailInv
<1> DEFINE Blocked == {"SEND_BLOCKED", "RECEIVE_BLOCKED", "REPLY_BLOCKED"}
<1>3. ASSUME NEW s \in Slots, sched'.state[s] \in Blocked PROVE Same(s)
  BY <1>1, <1>3 DEF Moves, Born, Dies, Stops, Woken, Answered, Yields, Chosen,
     DeadStates
<1>4. NoMailFor(nodes, msgq, sched'.state, Slots)
  BY <1>2, <1>3 DEF NoMailFor, Same
<1>5. ASSUME NEW s \in Slots, NEW r \in Slots, Linked(msgq[r], s)
      PROVE  \/ /\ nodes[s].from = tid'[s]
                /\ sched'.state[s] \in {"RECEIVE_BLOCKED"} \cup DeadStates
             \/ nodes[s].from < tid'[s]
  <2>1. \/ /\ nodes[s].from = tid[s]
           /\ sched.state[s] \in {"RECEIVE_BLOCKED"} \cup DeadStates
        \/ nodes[s].from < tid[s]
    BY <1>2, <1>5 DEF Filed
  <2>2. nodes[s].from \in Int /\ tid[s] \in Int /\ MAX_TASKS \in Nat /\ MAX_TASKS >= 2
    BY SoundFacts, ConstantFacts
  <2>3. CASE Same(s)
    BY <2>1, <2>3 DEF Same
  <2>4. CASE Born(s)
    BY <2>1, <2>2, <2>4 DEF Born
  <2>5. CASE Dies(s)
    BY <2>1, <2>5 DEF Dies, IsDead
  <2>6. CASE Stops(s) \/ Woken(s) \/ Answered(s) \/ Yields(s) \/ Chosen(s)
    BY <2>1, <2>6 DEF Stops, Woken, Answered, Yields, Chosen, DeadStates
  <2> QED BY <1>1, <2>3, <2>4, <2>5, <2>6 DEF Moves
<1>6. Filed(nodes, msgq, sched'.state, tid')
  BY <1>2, <1>3, <1>5 DEF Filed, Same
<1> QED BY <1>1, <1>4, <1>6 DEF MailInv

\* A delivery to a receiver that is running, or waits and is the addressee.
LEMMA DeliveryMail ==
  ASSUME IInv, Sound, NEW t \in Int, NEW nd, NEW mq, NEW sc \in SchedTypes,
         nd \in [Slots -> [from : Int, to : Int, put : Slots \cup {Garbage}]],
         mq \in [Slots -> Seq(Slots)], NodesNameSlots(nd, mq, sc.state),
         NoMailFor(nd, mq, sc.state, Slots \ {SlotOf(t)}),
         Filed(nd, mq, sc.state, tid),
         \/ sc.state[SlotOf(t)] = "ACTIVE"
         \/ /\ sc.state[SlotOf(t)] = "SEND_BLOCKED"
            /\ nd[Head(mq[SlotOf(t)])].to = tid[SlotOf(t)],
         Delivered(t, nd, mq, sc)
  PROVE  MailInv'
<1> DEFINE r == SlotOf(t)
           n == Head(mq[r])
<1>1. CASE Damage("destroyed sender resumed")
  BY <1>1 DEF Damage, MailInv, Sound, NotCorrupt
<1>2. CASE ~ Damage("destroyed sender resumed")
  <2>1. /\ n \in Slots /\ Linked(mq[r], n) /\ SlotOf(nd[n].to) = r /\ r \in Slots
        /\ \A m : Linked(DequeueQueue(mq[r]), m) <=> Linked(mq[r], m) /\ m # n
        /\ nodes' = nd /\ msgq' = [mq EXCEPT ![r] = DequeueQueue(mq[r])]
        /\ \A s \in Slots : sched'.state[s] =
             IF s = r /\ tid[r] = nd[n].to THEN "READY"
             ELSE IF s = n /\ tid[n] = nd[n].from THEN "REPLY_BLOCKED"
             ELSE sc.state[s]
        /\ tid' = tid
    BY <1>2, SlotFacts DEF Delivered
  <2>2. \/ sc.state[r] = "ACTIVE"
        \/ sc.state[r] = "SEND_BLOCKED" /\ nd[n].to = tid[r]
    OBVIOUS
  <2>3. NoMailFor(nd, mq, sc.state, Slots \ {r})
    OBVIOUS
  <2> HIDE DEF r, n
  <2>4. \A q \in Slots : msgq'[q] = IF q = r THEN DequeueQueue(mq[r]) ELSE mq[q]
    BY <2>1
  <2>5. \A q, s \in Slots : Linked(msgq'[q], s) <=> Linked(mq[q], s) /\ s # n
    <3>1. \A q \in Slots : Linked(mq[q], n) => q = r
      BY <2>1 DEF NodesNameSlots
    <3> QED BY <2>1, <2>4, <3>1
  <2>6. NoMailFor(nd, msgq', sched'.state, Slots)
    <3> SUFFICES ASSUME NEW s \in Slots, sched'.state[s] = "SEND_BLOCKED"
                 PROVE  msgq'[s] = <<>> /\ nd[s].put = s
      BY DEF NoMailFor
    <3>1. sc.state[s] = "SEND_BLOCKED" /\ s # r
      BY <2>1, <2>2
    <3> QED BY <3>1, <2>3, <2>4 DEF NoMailFor
  <2>7. ASSUME NEW s \in Slots
        PROVE  /\ sched'.state[s] = "SEND_BLOCKED" =>
                    \A q \in Slots : ~ Linked(msgq'[q], s)
               /\ sched'.state[s] = "RECEIVE_BLOCKED" =>
                    nd[s].from = tid[s] /\ Linked(msgq'[SlotOf(nd[s].to)], s)
               /\ sched'.state[s] = "REPLY_BLOCKED" =>
                    nd[s].from = tid[s] /\ \A q \in Slots : ~ Linked(msgq'[q], s)
               /\ \A q \in Slots : Linked(msgq'[q], s) =>
                    \/ /\ nd[s].from = tid[s]
                       /\ sched'.state[s] \in {"RECEIVE_BLOCKED"} \cup DeadStates
                    \/ nd[s].from < tid[s]
    <3>1. /\ sc.state[s] = "SEND_BLOCKED" => \A q \in Slots : ~ Linked(mq[q], s)
          /\ sc.state[s] = "RECEIVE_BLOCKED" =>
               nd[s].from = tid[s] /\ Linked(mq[SlotOf(nd[s].to)], s)
          /\ sc.state[s] = "REPLY_BLOCKED" =>
               nd[s].from = tid[s] /\ \A q \in Slots : ~ Linked(mq[q], s)
          /\ \A q \in Slots : Linked(mq[q], s) =>
               \/ /\ nd[s].from = tid[s]
                  /\ sc.state[s] \in {"RECEIVE_BLOCKED"} \cup DeadStates
               \/ nd[s].from < tid[s]
      BY DEF Filed
    <3>2. CASE s = n
      <4>1. \A q \in Slots : ~ Linked(msgq'[q], s)
        BY <2>5, <3>2
      <4>2. sched'.state[s] = "RECEIVE_BLOCKED" => FALSE
        BY <2>1, <3>1, <3>2
      <4>3. sched'.state[s] = "REPLY_BLOCKED" => nd[s].from = tid[s]
        BY <2>1, <3>1, <3>2
      <4> QED BY <4>1, <4>2, <4>3
    <3>3. CASE s # n
      <4>1. \A q \in Slots : Linked(msgq'[q], s) <=> Linked(mq[q], s)
        BY <2>5, <3>3
      <4>2. \/ sched'.state[s] = sc.state[s]
            \/ s = r /\ sched'.state[s] = "READY"
        BY <2>1, <3>3
      <4>3. CASE sched'.state[s] = sc.state[s]
        <5>1. SlotOf(nd[s].to) \in Slots
          BY SlotFacts
        <5> QED BY <4>1, <4>3, <3>1, <5>1
      <4>4. CASE s = r /\ sched'.state[s] = "READY"
        BY <4>1, <4>4, <3>1, <2>2 DEF DeadStates
      <4> QED BY <4>2, <4>3, <4>4
    <3> QED BY <3>2, <3>3
  <2>8. Filed(nd, msgq', sched'.state, tid)
    BY <2>7 DEF Filed
  <2> QED BY <2>1, <2>6, <2>8 DEF MailInv
<1> QED BY <1>1, <1>2

\* The ways in which Send and Receive treat a task.
Blocks(s) ==
  /\ sched.state[s] = "ACTIVE"
  /\ sched'.state[s] \in {"SEND_BLOCKED", "RECEIVE_BLOCKED", "REPLY_BLOCKED"}
Received(s) ==
  /\ sched.state[s] = "RECEIVE_BLOCKED" /\ sched'.state[s] = "REPLY_BLOCKED"
  /\ delivery'.from = tid[s]
Resumes(s) ==
  /\ sched.state[s] \in {"SEND_BLOCKED", "ACTIVE"}
  /\ sched'.state[s] = "READY"
Talks == /\ UNCHANGED tid
         /\ \A s \in Slots : Same(s) \/ Blocks(s) \/ Received(s) \/ Resumes(s)

LEMMA SameTalks ==
  ASSUME UNCHANGED <<sched, tid>>
  PROVE  Talks
BY DEF Talks, Same

\* CompleteReceive notes whose message it delivers.
LEMMA DeliveredFrom ==
  ASSUME NEW call, NEW arg, NEW t, NEW nd, NEW mq, NEW sc,
         CompleteReceive(call, arg, t, nd, mq, sc),
         ~ Damage("destroyed sender resumed")
  PROVE  delivery'.from = nd[Head(mq[SlotOf(t)])].from
<1> DEFINE n == Head(mq[SlotOf(t)])
<1>1. PICK into : delivery' = [from |-> nd[n].from, to |-> nd[n].to, by |-> t,
                               into |-> into, behind |-> Len(mq[SlotOf(t)]) - 1]
  BY DEF CompleteReceive
<1> HIDE DEF n
<1>2. delivery'.from = nd[n].from
  BY <1>1
<1> QED BY <1>2 DEF n

LEMMA DeliveryTalks ==
  ASSUME IInv, Sound, NEW call, NEW arg, NEW t \in Int, NEW nd, NEW mq,
         NEW sc \in SchedTypes,
         Filed(nd, mq, sc.state, tid),
         \A s \in Slots : \/ sc.state[s] = sched.state[s]
                          \/ /\ sched.state[s] = "ACTIVE"
                             /\ sc.state[s] = "RECEIVE_BLOCKED",
         sc.state[SlotOf(t)] \in {"ACTIVE", "SEND_BLOCKED"},
         CompleteReceive(call, arg, t, nd, mq, sc), Delivered(t, nd, mq, sc)
  PROVE  Talks
<1> DEFINE r == SlotOf(t)
           n == Head(mq[r])
<1>1. CASE Damage("destroyed sender resumed")
  BY <1>1, SameTalks DEF Damage
<1>2. CASE ~ Damage("destroyed sender resumed")
  <2>1. /\ n \in Slots /\ Linked(mq[r], n) /\ r \in Slots
        /\ tid[n] = nd[n].from => sc.state[n] \in QueuedStates
        /\ \A s \in Slots : sched'.state[s] =
             IF s = r /\ tid[r] = nd[n].to THEN "READY"
             ELSE IF s = n /\ tid[n] = nd[n].from THEN "REPLY_BLOCKED"
             ELSE sc.state[s]
        /\ tid' = tid
    BY <1>2, SlotFacts DEF Delivered
  <2>2. delivery'.from = nd[n].from
    BY <1>2, DeliveredFrom
  <2>3. sc.state[r] \in {"ACTIVE", "SEND_BLOCKED"} /\ sc.state[r] = sched.state[r]
    BY <2>1
  <2> HIDE DEF r, n
  <2>4. tid[n] = nd[n].from => sc.state[n] = "RECEIVE_BLOCKED"
    <3>1. nd[n].from = tid[n] => ~ (nd[n].from < tid[n])
      BY <2>1, SoundFacts
    <3>2. \/ nd[n].from = tid[n] /\ sc.state[n] \in {"RECEIVE_BLOCKED"} \cup DeadStates
          \/ nd[n].from < tid[n]
      BY <2>1 DEF Filed
    <3>3. sc.state[n] \in QueuedStates => sc.state[n] \notin DeadStates
      BY StatesFacts
    <3> QED BY <2>1, <3>1, <3>2, <3>3
  <2>5. ASSUME NEW s \in Slots
        PROVE  Same(s) \/ Blocks(s) \/ Received(s) \/ Resumes(s)
    <3>1. CASE s = r /\ tid[r] = nd[n].to
      BY <3>1, <2>1, <2>3 DEF Resumes
    <3>2. CASE ~ (s = r /\ tid[r] = nd[n].to) /\ s = n /\ tid[n] = nd[n].from
      <4>1. sched'.state[s] = "REPLY_BLOCKED" /\ sc.state[s] = "RECEIVE_BLOCKED"
        BY <3>2, <2>1, <2>4
      <4> QED BY <4>1, <3>2, <2>2 DEF Received, Blocks
    <3>3. CASE /\ ~ (s = r /\ tid[r] = nd[n].to)
               /\ ~ (s = n /\ tid[n] = nd[n].from)
      BY <3>3, <2>1 DEF Same, Blocks
    <3> QED BY <3>1, <3>2, <3>3
  <2> QED BY <2>1, <2>5 DEF Talks
<1> QED BY <1>1, <1>2

\* What exactly Send does, to a task r that waits for it and to one that does
\* not, and what Receive does with nothing queued and with a message.
Nothing == UNCHANGED <<sched, tid, nodes, msgq, delivery>>
Meets(r) ==
  /\ sched.state[r] = "SEND_BLOCKED"
  /\ \A s \in Slots : sched'.state[s] = IF s = current THEN "REPLY_BLOCKED"
                                        ELSE IF s = r THEN "READY"
                                        ELSE sched.state[s]
  /\ \A s \in Slots : s # current => nodes'[s] = nodes[s]
  /\ UNCHANGED <<msgq, tid, corrupt, dstack>>
  /\ delivery' = [from |-> tid[current], to |-> tid[r], by |-> tid[r],
                  into |-> r, behind |-> 0]
FilesFor(r) ==
  /\ sched.state[r] # "SEND_BLOCKED"
  /\ \A s \in Slots : sched'.state[s] = IF s = current THEN "RECEIVE_BLOCKED"
                                        ELSE sched.state[s]
  /\ msgq' = [msgq EXCEPT ![r] = Append(@, current)]
  /\ nodes'[current].to = tid[r]
  /\ \A s \in Slots : s # current => nodes'[s] = nodes[s]
  /\ UNCHANGED <<tid, corrupt, dstack, delivery>>
Sends(t) ==
  \/ /\ Nothing /\ UNCHANGED dstack
     /\ corrupt' = corrupt \/ Pending(current)
  \/ /\ tid[SlotOf(t)] = t /\ sched.state[SlotOf(t)] \in AliveStates
     /\ Meets(SlotOf(t)) \/ FilesFor(SlotOf(t))
Waiting ==
  /\ msgq[current] = <<>>
  /\ \A s \in Slots : sched'.state[s] = IF s = current THEN "SEND_BLOCKED"
                                        ELSE sched.state[s]
  /\ \A s \in Slots : s # current => nodes'[s] = nodes[s]
  /\ UNCHANGED <<msgq, tid, corrupt, dstack, delivery>>
Takes ==
  LET n == Head(msgq[current])
  IN  /\ msgq[current] # <<>>
      /\ \A s \in Slots : sched'.state[s] =
            IF s = current /\ tid[current] = nodes[n].to THEN "READY"
            ELSE IF s = n /\ tid[n] = nodes[n].from THEN "REPLY_BLOCKED"
            ELSE sched.state[s]
      /\ msgq' = [msgq EXCEPT ![current] = Tail(@)]
      /\ \A s \in Slots : nodes'[s].to = nodes[s].to
      /\ UNCHANGED <<tid, corrupt, dstack>>
      /\ delivery'.to = nodes[n].to /\ delivery'.by = tid[current]
      /\ delivery'.behind = 0 => delivery'.into = current
Receives ==
  \/ Nothing /\ Pending(current)
  \/ /\ Nothing /\ msgq[current] # <<>>
     /\ LET n == Head(msgq[current]) IN tid[n] = nodes[n].from /\ IsDead(n)
  \/ Waiting
  \/ Takes

\* SendProxy: the sender is filed once, and at once received when the
\* addressee waits.
LEMMA SendMail ==
  ASSUME IInv, Sound, MailInv, mode = "user", NEW t \in Int, SendProxy(t)
  PROVE  MailInv' /\ Talks /\ Sends(t)
<1> DEFINE r == SlotOf(t)
           n == [from |-> tid[current], to |-> t, put |-> Garbage]
           mq == [msgq EXCEPT ![r] = EnqueueQueue(@, current)]
           sc == SetCurrentTaskState(sched, "RECEIVE_BLOCKED")
           NodeType == [from : Int, to : Int, put : Slots \cup {Garbage}]
<1>1. CASE ~ (IsValidTid(t) /\ IsTaskAlive(t) /\ ~ Pending(current))
  <2>1. UNCHANGED <<sched, tid, nodes, msgq>>
    BY <1>1 DEF SendProxy, Answers, Damage, commVars
  <2>2. Sends(t)
    BY <1>1 DEF SendProxy, Answers, Returns, Damage, commVars, Sends, Nothing
  <2> QED BY <2>1, <2>2, SameQuiet, QuietMail, SameTalks
<1>2. CASE IsValidTid(t) /\ IsTaskAlive(t) /\ ~ Pending(current)
  <2>1. PostMessage(t)
    BY <1>2 DEF SendProxy
  <2>2. /\ current \in Slots /\ sched.state[current] = "ACTIVE"
        /\ tid[current] \in Int /\ SlotOf(tid[current]) = current
    BY UserFacts
  <2>3. /\ sched \in SchedTypes /\ nodes \in [Slots -> NodeType]
        /\ msgq \in [Slots -> Seq(Slots)]
        /\ NodesNameSlots(nodes, msgq, sched.state)
    BY SoundFacts
  <2>4. r \in Slots /\ tid[r] = t /\ sched.state[r] \in QueuedStates
    BY <1>2, SlotFacts DEF IsTaskAlive, AliveStates
  <2>5. /\ sc \in SchedTypes /\ SchedOK(sc, {current})
        /\ sc.state = [sched.state EXCEPT ![current] = "RECEIVE_BLOCKED"]
    BY StatesFacts, SetCurrentOK
  <2> HIDE DEF sc, r
  <2>6. \A s \in Slots : sc.state[s] = IF s = current THEN "RECEIVE_BLOCKED"
                                       ELSE sched.state[s]
    BY <2>2, <2>3, <2>5 DEF SchedTypes
  <2>7. /\ EnqueueQueue(msgq[r], current) \in Seq(Slots)
        /\ Distinct(EnqueueQueue(msgq[r], current))
        /\ \A m : Linked(EnqueueQueue(msgq[r], current), m)
                    <=> Linked(msgq[r], m) \/ m = current
    BY <1>2, <2>2, <2>3, <2>4, EnqueueProperties DEF Pending, NodesNameSlots
  <2>8. /\ mq \in [Slots -> Seq(Slots)]
        /\ \A q \in Slots : mq[q] = IF q = r THEN EnqueueQueue(msgq[r], current)
                                    ELSE msgq[q]
    BY <2>3, <2>4, <2>7
  <2> HIDE DEF mq
  <2>9. \A q, s \in Slots : Linked(mq[q], s) <=>
                            Linked(msgq[q], s) \/ (q = r /\ s = current)
    BY <2>7, <2>8
  <2>10. /\ NoMailFor(nodes, msgq, sched.state, Slots)
         /\ Filed(nodes, msgq, sched.state, tid)
    BY DEF MailInv
  <2>11. ASSUME NEW nd, nd \in [Slots -> NodeType],
                nd[current].from = tid[current], nd[current].to = t,
                \A s \in Slots : s # current => nd[s] = nodes[s]
         PROVE  /\ NodesNameSlots(nd, mq, sc.state)
                /\ NoMailFor(nd, mq, sc.state, Slots \ {r})
                /\ Filed(nd, mq, sc.state, tid)
    <3>1. NoMailFor(nd, mq, sc.state, Slots \ {r})
      BY <2>6, <2>8, <2>10, <2>11 DEF NoMailFor
    <3>2. ASSUME NEW s \in Slots
          PROVE  /\ \A q \in Slots : Linked(mq[q], s) =>
                      SlotOf(nd[s].to) = q /\ SlotOf(nd[s].from) = s
                 /\ sc.state[s] \in {"RECEIVE_BLOCKED", "REPLY_BLOCKED"} =>
                      SlotOf(nd[s].from) = s
                 /\ sc.state[s] = "SEND_BLOCKED" =>
                      \A q \in Slots : ~ Linked(mq[q], s)
                 /\ sc.state[s] = "RECEIVE_BLOCKED" =>
                      nd[s].from = tid[s] /\ Linked(mq[SlotOf(nd[s].to)], s)
                 /\ sc.state[s] = "REPLY_BLOCKED" =>
                      nd[s].from = tid[s] /\ \A q \in Slots : ~ Linked(mq[q], s)
                 /\ \A q \in Slots : Linked(mq[q], s) =>
                      \/ /\ nd[s].from = tid[s]
                         /\ sc.state[s] \in {"RECEIVE_BLOCKED"} \cup DeadStates
                      \/ nd[s].from < tid[s]
      <4>1. CASE s = current
        <5>1. /\ sc.state[s] = "RECEIVE_BLOCKED" /\ nd[s].from = tid[s]
              /\ SlotOf(nd[s].to) = r /\ SlotOf(nd[s].from) = s
          BY <4>1, <2>2, <2>6, <2>11 DEF r
        <5>2. \A q \in Slots : Linked(mq[q], s) <=> q = r
          BY <4>1, <1>2, <2>9 DEF Pending
        <5> QED BY <5>1, <5>2, <2>4
      <4>2. CASE s # current
        <5>1. \A q \in Slots : Linked(mq[q], s) <=> Linked(msgq[q], s)
          BY <4>2, <2>9
        <5>2. sc.state[s] = sched.state[s] /\ nd[s] = nodes[s]
          BY <4>2, <2>6, <2>11
        <5>3. SlotOf(nd[s].to) \in Slots
          BY <2>11, SlotFacts
        <5> QED BY <5>1, <5>2, <5>3, <2>3, <2>10 DEF NodesNameSlots, Filed
      <4> QED BY <4>1, <4>2
    <3>3. \A s \in Slots : Distinct(mq[s])
      BY <2>3, <2>7, <2>8 DEF NodesNameSlots
    <3>4. NodesNameSlots(nd, mq, sc.state)
      BY <3>2, <3>3 DEF NodesNameSlots
    <3>5. Filed(nd, mq, sc.state, tid)
      BY <3>2 DEF Filed
    <3> QED BY <3>1, <3>4, <3>5
  <2>12. n \in NodeType /\ n.from = tid[current] /\ n.to = t
    BY <2>2
  <2>13. CASE Waits(sc, r)
    <3> DEFINE m == [n EXCEPT !.put = nodes[r].put]
               nd == [nodes EXCEPT ![current] = m]
    <3>1. CompleteReceive("Send", t, t, nd, mq, sc)
      BY <2>1, <2>13 DEF PostMessage, MetBy, r, mq, sc
    <3>2. m \in NodeType /\ m.from = tid[current] /\ m.to = t
      BY <2>3, <2>4, <2>12
    <3> HIDE DEF m, n
    <3>3. /\ nd \in [Slots -> NodeType]
          /\ nd[current].from = tid[current] /\ nd[current].to = t
          /\ \A s \in Slots : s # current => nd[s] = nodes[s]
      BY <3>2, <2>2, <2>3
    <3> HIDE DEF nd
    <3>4. sc.state[r] = "SEND_BLOCKED" /\ r # current /\ sched.state[r] = "SEND_BLOCKED"
      BY <2>13, <2>4, <2>6 DEF Waits
    <3>5. mq[r] = <<current>>
      BY <3>4, <2>2, <2>4, <2>8, <2>10 DEF NoMailFor, EnqueueQueue
    <3>6. Head(mq[r]) = current /\ mq[r] # <<>>
      BY <3>5
    <3>7. sc.state[r] \in QueuedStates
      BY <3>4, StatesFacts
    <3>8. Delivered(t, nd, mq, sc)
      BY <3>1, <3>3, <3>6, <3>7, <2>5, <2>8, <2>11, DeliveryOK DEF r
    <3>9. nd[Head(mq[r])].to = tid[r]
      BY <3>3, <3>6, <2>4
    <3>10. MailInv'
      BY <3>3, <3>4, <3>8, <3>9, <2>5, <2>8, <2>11, DeliveryMail DEF r
    <3>11. \A s \in Slots : \/ sc.state[s] = sched.state[s]
                            \/ /\ sched.state[s] = "ACTIVE"
                               /\ sc.state[s] = "RECEIVE_BLOCKED"
      BY <2>2, <2>6
    <3>12. Talks
      BY <3>1, <3>3, <3>4, <3>8, <3>11, <2>5, <2>11, DeliveryTalks DEF r
    <3>13. nd[current].put = r
      <4>1. nodes[r].put = r
        BY <3>4, <2>4, <2>10 DEF NoMailFor
      <4> QED BY <4>1, <2>2, <2>3 DEF nd, m, n
    <3>14. /\ delivery' = [from |-> tid[current], to |-> t, by |-> t, into |-> r,
                            behind |-> 0]
           /\ msgq' = [mq EXCEPT ![r] = DequeueQueue(@)]
           /\ nodes' = nd /\ UNCHANGED <<corrupt, dstack>>
      <4>1. tid[SlotOf(nd[current].from)] = nd[current].from =>
              sc.state[SlotOf(nd[current].from)] \notin DeadStates
        BY <3>3, <2>2, <2>6 DEF DeadStates
      <4>2. r # Garbage /\ Len(mq[r]) - 1 = 0
        BY <3>5, <2>4, ConstantFacts DEF Garbage, Slots
      <4> QED BY <4>1, <4>2, <3>1, <3>3, <3>6, <3>13
            DEF CompleteReceive, Taken, Returns, r
    <3>15. msgq' = msgq
      <4>1. DequeueQueue(mq[r]) = msgq[r]
        BY <3>4, <3>5, <2>4, <2>10 DEF NoMailFor, DequeueQueue
      <4>2. \A q \in Slots : msgq'[q] = msgq[q]
        BY <4>1, <3>14, <2>8
      <4> QED BY <4>2, <3>14, <2>3, <2>8
    <3>16. \A s \in Slots : sched'.state[s] = IF s = current THEN "REPLY_BLOCKED"
                                              ELSE IF s = r THEN "READY"
                                              ELSE sched.state[s]
      <4>1. nd[Head(mq[SlotOf(t)])].from = tid[current]
        BY <3>3, <3>6 DEF r
      <4>2. ~ Damage("destroyed sender resumed")
        BY <3>14 DEF Damage, Sound, NotCorrupt
      <4>3. \A s \in Slots : sched'.state[s] =
              IF s = r /\ tid[r] = t THEN "READY"
              ELSE IF s = current /\ tid[current] = tid[current] THEN "REPLY_BLOCKED"
              ELSE sc.state[s]
        BY <4>1, <4>2, <3>3, <3>6, <3>8 DEF Delivered, r
      <4> QED BY <4>3, <3>4, <2>4, <2>6
    <3>17. Sends(t)
      <4>1. tid[r] = t /\ sched.state[r] \in AliveStates /\ UNCHANGED tid
        BY <1>2, <3>12 DEF IsTaskAlive, Talks, r
      <4>2. Meets(r)
        BY <4>1, <3>3, <3>4, <3>14, <3>15, <3>16 DEF Meets
      <4> QED BY <4>1, <4>2 DEF Sends, r
    <3> QED BY <3>10, <3>12, <3>17
  <2>14. CASE ~ Waits(sc, r)
    <3> DEFINE nd == [nodes EXCEPT ![current] = n]
    <3>1. /\ nodes' = nd /\ msgq' = mq /\ sched' = sc /\ tid' = tid
      BY <2>1, <2>14 DEF PostMessage, Returns, descVars, r, mq, sc
    <3> HIDE DEF n
    <3>2. /\ nd \in [Slots -> NodeType]
          /\ nd[current].from = tid[current] /\ nd[current].to = t
          /\ \A s \in Slots : s # current => nd[s] = nodes[s]
      BY <2>2, <2>3, <2>12
    <3> HIDE DEF nd
    <3>3. NoMailFor(nd, mq, sc.state, Slots \ {r}) /\ Filed(nd, mq, sc.state, tid)
      BY <3>2, <2>11
    <3>4. NoMailFor(nd, mq, sc.state, Slots)
      BY <3>3, <2>14 DEF NoMailFor, Waits
    <3>5. Talks
      BY <3>1, <2>2, <2>6 DEF Talks, Same, Blocks
    <3>6. Sends(t)
      <4>1. tid[r] = t /\ sched.state[r] \in AliveStates
        BY <1>2 DEF IsTaskAlive, r
      <4>2. UNCHANGED <<corrupt, dstack, delivery>>
        BY <2>1, <2>14 DEF PostMessage, Returns, r, mq, sc
      <4>3. msgq' = [msgq EXCEPT ![r] = Append(@, current)]
        BY <3>1 DEF mq, EnqueueQueue
      <4>4. sched.state[r] # "SEND_BLOCKED"
        BY <2>2, <2>4, <2>6, <2>14 DEF Waits
      <4>5. FilesFor(r)
        BY <4>1, <4>2, <4>3, <4>4, <3>1, <3>2, <2>6 DEF FilesFor
      <4> QED BY <4>1, <4>5 DEF Sends, r
    <3> QED BY <3>1, <3>3, <3>4, <3>5, <3>6 DEF MailInv
  <2> QED BY <2>13, <2>14
<1> QED BY <1>1, <1>2

\* ReceiveProxy: the caller waits with nothing queued, or takes the first.
LEMMA ReceiveMail ==
  ASSUME IInv, Sound, MailInv, mode = "user", ReceiveProxy
  PROVE  MailInv' /\ Talks /\ Receives
<1> DEFINE q == msgq[current]
           NodeType == [from : Int, to : Int, put : Slots \cup {Garbage}]
<1>1. /\ current \in Slots /\ sched.state[current] = "ACTIVE"
      /\ tid[current] \in Int /\ SlotOf(tid[current]) = current
  BY UserFacts
<1>2. /\ sched \in SchedTypes /\ SchedOK(sched, {current})
      /\ nodes \in [Slots -> NodeType]
      /\ msgq \in [Slots -> Seq(Slots)]
      /\ NodesNameSlots(nodes, msgq, sched.state)
  BY SoundFacts
<1>3. /\ NoMailFor(nodes, msgq, sched.state, Slots)
      /\ Filed(nodes, msgq, sched.state, tid)
  BY DEF MailInv
<1>4. CASE q = <<>> /\ Pending(current)
  <2>1. UNCHANGED <<sched, tid, nodes, msgq>>
    BY <1>4 DEF ReceiveProxy, ReceiveBlocks, Damage, commVars
  <2>2. Receives
    BY <2>1, <1>4 DEF ReceiveProxy, ReceiveBlocks, commVars, Receives, Nothing
  <2> QED BY <2>1, <2>2, SameQuiet, QuietMail, SameTalks
<1>5. CASE q = <<>> /\ ~ Pending(current)
  <2> DEFINE n == [from |-> Garbage, to |-> Garbage, put |-> current]
  <2>1. /\ nodes' = [nodes EXCEPT ![current] = n] /\ UNCHANGED <<msgq, tid>>
        /\ sched' = SetCurrentTaskState(sched, "SEND_BLOCKED")
    BY <1>5 DEF ReceiveProxy, ReceiveBlocks, descVars
  <2>2. sched'.state = [sched.state EXCEPT ![current] = "SEND_BLOCKED"]
    BY <2>1, SetCurrentOK, StatesFacts
  <2>3. n.put = current
    OBVIOUS
  <2> HIDE DEF n
  <2>4. \A s \in Slots :
          /\ sched'.state[s] = IF s = current THEN "SEND_BLOCKED" ELSE sched.state[s]
          /\ nodes'[s] = IF s = current THEN n ELSE nodes[s]
    BY <2>1, <2>2, <1>2 DEF SchedTypes
  <2>5. NoMailFor(nodes', msgq, sched'.state, Slots)
    BY <2>3, <2>4, <1>3, <1>5 DEF NoMailFor
  <2>6. Filed(nodes', msgq, sched'.state, tid)
    BY <2>4, <1>3, <1>5 DEF Filed, Pending
  <2>7. Talks
    BY <2>1, <2>4, <1>1 DEF Talks, Same, Blocks
  <2>8. UNCHANGED <<corrupt, dstack, delivery>>
    BY <1>5 DEF ReceiveProxy, ReceiveBlocks, Returns
  <2>9. Receives
    BY <2>1, <2>4, <2>8, <1>5 DEF Receives, Waiting
  <2> QED BY <2>1, <2>5, <2>6, <2>7, <2>9 DEF MailInv
<1>6. CASE q # <<>>
  <2> DEFINE l == q[Len(q)]
             changed == [nodes[l] EXCEPT !.put = current]
             nd == [nodes EXCEPT ![l].put = current]
  <2>1. CompleteReceive("Receive", 0, tid[current], nd, msgq, sched)
    BY <1>6 DEF ReceiveProxy
  <2>2. l \in Slots /\ Linked(q, l)
    <3>1. q \in Seq(Slots)
      BY <1>1, <1>2
    <3> HIDE DEF q
    <3>2. Len(q) \in 1 .. Len(q) /\ DOMAIN q = 1 .. Len(q)
      BY <1>6, <3>1, EmptySeq, LenProperties
    <3> QED BY <3>1, <3>2 DEF Linked
  <2> HIDE DEF l
  <2>3. nd = [nodes EXCEPT ![l] = changed]
    OBVIOUS
  <2>4. changed \in NodeType /\ changed.from = nodes[l].from /\ changed.to = nodes[l].to
    BY <1>1, <1>2, <2>2
  <2> HIDE DEF changed, nd
  <2>5. /\ nd \in [Slots -> NodeType]
        /\ \A s \in Slots : /\ nd[s].from = nodes[s].from /\ nd[s].to = nodes[s].to
                            /\ s # l => nd[s] = nodes[s]
    <3>1. nd \in [Slots -> NodeType]
      BY <1>2, <2>2, <2>3, <2>4
    <3>2. \A s \in Slots : nd[s] = IF s = l THEN changed ELSE nodes[s]
      BY <1>2, <2>3
    <3> QED BY <2>4, <3>1, <3>2
  <2>6. NodesNameSlots(nd, msgq, sched.state)
    BY <1>2, <2>5 DEF NodesNameSlots
  <2>7. Filed(nd, msgq, sched.state, tid)
    BY <1>3, <2>5 DEF Filed
  <2>8. NoMailFor(nd, msgq, sched.state, Slots)
    <3>1. sched.state[l] # "SEND_BLOCKED"
      BY <2>2, <1>1, <1>3 DEF Filed
    <3> QED BY <3>1, <2>5, <1>3 DEF NoMailFor
  <2>9. sched.state[current] \in QueuedStates
    BY <1>1, StatesFacts
  <2>10. Delivered(tid[current], nd, msgq, sched)
    BY <1>1, <1>2, <1>6, <2>1, <2>5, <2>6, <2>9, DeliveryOK
  <2>11. NoMailFor(nd, msgq, sched.state, Slots \ {SlotOf(tid[current])})
    BY <2>8 DEF NoMailFor
  <2>12. MailInv'
    BY <1>1, <1>2, <2>5, <2>6, <2>7, <2>10, <2>11, DeliveryMail
  <2>13. Talks
    BY <1>1, <1>2, <2>1, <2>7, <2>10, DeliveryTalks
  <2>14. Receives
    <3> DEFINE n == Head(q)
    <3>1. /\ n \in Slots /\ SlotOf(nodes[n].from) = n
          /\ nd[n].from = nodes[n].from /\ nd[n].to = nodes[n].to
      BY <1>1, <2>5, <2>10 DEF Delivered
    <3>2. CASE tid[n] = nodes[n].from /\ sched.state[n] \in DeadStates
      <4>1. Nothing
        BY <1>1, <2>1, <3>1, <3>2 DEF CompleteReceive, Damage, Nothing, commVars
      <4> QED BY <1>6, <3>2, <4>1 DEF Receives, IsDead
    <3>3. CASE ~ (tid[n] = nodes[n].from /\ sched.state[n] \in DeadStates)
      <4>1. /\ nodes' = nd /\ msgq' = [msgq EXCEPT ![current] = DequeueQueue(@)]
            /\ UNCHANGED <<tid, corrupt, dstack>>
            /\ \E into \in IF nd[n].put = Garbage THEN Slots \cup {Garbage}
                            ELSE {nd[n].put} :
                 delivery' = [from |-> nodes[n].from, to |-> nodes[n].to,
                              by |-> tid[current], into |-> into,
                              behind |-> Len(q) - 1]
        BY <1>1, <2>1, <3>1, <3>3 DEF CompleteReceive, Taken, Returns, descVars
      <4>2. /\ delivery'.to = nodes[n].to /\ delivery'.by = tid[current]
            /\ delivery'.behind = Len(q) - 1
            /\ nd[n].put # Garbage => delivery'.into = nd[n].put
        BY <4>1
      <4>3. Len(q) - 1 = 0 => nd[n].put = current /\ current # Garbage
        <5>1. n = q[1]
          BY <1>6 DEF n
        <5>2. Len(q) - 1 = 0 => l = n
          <6>1. Len(q) \in Nat
            BY <1>1, <1>2, LenProperties
          <6> QED BY <5>1, <6>1 DEF l
        <5>3. changed.put = current
          BY <1>1, <1>2, <2>2 DEF changed
        <5>4. l = n => nd[n].put = current
          BY <5>3, <2>2, <2>3, <1>2
        <5>5. current # Garbage
          BY <1>1, ConstantFacts DEF Garbage, Slots
        <5> QED BY <5>2, <5>4, <5>5
      <4>4. DequeueQueue(q) = Tail(q)
        BY <1>6 DEF DequeueQueue
      <4>5. \A s \in Slots : sched'.state[s] =
              IF s = current /\ tid[current] = nodes[n].to THEN "READY"
              ELSE IF s = n /\ tid[n] = nodes[n].from THEN "REPLY_BLOCKED"
              ELSE sched.state[s]
        <5>1. ~ Damage("destroyed sender resumed")
          BY <4>1 DEF Damage, Sound, NotCorrupt
        <5> QED BY <5>1, <1>1, <2>10, <3>1 DEF Delivered
      <4>6. msgq' = [msgq EXCEPT ![current] = Tail(@)]
        BY <4>1, <4>4
      <4>7. \A s \in Slots : nodes'[s].to = nodes[s].to
        BY <4>1, <2>5
      <4> QED BY <1>6, <4>1, <4>2, <4>3, <4>5, <4>6, <4>7 DEF Receives, Takes
    <3> QED BY <3>2, <3>3
  <2> QED BY <2>12, <2>13, <2>14
<1> QED BY <1>4, <1>5, <1>6

\* A damaged kernel stays as it is.
LEMMA SoundBefore ==
  ASSUME [Next]_vars, ~ Sound
  PROVE  UNCHANGED vars
<1>1. ASSUME NEW call PROVE ~ Running(call)
  BY DEF Running, Sound
<1>2. ~ SystemCall
  BY <1>1 DEF SystemCall, Create, Exit, Pass, Destroy, MyTid, MyParentTid,
     GetMyPriority, SetMyPriority, GetPriority, SetPriority, GetTasksStats,
     Send, Receive, Reply, AwaitEvent
<1>3. ~ Irq /\ ~ DestroyStep /\ ~ Activate
  BY DEF Irq, DestroyStep, Activate, Sound
<1>4. Damaged => UNCHANGED vars
  BY DEF Damaged
<1> QED BY <1>2, <1>3, <1>4 DEF Next

LEMMA MailInit ==
  ASSUME Init
  PROVE  MailInv
<1>1. /\ \A s \in Slots : sched.state[s] \in {"READY", "FREE"}
      /\ \A s \in Slots : msgq[s] = <<>>
  BY DEF Init, TasksInit, CommunicationInit
<1>2. \A r, s \in Slots : ~ Linked(msgq[r], s)
  BY <1>1, EmptyFacts
<1> QED BY <1>1, <1>2 DEF MailInv, NoMailFor, Filed

\* A step is quiet, or it is a Send or a Receive; either keeps the queues.
LEMMA MailStep ==
  ASSUME IInv, MailInv, [Next]_vars
  PROVE  MailInv' /\ (Quiet \/ Talks)
<1>1. CASE Sound /\ mode = "user" /\ Send
  <2>1. PICK t \in TidArgs : SendProxy(t)
    BY <1>1 DEF Send
  <2>2. t \in Int
    BY ConstantFacts DEF TidArgs
  <2> QED BY <2>1, <2>2, <1>1, SendMail
<1>2. CASE Sound /\ mode = "user" /\ Receive
  BY <1>2, ReceiveMail DEF Receive
<1>3. CASE ~ (Sound /\ mode = "user" /\ (Send \/ Receive))
  <2>1. Quiet
    BY <1>3, QuietStep
  <2>2. CASE Sound
    BY <2>1, <2>2, QuietMail
  <2>3. CASE ~ Sound
    <3>1. corrupt' = corrupt
      BY <2>3, SoundBefore DEF vars, taskVars
    <3> QED BY <2>1, <2>3, <3>1 DEF MailInv, Sound
  <2> QED BY <2>1, <2>2, <2>3
<1> QED BY <1>1, <1>2, <1>3

\* The queues and nodes agree with who waits, in every reachable state.
THEOREM MailKept == Spec => []MailInv
<1>1. Init => MailInv
  BY MailInit
<1>2. IInv /\ MailInv /\ [Next]_vars => MailInv'
  BY MailStep
<1> QED BY <1>1, <1>2, Invariance, PTL DEF Spec

\* No lost wake-up in ReceiveProxy and SendProxy: whatever is destroyed and
\* recreated, nobody waits in Receive with a message queued.
THEOREM NoLostWakeUp == Spec => []WaitingReceiverHasNoMail
<1>1. MailInv => WaitingReceiverHasNoMail
  BY DEF MailInv, NoMailFor, WaitingReceiverHasNoMail
<1> QED BY <1>1, MailKept, PTL

\* Whoever is blocked in Send is queued exactly once until it is received.
THEOREM SendersFiled == Spec => []SenderNodes
<1>1. IInv /\ MailInv => SenderNodes
  BY DEF IInv, MailInv, NodeSlots, NodesNameSlots, Filed, SenderNodes, Pending,
     IsDead
<1> QED BY <1>1, Invariance, MailKept, PTL

-----------------------------------------------------------------------------
(* What a step may never do to a task.                                     *)

\* A ZOMBIE stays one until it is destroyed, and a destroyed task never comes
\* back: the slot's next task has another tid (CreateTask, ExitTask).
THEOREM DeadForGood == Spec => DeathIsFinal
<1>1. ASSUME IInv, MailInv, [Next]_vars, NEW s \in Slots
      PROVE  /\ sched.state[s] = "ZOMBIE" =>
                  sched'.state[s] \in {"ZOMBIE"} \cup DeadStates
             /\ IsDead(s) /\ sched'.state[s] # sched.state[s] =>
                  tid'[s] = tid[s] + MAX_TASKS
  <2>1. CASE Talks
    BY <2>1 DEF Talks, Same, Blocks, Received, Resumes, IsDead, DeadStates
  <2>2. CASE Moves(s)
    BY <2>2 DEF Moves, Same, Born, Dies, Stops, Woken, Answered, Yields, Chosen,
       IsDead, DeadStates
  <2> QED BY <1>1, <2>1, <2>2, MailStep DEF Quiet
<1>2. IInv /\ MailInv /\ [Next]_vars =>
        \A s \in Slots :
          /\ sched.state[s] = "ZOMBIE" =>
               sched'.state[s] \in {"ZOMBIE"} \cup DeadStates
          /\ IsDead(s) /\ sched'.state[s] # sched.state[s] =>
               tid'[s] = tid[s] + MAX_TASKS
  BY <1>1
<1> QED BY <1>2, Invariance, MailKept, PTL DEF Spec, DeathIsFinal

\* A task blocked in Send goes on when it has been received and replied to,
\* and not before; or it is destroyed (communication.c).
THEOREM SendsComplete == Spec => SendCompletes
<1> DEFINE Leaves(s) ==
      /\ sched.state[s] = "RECEIVE_BLOCKED" /\ sched'.state[s] # "RECEIVE_BLOCKED" =>
           \/ sched'.state[s] = "REPLY_BLOCKED" /\ delivery'.from = tid[s]
           \/ sched'.state[s] \in DeadStates
      /\ sched.state[s] = "REPLY_BLOCKED" /\ sched'.state[s] # "REPLY_BLOCKED" =>
           \/ /\ sched'.state[s] = "READY"
              /\ result'.call = "Reply" /\ result'.arg = tid[s]
           \/ sched'.state[s] \in DeadStates
<1>1. ASSUME IInv, MailInv, [Next]_vars, NEW s \in Slots
      PROVE  Leaves(s)
  <2>1. CASE Talks
    BY <2>1 DEF Talks, Same, Blocks, Received, Resumes
  <2>2. CASE Moves(s)
    BY <2>2 DEF Moves, Same, Born, Dies, Stops, Woken, Answered, Yields, Chosen
  <2> QED BY <1>1, <2>1, <2>2, MailStep DEF Quiet
<1>2. IInv /\ MailInv /\ [Next]_vars => \A s \in Slots : Leaves(s)
  BY <1>1
<1> QED BY <1>2, Invariance, MailKept, PTL DEF Spec, SendCompletes

-----------------------------------------------------------------------------
(* Whose turn it is.                                                       *)

\* The step is one of the calls whose results the properties speak of.
Made(call) ==
  /\ call = "MyParentTid" => MyParentTid
  /\ call = "Reply" => Reply
  /\ call = "GetTasksStats" => GetTasksStats
  /\ call = "HandleIrq" => Irq

\* A handler leaves the running task to the kernel loop, or goes on
\* destroying; only the kernel loop forgets the result.
HandlerEnds ==
  \/ ~ Sound' /\ UNCHANGED result
  \/ /\ UNCHANGED current /\ mode' # "user"
     /\ mode' = "destroy" => UNCHANGED result
     /\ UNCHANGED result \/ Made(result'.call)

LEMMA AnswersEnd ==
  ASSUME NEW call, NEW arg, NEW value, Answers(call, arg, value), Made(call)
  PROVE  HandlerEnds
BY DEF Answers, Returns, HandlerEnds

LEMMA DamageEnds ==
  ASSUME NEW how, how # NotCorrupt, Damage(how)
  PROVE  HandlerEnds
BY DEF Damage, HandlerEnds, Sound

LEMMA CompleteReceiveEnds ==
  ASSUME NEW call \in {"Send", "Receive"}, NEW arg, NEW t, NEW nd, NEW mq,
         NEW sc, CompleteReceive(call, arg, t, nd, mq, sc)
  PROVE  HandlerEnds
<1>1. "destroyed sender resumed" # NotCorrupt
  BY DEF NotCorrupt
<1>2. \/ Damage("destroyed sender resumed")
      \/ UNCHANGED current /\ Returns(call, arg, MessageSize)
  BY DEF CompleteReceive
<1>3. CASE UNCHANGED current /\ Returns(call, arg, MessageSize)
  <2>1. result'.call = call /\ mode' = "kernel"
    BY <1>3 DEF Returns
  <2> QED BY <1>3, <2>1 DEF HandlerEnds, Made
<1> QED BY <1>1, <1>2, <1>3, DamageEnds

LEMMA SendEnds ==
  ASSUME NEW t, SendProxy(t)
  PROVE  HandlerEnds
<1>1. CASE PostMessage(t)
  <2>1. \/ UNCHANGED current /\ Returns("Send", t, RETURN_STATUS_OK)
        \/ \E nd, mq, sc : CompleteReceive("Send", t, t, nd, mq, sc)
    BY <1>1 DEF PostMessage
  <2> QED BY <2>1, CompleteReceiveEnds DEF Returns, HandlerEnds, Made
<1>2. CASE Damage("linked node overwritten")
  BY <1>2, DamageEnds DEF NotCorrupt
<1>3. Made("Send")
  BY DEF Made
<1> QED BY <1>1, <1>2, <1>3, AnswersEnd DEF SendProxy

LEMMA ReceiveEnds ==
  ASSUME ReceiveProxy
  PROVE  HandlerEnds
<1>1. CASE ReceiveBlocks
  <2>1. CASE Damage("linked node overwritten")
    BY <2>1, DamageEnds DEF NotCorrupt
  <2>2. CASE UNCHANGED current /\ Returns("Receive", 0, RETURN_STATUS_OK)
    BY <2>2 DEF Returns, HandlerEnds, Made
  <2> QED BY <1>1, <2>1, <2>2 DEF ReceiveBlocks
<1>2. CASE \E nd, mq, sc : CompleteReceive("Receive", 0, tid[current], nd, mq, sc)
  BY <1>2, CompleteReceiveEnds
<1> QED BY <1>1, <1>2 DEF ReceiveProxy

LEMMA EnterDestroyEnds ==
  ASSUME NEW s, NEW ch, EnterDestroy(s, ch)
  PROVE  HandlerEnds
<1>1. CASE Damage("destroyed twice")
  BY <1>1, DamageEnds DEF NotCorrupt
<1>2. CASE UNCHANGED <<current, result>> /\ mode' = "destroy"
  BY <1>2 DEF HandlerEnds
<1> QED BY <1>1, <1>2 DEF EnterDestroy

\* Every step but the kernel loop's.
LEMMA StepEnds ==
  ASSUME SystemCall \/ Irq \/ DestroyStep
  PROVE  HandlerEnds
<1>1. CASE Create
  <2>1. PICK p \in PriorityArgs : CreateTaskSafe(p)
    BY <1>1 DEF Create
  <2>2. CASE CreateTask(p)
    BY <2>2 DEF CreateTask, Returns, HandlerEnds, Made
  <2> QED BY <2>1, <2>2, AnswersEnd DEF CreateTaskSafe, Made
<1>2. CASE Exit \/ AwaitEvent
  BY <1>2 DEF Exit, ExitTask, AwaitEvent, AwaitEventHandler, Returns, HandlerEnds,
     Made
<1>3. CASE \/ Pass \/ MyTid \/ MyParentTid \/ GetMyPriority
              \/ GetTasksStats \/ GetPriority
  BY <1>3, AnswersEnd DEF Pass, MyTid, MyParentTid, GetMyPriority,
     GetTasksStats, Nop, GetCurrentTid, GetParentTid, GetCurrentTaskPriority,
     TasksStatsHandler, GetPriority, GetTaskPriority, Made
<1>4. CASE SetMyPriority
  BY <1>4, AnswersEnd DEF SetMyPriority, SetCurrentTaskPriority, Returns,
     HandlerEnds, Made
<1>5. CASE SetPriority
  <2>1. PICK t \in TidArgs, p \in Priorities : SetTaskPriority(t, p)
    BY <1>5 DEF SetPriority
  <2> QED BY <2>1, AnswersEnd DEF SetTaskPriority, Returns, HandlerEnds, Made
<1>6. CASE Send
  BY <1>6, SendEnds DEF Send
<1>7. CASE Receive
  BY <1>7, ReceiveEnds DEF Receive
<1>8. CASE Reply
  <2>1. PICK t \in TidArgs, tooSmall \in BOOLEAN : ReplyProxy(t, tooSmall)
    BY <1>8 DEF Reply
  <2> QED BY <2>1, AnswersEnd, <1>8 DEF ReplyProxy, Returns, HandlerEnds, Made
<1>9. CASE Destroy
  <2>1. PICK t \in TidArgs : DestroyHandler(t)
    BY <1>9 DEF Destroy
  <2> QED BY <2>1, AnswersEnd, EnterDestroyEnds DEF DestroyHandler, Made
<1>10. CASE Irq
  BY <1>10 DEF Irq, HandleIrq, Returns, HandlerEnds, Made
<1>11. CASE DestroyStep
  <2>1. CASE DestroyChild
    BY <2>1, EnterDestroyEnds DEF DestroyChild
  <2>2. CASE DestroySelf
    BY <2>2 DEF DestroySelf, HandlerEnds, Made
  <2> QED BY <1>11, <2>1, <2>2 DEF DestroyStep
<1> QED BY <1>1, <1>2, <1>3, <1>4, <1>5, <1>6, <1>7, <1>8, <1>9, <1>10, <1>11
      DEF SystemCall

\* In the kernel's own loop nothing but Activate happens.
LEMMA NotInKernel ==
  ASSUME SystemCall \/ Irq \/ DestroyStep
  PROVE  mode # "kernel"
BY DEF SystemCall, Create, Exit, Pass, Destroy, MyTid, MyParentTid,
   GetMyPriority, SetMyPriority, GetPriority, SetPriority, GetTasksStats,
   Send, Receive, Reply, AwaitEvent, Running, Irq, DestroyStep,
   DestroyChild, DestroySelf

\* One task is ACTIVE at most, nobody is READY with a better priority than
\* the running task, and a result is only kept until the next task runs.
TurnInv ==
  Sound => /\ \A s \in Slots : sched.state[s] = "ACTIVE" => s = current
           /\ mode = "user" => \A s \in Slots : sched.state[s] = "READY" =>
                sched.priority[current] <= sched.priority[s]
           /\ mode # "kernel" => result = NoResult
TurnsInv == TurnInv /\ ParentAnswer

\* MyParentTid answers with a living parent that has the caller on its list,
\* or finds the parent a ZOMBIE.
LEMMA ParentKnown ==
  ASSUME IInv, Sound, mode = "user", GetParentTid
  PROVE  ParentAnswer' /\ UNCHANGED <<sched, current>> /\ mode' = "kernel"
<1> DEFINE p == parent[current]
           s == SlotOf(p)
<1>1. /\ UNCHANGED <<sched, tid, children, current, corrupt>>
      /\ result'.value = IF p = -1 THEN -2
                         ELSE IF ~ IsTaskAlive(p) THEN -1 ELSE p
      /\ mode' = "kernel"
  BY DEF GetParentTid, Answers, Returns
<1>2. /\ current \in Slots /\ ~ IsDead(current) /\ ~ Linked(dstack, current)
  BY UserFacts, EmptyFacts DEF IsDead, DeadStates
<1>3. p \in Int /\ s \in Slots
  BY <1>2, SoundFacts, SlotFacts
<1>4. CASE p = -1
  BY <1>1, <1>4 DEF ParentAnswer
<1>5. CASE p # -1
  <2>1. tid[s] = p /\ ~ IsDead(s) /\ Linked(children[s], current)
    BY <1>2, <1>3, <1>5 DEF IInv, Existence, FamilyTree
  <2>2. 0 <= p /\ p <= LONG_MAX /\ sched.state[s] \in TaskStates
    BY <2>1, <1>3, SoundFacts DEF IInv, Existence, TidsValid, TidsInRange, SchedTypes
  <2>3. CASE sched.state[s] = "ZOMBIE"
    <3>1. ~ IsTaskAlive(p)
      BY <2>3 DEF IsTaskAlive, AliveStates
    <3> QED BY <1>1, <1>3, <1>5, <2>1, <2>3, <3>1 DEF ParentAnswer
  <2>4. CASE sched.state[s] # "ZOMBIE"
    <3>1. IsTaskAlive(p)
      BY <2>1, <2>2, <2>4 DEF IsTaskAlive, IsValidTid, AliveStates, IsDead,
         TaskStates
    <3>2. /\ result'.value = p /\ p >= 0 /\ p # -1 /\ SlotOf(p) = s
          /\ UNCHANGED <<sched, tid, children, current>>
      BY <1>1, <1>3, <1>5, <2>2, <3>1
    <3> HIDE DEF p, s
    <3>3. IsTaskAlive(result.value)'
      BY <3>1, <3>2 DEF IsTaskAlive, IsValidTid, SlotOf
    <3>4. Linked(children[SlotOf(result.value)], current)'
      BY <2>1, <3>2 DEF SlotOf, Linked
    <3> QED BY <1>1, <3>2, <3>3, <3>4 DEF ParentAnswer
  <2> QED BY <2>3, <2>4
<1> QED BY <1>1, <1>4, <1>5

LEMMA TurnStep ==
  ASSUME IInv, MailInv, TurnsInv, [Next]_vars
  PROVE  TurnsInv'
<1>1. CASE UNCHANGED vars
  <2>1. UNCHANGED <<sched, tid, children, current, mode, result, corrupt>>
    BY <1>1 DEF vars, taskVars, commVars
  <2> QED BY <2>1 DEF TurnsInv, TurnInv, ParentAnswer, Sound, IsTaskAlive,
       IsValidTid, SlotOf
<1>2. CASE ~ Sound
  BY <1>1, <1>2, SoundBefore
<1>3. CASE ~ Sound'
  BY <1>3 DEF TurnsInv, TurnInv, ParentAnswer
<1>4. CASE Sound /\ Sound' /\ Activate
  <2>1. ScheduleAndActivate
    BY <1>4, DamageEnds DEF Activate, ActivateNobody, Damage, Sound, NotCorrupt
  <2>2. \A m \in Slots : Requeued.state[m] # "ACTIVE"
    BY <1>4, RequeuedOK DEF TurnsInv, TurnInv
  <2>3. \A m \in Slots : /\ m # current' => sched'.state[m] = Requeued.state[m]
                         /\ sched'.state[m] = "READY" => Requeued.state[m] = "READY"
    BY <1>4, <2>1, ScheduleFacts, RequeuedOK DEF SchedTypes
  <2>4. result' = NoResult /\ result'.call # "MyParentTid"
    BY <2>1 DEF ScheduleAndActivate, NoResult
  <2> QED BY <1>4, <2>1, <2>2, <2>3, <2>4, ScheduleFacts
        DEF TurnsInv, TurnInv, ParentAnswer
<1>5. CASE Sound /\ Sound' /\ MyParentTid
  <2>1. mode = "user" /\ GetParentTid
    BY <1>5 DEF MyParentTid, Running
  <2> QED BY <1>5, <2>1, ParentKnown DEF TurnsInv, TurnInv
<1>6. CASE Sound /\ Sound' /\ (SystemCall \/ Irq \/ DestroyStep) /\ ~ MyParentTid
  <2>1. mode # "kernel"
    BY <1>6, NotInKernel
  <2>2. /\ UNCHANGED current /\ mode' # "user"
        /\ mode' = "destroy" => UNCHANGED result
        /\ result'.call = "MyParentTid" => UNCHANGED result
    BY <1>6, StepEnds DEF HandlerEnds, Made
  <2>3. result = NoResult /\ result.call # "MyParentTid"
    BY <1>6, <2>1 DEF TurnsInv, TurnInv, NoResult
  <2>4. \A s \in Slots : sched'.state[s] = "ACTIVE" => sched.state[s] = "ACTIVE"
    <3>1. Quiet \/ Talks
      BY MailStep
    <3>2. ASSUME NEW s \in Slots, sched'.state[s] = "ACTIVE"
          PROVE  sched.state[s] = "ACTIVE"
      <4>1. CASE Talks
        BY <4>1, <3>2 DEF Talks, Same, Blocks, Received, Resumes
      <4>2. CASE Moves(s)
        BY <4>2, <3>2, <2>1 DEF Moves, Same, Born, Dies, Stops, Woken, Answered,
           Yields, Chosen, DeadStates
      <4> QED BY <3>1, <4>1, <4>2 DEF Quiet
    <3> QED BY <3>2
  <2>5. mode' # "kernel" => mode' = "destroy"
    BY <1>6, <2>2, StepOK DEF IInv, TypeOK, TasksTypeOK
  <2> QED BY <1>6, <2>2, <2>3, <2>4, <2>5 DEF TurnsInv, TurnInv, ParentAnswer
<1>7. CASE Damaged
  BY <1>1, <1>7 DEF Damaged
<1> QED BY <1>1, <1>2, <1>3, <1>4, <1>5, <1>6, <1>7 DEF Next

LEMMA TurnInit ==
  ASSUME Init
  PROVE  TurnsInv
<1>1. /\ \A s \in Slots : sched.state[s] # "ACTIVE"
      /\ mode = "kernel" /\ result.call # "MyParentTid"
  BY DEF Init, TasksInit, NoResult
<1> QED BY <1>1 DEF TurnsInv, TurnInv, ParentAnswer

THEOREM TurnsKept == Spec => []TurnsInv
<1>1. Init => TurnsInv
  BY TurnInit
<1>2. IInv /\ MailInv /\ TurnsInv /\ [Next]_vars => TurnsInv'
  BY TurnStep
<1> QED BY <1>1, <1>2, Invariance, MailKept, PTL DEF Spec

\* A preemptive scheduler: whenever user code runs, it is that of the best
\* READY task and of nobody else (ScheduleAndActivate).
THEOREM BestTaskRuns == Spec => []BestPriorityRuns
<1>1. IInv /\ TurnsInv => BestPriorityRuns
  BY DEF IInv, Modes, TurnsInv, TurnInv, BestPriorityRuns
<1> QED BY <1>1, Invariance, TurnsKept, PTL

\* What MyParentTid answers, in every reachable state (GetParentTid).
THEOREM ParentAnswers == Spec => []ParentAnswer
<1>1. TurnsInv => ParentAnswer
  BY DEF TurnsInv
<1> QED BY <1>1, TurnsKept, PTL

-----------------------------------------------------------------------------
(* Reply: who runs first.                                                  *)

Replied == result.call = "Reply" /\ result.value \in {0, -4}
ReplyInv ==
  Sound /\ mode = "kernel" /\ Replied =>
    /\ SlotOf(result.arg) \in Slots
    /\ sched.state[SlotOf(result.arg)] = "READY"
    /\ current \in Slots /\ sched.state[current] = "ACTIVE"

\* A Reply that succeeds makes the sender READY beside the running task.
LEMMA ReplyResumes ==
  ASSUME IInv, MailInv, Sound, Reply
  PROVE  ReplyInv'
<1>1. PICK t \in TidArgs, tooSmall \in BOOLEAN : ReplyProxy(t, tooSmall)
  BY DEF Reply
<1>2. t \in Int
  BY ConstantFacts DEF TidArgs
<1>3. CASE ~ (IsValidTid(t) /\ IsTaskAlive(t) /\ AwaitsReply(t))
  <2>1. result'.value \in {-1, -2, -3}
    BY <1>1, <1>3 DEF ReplyProxy, Answers, Returns
  <2> QED BY <2>1 DEF ReplyInv, Replied
<1>4. CASE IsValidTid(t) /\ IsTaskAlive(t) /\ AwaitsReply(t)
  <2> DEFINE s == SlotOf(t)
             from == nodes[s].from
             sc == SetTaskState(sched, from, "READY")
  <2>1. /\ sched' = sc /\ result'.arg = t /\ UNCHANGED current
    BY <1>1, <1>4 DEF ReplyProxy, Returns
  <2>2. s \in Slots /\ sched.state[s] = "REPLY_BLOCKED" /\ tid[s] = t
    BY <1>2, <1>4, SlotFacts DEF AwaitsReply, IsTaskAlive
  <2>3. current \in Slots /\ sched.state[current] = "ACTIVE"
    BY UserFacts DEF Reply, Running
  <2>4. result'.arg = t /\ SlotOf(result.arg)' = s
    BY <2>1 DEF SlotOf
  <2> HIDE DEF s
  <2>5. from = tid[s] /\ SlotOf(from) = s
    BY <2>2, SoundFacts DEF MailInv, Filed
  <2> HIDE DEF from
  <2>6. sc.state = [sched.state EXCEPT ![s] = "READY"]
    <3>1. "READY" \in TaskStates /\ "REPLY_BLOCKED" \in QueuedStates
      BY StatesFacts
    <3> HIDE DEF sc
    <3> QED BY <3>1, <2>2, <2>5, MovesOne DEF sc
  <2> HIDE DEF sc
  <2>7. /\ sched'.state[s] = "READY" /\ sched'.state[current] = "ACTIVE"
    BY <2>1, <2>2, <2>3, <2>6, SoundFacts DEF SchedTypes
  <2> QED BY <2>1, <2>2, <2>3, <2>4, <2>7 DEF ReplyInv
<1> QED BY <1>3, <1>4

LEMMA ReplyStep ==
  ASSUME IInv, MailInv, TurnsInv, ReplyInv, [Next]_vars
  PROVE  ReplyInv'
<1>1. CASE UNCHANGED vars
  <2>1. UNCHANGED <<sched, current, mode, result, corrupt>>
    BY <1>1 DEF vars, taskVars
  <2> QED BY <2>1 DEF ReplyInv, Replied, Sound, SlotOf
<1>2. CASE ~ Sound
  BY <1>1, <1>2, SoundBefore
<1>3. CASE ~ Sound'
  BY <1>3 DEF ReplyInv
<1>4. CASE Sound /\ Sound' /\ Activate
  <2>1. ScheduleAndActivate
    BY <1>4, DamageEnds DEF Activate, ActivateNobody, Damage, Sound, NotCorrupt
  <2> QED BY <2>1 DEF ScheduleAndActivate, ReplyInv
<1>5. CASE Sound /\ Sound' /\ (SystemCall \/ Irq \/ DestroyStep)
  <2>1. UNCHANGED result \/ Made(result'.call)
    BY <1>5, StepEnds DEF HandlerEnds
  <2>2. mode # "kernel"
    BY <1>5, NotInKernel
  <2>3. result.call # "Reply"
    BY <1>5, <2>2 DEF TurnsInv, TurnInv, NoResult
  <2>4. CASE UNCHANGED result
    BY <2>3, <2>4 DEF ReplyInv, Replied
  <2>5. CASE Reply
    BY <1>5, <2>5, ReplyResumes
  <2>6. CASE result'.call # "Reply"
    BY <2>6 DEF ReplyInv, Replied
  <2> QED BY <2>1, <2>4, <2>5, <2>6 DEF Made
<1> QED BY <1>1, <1>2, <1>3, <1>4, <1>5 DEF Next, Damaged

\* The running task goes to the end of its queue, so that a READY task of no
\* worse priority is taken first.
LEMMA YieldsToEqual ==
  ASSUME IInv, Sound, ScheduleAndActivate, current \in Slots,
         sched.state[current] = "ACTIVE", NEW s \in Slots,
         sched.state[s] = "READY", sched.priority[s] <= sched.priority[current]
  PROVE  current' # current
<1> DEFINE p == sched.priority[current]
           q == sched.queue["READY"][p]
           n == Head(Requeued.queue["READY"][Best(Requeued)])
           marked == [sched EXCEPT !.state[current] = "READY"]
           E == {}
<1>1. /\ current' = n /\ ReadyPriorities(Requeued) # {}
  BY DEF ScheduleAndActivate
<1>2. /\ Requeued \in SchedTypes /\ SchedOK(Requeued, {})
      /\ Requeued.state[s] = "READY"
  BY RequeuedOK
<1>3. sched \in SchedTypes /\ SchedOK(sched, {current})
  BY SoundFacts
<1>4. /\ p \in Priorities /\ sched.priority[s] \in Priorities
      /\ q \in Seq(Slots) /\ "READY" \in QueuedStates /\ current # NoTask
  BY <1>3, StatesFacts, ConstantFacts DEF SchedTypes
<1>5. Requeued = EnqueueTask(marked, current)
  BY <1>4 DEF Requeued, SetCurrentTaskState
<1>6. /\ marked.state[current] = "READY" /\ marked.priority = sched.priority
      /\ marked.queue = sched.queue
  BY <1>3 DEF SchedTypes
<1> HIDE DEF marked
<1>7. /\ Requeued.priority = sched.priority
      /\ Requeued.queue["READY"][p] = Append(q, current)
  BY <1>3, <1>4, <1>5, <1>6 DEF EnqueueTask, EnqueueQueue, SchedTypes
<1>8. SUFFICES ASSUME n = current PROVE FALSE
  BY <1>1
<1>9. /\ Requeued.priority[n] <= Requeued.priority[s]
  <2>1. s \in Slots \ E
    OBVIOUS
  <2>2. SchedOK(Requeued, E)
    BY <1>2
  <2> HIDE DEF E, n
  <2> QED BY <1>1, <1>2, <2>1, <2>2, ActivateNextOK DEF n
<1>10. sched.priority[s] = p
  BY <1>4, <1>7, <1>8, <1>9, TasksAssumption DEF Priorities, HIGHEST_PRIORITY
<1>11. Best(Requeued) = p
  <2> DEFINE y == Best(Requeued)
             qy == Requeued.queue["READY"][y]
  <2>1. y \in Priorities /\ qy # <<>>
    BY <1>1, BestOK
  <2>2. qy \in Seq(Slots) /\ Distinct(qy)
    BY <1>2, <1>4, <2>1 DEF SchedTypes, SchedOK
  <2>3. Linked(qy, n)
    BY <2>1, <2>2, DequeueProperties
  <2> QED BY <1>2, <1>4, <1>7, <1>8, <2>1, <2>3 DEF SchedOK
<1>12. Linked(q, s)
  BY <1>3, <1>4, <1>10 DEF SchedOK
<1>13. q # <<>>
  BY <1>12, EmptyFacts
<1>14. Head(q) = n
  BY <1>4, <1>7, <1>11, <1>13
<1>15. Distinct(q)
  BY <1>3, <1>4 DEF SchedOK
<1>16. Linked(q, n)
  BY <1>4, <1>13, <1>14, <1>15, DequeueProperties
<1> QED BY <1>3, <1>4, <1>8, <1>16 DEF SchedOK

\* A READY task keeps the kernel loop from running out of tasks.
LEMMA ReadyRuns ==
  ASSUME IInv, Sound, NEW s \in Slots, sched.state[s] = "READY"
  PROVE  ~ ActivateNobody
<1>1. /\ Requeued \in SchedTypes /\ SchedOK(Requeued, {})
      /\ Requeued.state[s] = "READY"
  BY RequeuedOK
<1>2. Requeued.priority[s] \in Priorities /\ "READY" \in QueuedStates
  BY <1>1, StatesFacts DEF SchedTypes
<1>3. Linked(Requeued.queue["READY"][Requeued.priority[s]], s)
  BY <1>1, <1>2 DEF SchedOK
<1> QED BY <1>2, <1>3, EmptyFacts DEF ActivateNobody, ReadyPriorities

\* After ReplyProxy has made the sender READY, at the tail of its priority,
\* and ScheduleAndActivate the caller behind it, the caller only goes on
\* before the sender if its priority is better.
THEOREM SenderFirst == Spec => SenderRunsBeforeReplier
<1> DEFINE Before == mode = "kernel" /\ Replied =>
             LET s == SlotOf(result.arg)
             IN  sched.priority[s] <= sched.priority[current] => current' # current
<1>1. Init => ReplyInv
  BY DEF Init, TasksInit, NoResult, ReplyInv, Replied
<1>2. IInv /\ MailInv /\ TurnsInv /\ ReplyInv /\ [Next]_vars => ReplyInv'
  BY ReplyStep
<1>3. IInv /\ TurnsInv /\ ReplyInv /\ [Next]_vars => Before \/ UNCHANGED vars
  <2> SUFFICES ASSUME IInv, ReplyInv, Sound, mode = "kernel", Replied, Next
               PROVE  LET s == SlotOf(result.arg)
                      IN  sched.priority[s] <= sched.priority[current] =>
                            current' # current
    BY SoundBefore
  <2> DEFINE s == SlotOf(result.arg)
  <2>1. /\ s \in Slots /\ sched.state[s] = "READY"
        /\ current \in Slots /\ sched.state[current] = "ACTIVE"
    BY DEF ReplyInv
  <2> HIDE DEF s
  <2>2. ScheduleAndActivate
    BY <2>1, NotInKernel, ReadyRuns DEF Next, Activate, Damaged, Sound
  <2> QED BY <2>1, <2>2, YieldsToEqual DEF s
<1> QED BY <1>1, <1>2, <1>3, Invariance, MailKept, TurnsKept, PTL
      DEF Spec, SenderRunsBeforeReplier, Replied

-----------------------------------------------------------------------------
(* AwaitEvent: the awaited line stays enabled.                             *)

\* A line that somebody awaits is enabled and awaited by nobody else; without
\* Destroy nobody stops waiting but by its interrupt.
OneWaiterEach == ~ SharedEvents /\ "Destroy" \notin Calls
EventInv ==
  Sound => /\ mode # "destroy"
           /\ AwaitedEventEnabled
           /\ \A s, t \in Slots :
                sched.state[s] = "EVENT_BLOCKED" /\ sched.state[t] = "EVENT_BLOCKED"
                /\ awaiting[s] = awaiting[t] => s = t

\* What a step leaves alone: the interrupt controller, who awaits what, and,
\* but for Create and Exit, the count of tasks.
EventsKept ==
  /\ UNCHANGED enabled /\ mode' # "destroy"
  /\ Create \/ Exit \/ UNCHANGED num_tasks
  /\ \A s \in Slots : sched.state[s] # "FREE" => awaiting'[s] = awaiting[s]

\* Nobody but the caller of AwaitEvent begins to wait for an event.
LEMMA OnlyAwaitBlocks ==
  ASSUME IInv, MailInv, [Next]_vars, NEW s \in Slots, ~ AwaitEvent,
         sched'.state[s] = "EVENT_BLOCKED"
  PROVE  sched.state[s] = "EVENT_BLOCKED"
<1>1. CASE Talks
  BY <1>1 DEF Talks, Same, Blocks, Received, Resumes
<1>2. CASE Moves(s)
  BY <1>2 DEF Moves, Same, Born, Dies, Stops, Woken, Answered, Yields, Chosen,
     DeadStates
<1> QED BY <1>1, <1>2, MailStep DEF Quiet

LEMMA AwaitingFrame ==
  ASSUME IInv, Sound, [Next]_vars, ~ AwaitEvent, ~ Irq, ~ Destroy,
         mode # "destroy", Sound'
  PROVE  EventsKept
<1>1. ASSUME UNCHANGED <<awaiting, enabled, num_tasks>>,
              UNCHANGED mode \/ mode' \in {"user", "kernel"}
      PROVE  EventsKept
  BY <1>1 DEF EventsKept
<1>2. CASE UNCHANGED vars
  BY <1>2 DEF vars, taskVars, EventsKept
<1>3. ASSUME NEW call, NEW arg, NEW value, Answers(call, arg, value)
      PROVE  EventsKept
  BY <1>1, <1>3 DEF Answers, Returns
<1>4. ASSUME NEW how, Damage(how)
      PROVE  EventsKept
  BY <1>1, <1>4 DEF Damage
<1>5. CASE Create
  <2>1. PICK p \in PriorityArgs : CreateTaskSafe(p)
    BY <1>5 DEF Create
  <2>2. CASE avail # <<>> /\ CreateTask(p)
    <3> DEFINE s == Head(avail)
    <3>1. /\ awaiting' = [awaiting EXCEPT ![s] = NoInterrupt]
          /\ UNCHANGED enabled /\ mode' = "kernel"
      BY <2>2 DEF CreateTask, Returns
    <3>2. s \in Slots /\ sched.state[s] = "FREE"
      <4>1. avail \in Seq(Slots) /\ Distinct(avail)
        BY DEF IInv, TypeOK, TasksTypeOK, Existence, FreeListConsistent
      <4>2. s \in Slots /\ Linked(avail, s)
        BY <2>2, <4>1, DequeueProperties
      <4> QED BY <4>2 DEF IInv, Existence, FreeListConsistent
    <3>3. awaiting \in [Slots -> Interrupts \cup {NoInterrupt}]
      BY DEF IInv, TypeOK, TasksTypeOK
    <3> HIDE DEF s
    <3> QED BY <1>5, <3>1, <3>2, <3>3 DEF EventsKept
  <2> QED BY <1>3, <2>1, <2>2 DEF CreateTaskSafe
<1>6. CASE Exit
  BY <1>6 DEF Exit, ExitTask, Returns, EventsKept
<1>7. CASE \/ Pass \/ MyTid \/ MyParentTid \/ GetMyPriority
           \/ GetTasksStats \/ GetPriority
  <2> QED BY <1>3, <1>7 DEF Pass, MyTid, MyParentTid, GetMyPriority,
     GetTasksStats, Nop, GetCurrentTid, GetParentTid, GetCurrentTaskPriority,
     TasksStatsHandler, GetPriority, GetTaskPriority
<1>8. CASE SetMyPriority
  <2>1. PICK p \in Priorities : SetCurrentTaskPriority(p)
    BY <1>8 DEF SetMyPriority
  <2>2. CASE Answers("SetMyPriority", p, -1)
    BY <1>3, <2>2
  <2> QED BY <1>1, <2>1, <2>2 DEF SetCurrentTaskPriority, Returns
<1>9. CASE SetPriority
  <2>1. PICK t \in TidArgs, p \in Priorities : SetTaskPriority(t, p)
    BY <1>9 DEF SetPriority
  <2>2. Answers("SetPriority", t, -1)
    BY <2>1, ConstantFacts DEF SetTaskPriority
  <2> QED BY <1>3, <2>2
<1>10. ASSUME NEW call, NEW arg, NEW t, NEW nd, NEW mq, NEW sc,
              CompleteReceive(call, arg, t, nd, mq, sc)
       PROVE  EventsKept
  <2>1. CASE Damage("destroyed sender resumed")
    BY <1>4, <2>1
  <2>2. CASE UNCHANGED <<awaiting, enabled, num_tasks>> /\ mode' = "kernel"
    BY <1>1, <2>2
  <2> QED BY <1>10, <2>1, <2>2 DEF CompleteReceive, Returns
<1>11. CASE Send
  <2>1. PICK t \in TidArgs : SendProxy(t)
    BY <1>11 DEF Send
  <2>2. CASE PostMessage(t)
    <3>1. \/ UNCHANGED <<awaiting, enabled, num_tasks>> /\ mode' = "kernel"
          \/ \E nd, mq, sc : CompleteReceive("Send", t, t, nd, mq, sc)
      BY <2>2 DEF PostMessage, Returns
    <3> QED BY <1>1, <1>10, <3>1
  <2> QED BY <1>3, <1>4, <2>1, <2>2 DEF SendProxy
<1>12. CASE Receive
  <2>1. CASE ReceiveBlocks
    <3>1. \/ UNCHANGED <<awaiting, enabled, num_tasks>> /\ mode' = "kernel"
          \/ Damage("linked node overwritten")
      BY <2>1 DEF ReceiveBlocks, Returns
    <3> QED BY <1>1, <1>4, <3>1
  <2>2. CASE \E nd, mq, sc : CompleteReceive("Receive", 0, tid[current], nd, mq, sc)
    <3> QED BY <1>10, <2>2
  <2> QED BY <1>12, <2>1, <2>2 DEF Receive, ReceiveProxy
<1>13. CASE Reply
  <2>1. PICK t \in TidArgs, tooSmall \in BOOLEAN : ReplyProxy(t, tooSmall)
    BY <1>13 DEF Reply
  <2>2. \/ UNCHANGED <<awaiting, enabled, num_tasks>> /\ mode' = "kernel"
        \/ \E v : Answers("Reply", t, v)
    BY <2>1 DEF ReplyProxy, Returns
  <2> QED BY <1>1, <1>3, <2>2
<1>14. ~ DestroyStep
  BY DEF DestroyStep, DestroyChild, DestroySelf
<1>15. CASE Activate
  <2>1. \/ ScheduleAndActivate \/ Damage("no task to run")
    BY <1>15 DEF Activate, ActivateNobody
  <2>2. CASE ScheduleAndActivate
    BY <1>1, <2>2 DEF ScheduleAndActivate
  <2> QED BY <1>4, <2>1, <2>2
<1>16. CASE Damaged
  BY <1>2, <1>16 DEF Damaged
<1> QED
  BY <1>2, <1>5, <1>6, <1>7, <1>8, <1>9, <1>11, <1>12, <1>13, <1>14, <1>15,
     <1>16 DEF Next, SystemCall

\* The interrupt of a line wakes a task that awaits it, if there is one.
LEMMA WaiterWoken ==
  ASSUME IInv, Sound, mode = "user", NEW i \in enabled,
         HandleIrq(i), NEW s \in Slots, Awaits(s, i)
  PROVE  \E w \in Slots : Awaits(w, i) /\ WokenBy(w, i)
<1> DEFINE f == FirstWaiter(i)
           r == SetTaskState(sched, tid[f], "READY")
           q == sched.queue["EVENT_BLOCKED"][sched.priority[s]]
<1>1. /\ sched \in SchedTypes /\ SchedOK(sched, {current}) /\ s # current
  BY UserFacts DEF Awaits
<1>2. sched.priority[s] \in Priorities /\ "EVENT_BLOCKED" \in QueuedStates
  BY <1>1, StatesFacts DEF SchedTypes
<1>3. Linked(q, s)
  BY <1>1, <1>2 DEF SchedOK, Awaits
<1>4. PICK k \in DOMAIN q : q[k] = s
  BY <1>3 DEF Linked
<1>5. k \in WaitersAt(i, sched.priority[s])
  BY <1>4 DEF WaitersAt, Awaits
<1>6. ~ \A p \in Priorities : WaitersAt(i, p) = {}
  BY <1>2, <1>5
<1>7. /\ f \in Slots /\ sched.state[f] = "EVENT_BLOCKED" /\ awaiting[f] = i
  BY <1>1, <1>6, FirstWaiterOK
<1>8. sched' = r /\ result'.call = "HandleIrq" /\ result'.arg = i
  BY <1>6 DEF HandleIrq, UnblockTaskWaitingOnEvent, Returns
<1> HIDE DEF f
<1>9. r.state = [sched.state EXCEPT ![f] = "READY"]
  <2>1. "READY" \in TaskStates /\ "EVENT_BLOCKED" \in QueuedStates
    BY StatesFacts
  <2>2. SlotOf(tid[f]) = f
    BY <1>7, SoundFacts
  <2> HIDE DEF r
  <2> QED BY <2>1, <2>2, <1>7, MovesOne DEF r
<1> HIDE DEF r
<1>10. \A m \in Slots : sched'.state[m] = IF m = f THEN "READY"
                                         ELSE sched.state[m]
  BY <1>1, <1>7, <1>8, <1>9 DEF SchedTypes
<1> QED BY <1>7, <1>8, <1>10 DEF Awaits, WokenBy

\* UnblockTaskWaitingOnEvent wakes one task, and one that awaits the line of
\* the interrupt that HandleIrq is handling; it finds one whenever there is
\* one; and nothing else but DestroyHandler ends a wait.
THEOREM EventsServed == Spec => EventWakesItsWaiter
<1> DEFINE Leaves(s) ==
             sched.state[s] = "EVENT_BLOCKED" /\ sched'.state[s] # "EVENT_BLOCKED" =>
               WokenBy(s, awaiting[s]) \/ sched'.state[s] \in DeadStates
           Found ==
             mode = "user" /\ result'.call = "HandleIrq" =>
               LET i == result'.arg
               IN  (\E s \in Slots : Awaits(s, i)) =>
                     \E s \in Slots : Awaits(s, i) /\ WokenBy(s, i)
<1>1. ASSUME IInv, MailInv, [Next]_vars, NEW s \in Slots
      PROVE  Leaves(s)
  <2>1. CASE Talks
    BY <2>1 DEF Talks, Same, Blocks, Received, Resumes
  <2>2. CASE Moves(s)
    BY <2>2 DEF Moves, Same, Born, Dies, Stops, Woken, Answered, Yields, Chosen
  <2> QED BY <1>1, <2>1, <2>2, MailStep DEF Quiet
<1>2. ASSUME IInv, TurnsInv, [Next]_vars
      PROVE  Found \/ UNCHANGED vars
  <2>1. SUFFICES ASSUME Sound, mode = "user", result'.call = "HandleIrq", Next,
                        ~ UNCHANGED vars
                 PROVE  Found
    BY <1>2, SoundBefore
  <2>2. result.call # "HandleIrq"
    BY <1>2, <2>1 DEF TurnsInv, TurnInv, NoResult
  <2>3. SystemCall \/ Irq \/ DestroyStep
    BY <2>1 DEF Next, Damaged, Activate
  <2>4. Irq
    BY <2>1, <2>2, <2>3, StepEnds DEF HandlerEnds, Made
  <2>5. PICK i \in enabled : HandleIrq(i)
    BY <2>4 DEF Irq
  <2>6. result'.arg = i
    BY <2>5 DEF HandleIrq, Returns
  <2> QED BY <1>2, <2>1, <2>5, <2>6, WaiterWoken
<1>3. IInv /\ MailInv /\ [Next]_vars => \A s \in Slots : Leaves(s)
  BY <1>1
<1>4. IInv /\ TurnsInv /\ [Next]_vars => Found \/ UNCHANGED vars
  BY <1>2
<1> QED BY <1>3, <1>4, Invariance, MailKept, TurnsKept, PTL
      DEF Spec, EventWakesItsWaiter

LEMMA EventStep ==
  ASSUME OneWaiterEach, IInv, MailInv, EventInv, [Next]_vars
  PROVE  EventInv'
<1>1. CASE UNCHANGED vars
  <2>1. UNCHANGED <<sched, awaiting, enabled, mode, corrupt>>
    BY <1>1 DEF vars, taskVars
  <2> QED BY <2>1 DEF EventInv, AwaitedEventEnabled, Sound
<1>2. CASE ~ Sound
  BY <1>1, <1>2, SoundBefore
<1>3. CASE ~ Sound'
  BY <1>3 DEF EventInv
<1>4. ~ Destroy
  BY DEF OneWaiterEach, Destroy, Running
<1>5. CASE Sound /\ Sound' /\ AwaitEvent
  <2>1. PICK i \in Interrupts :
          /\ \A s \in Slots : sched.state[s] = "EVENT_BLOCKED" => awaiting[s] # i
          /\ AwaitEventHandler(i)
    BY <1>5 DEF AwaitEvent, OneWaiterEach
  <2>2. mode = "user" /\ current \in Slots /\ sched \in SchedTypes
    BY <1>5, UserFacts DEF AwaitEvent, Running
  <2>3. /\ awaiting' = [awaiting EXCEPT ![current] = i]
        /\ enabled' = enabled \cup {i} /\ mode' = "kernel"
        /\ sched' = SetCurrentTaskState(sched, "EVENT_BLOCKED")
    BY <2>1 DEF AwaitEventHandler, EnableInterrupt, Returns
  <2>4. sched'.state = [sched.state EXCEPT ![current] = "EVENT_BLOCKED"]
    BY <2>2, <2>3 DEF SetCurrentTaskState, SchedTypes
  <2>5. \A s \in Slots :
          /\ awaiting'[s] = IF s = current THEN i ELSE awaiting[s]
          /\ sched'.state[s] = IF s = current THEN "EVENT_BLOCKED"
                               ELSE sched.state[s]
    BY <2>2, <2>3, <2>4 DEF SchedTypes, IInv, TypeOK, TasksTypeOK
  <2> QED BY <1>5, <2>1, <2>3, <2>5 DEF EventInv, AwaitedEventEnabled
<1>6. CASE Sound /\ Sound' /\ ~ AwaitEvent /\ Irq
  <2>1. PICK i \in enabled : HandleIrq(i)
    BY <1>6 DEF Irq
  <2>2. /\ mode = "user" /\ UNCHANGED commVars
    BY <1>6 DEF Irq
  <2>3. /\ UNCHANGED awaiting /\ mode' = "kernel"
        /\ enabled \ {i} \subseteq enabled'
    BY <2>1 DEF HandleIrq, Returns, DisableInterrupt
  <2>4. \A s \in Slots : sched'.state[s] = "EVENT_BLOCKED" =>
          sched.state[s] = "EVENT_BLOCKED" /\ awaiting[s] # i
    <3>1. \A s \in Slots : sched'.state[s] = "EVENT_BLOCKED" =>
            sched.state[s] = "EVENT_BLOCKED"
      BY <1>6, OnlyAwaitBlocks
    <3>2. ASSUME NEW s \in Slots, Awaits(s, i)
          PROVE  sched'.state[s] = "READY"
      <4>1. PICK w \in Slots : Awaits(w, i) /\ WokenBy(w, i)
        BY <1>6, <2>1, <2>2, <3>2, WaiterWoken
      <4>2. w = s
        BY <1>6, <3>2, <4>1 DEF EventInv, Awaits
      <4> QED BY <4>1, <4>2 DEF WokenBy
    <3> QED BY <3>1, <3>2 DEF Awaits
  <2> QED BY <1>6, <2>3, <2>4 DEF EventInv, AwaitedEventEnabled
<1>7. CASE Sound /\ Sound' /\ ~ AwaitEvent /\ ~ Irq
  <2>1. mode # "destroy"
    BY <1>7 DEF EventInv
  <2>2. EventsKept
    BY <1>4, <1>7, <2>1, AwaitingFrame
  <2>3. \A s \in Slots : sched'.state[s] = "EVENT_BLOCKED" =>
          sched.state[s] = "EVENT_BLOCKED"
    BY <1>7, OnlyAwaitBlocks
  <2>4. \A s \in Slots : sched'.state[s] = "EVENT_BLOCKED" =>
          sched.state[s] = "EVENT_BLOCKED" /\ awaiting'[s] = awaiting[s]
    BY <2>2, <2>3 DEF EventsKept
  <2> QED BY <1>7, <2>2, <2>4 DEF EventInv, AwaitedEventEnabled, EventsKept
<1> QED BY <1>2, <1>3, <1>5, <1>6, <1>7

\* AwaitEventHandler enables the interrupt that a task is going to wait for,
\* and HandleIrq disables it only after it has found a task waiting: whoever
\* is EVENT_BLOCKED can be woken, if no two tasks wait for the same event.
THEOREM EventsEnabled == OneWaiterEach => (Spec => []AwaitedEventEnabled)
<1> SUFFICES ASSUME OneWaiterEach PROVE Spec => []AwaitedEventEnabled
  OBVIOUS
<1>1. Init => EventInv
  <2> SUFFICES ASSUME Init PROVE EventInv
    OBVIOUS
  <2>1. \A s \in Slots : sched.state[s] # "EVENT_BLOCKED"
    BY DEF Init, TasksInit
  <2> QED BY <2>1 DEF Init, TasksInit, EventInv, AwaitedEventEnabled
<1>2. IInv /\ MailInv /\ EventInv /\ [Next]_vars => EventInv'
  BY EventStep
<1>3. EventInv => AwaitedEventEnabled
  BY DEF EventInv, AwaitedEventEnabled
<1> QED BY <1>1, <1>2, <1>3, Invariance, MailKept, PTL DEF Spec

-----------------------------------------------------------------------------
(* GetTasksStats: the counter and the walk agree with the descriptors.     *)

Alive == {s \in Slots : sched.state[s] \in AliveStates}
CountInv == Sound => mode # "destroy" /\ num_tasks = Cardinality(Alive)

LEMMA SlotsFinite ==
  ASSUME NEW S \in SUBSET Slots
  PROVE  IsFiniteSet(S)
<1>1. MAX_TASKS - 1 \in Int
  BY TasksAssumption
<1>2. IsFiniteSet(Slots)
  BY <1>1, FS_Interval DEF Slots
<1> QED BY <1>2, FS_Subset

\* When every task is in its list, the walk finds each of them once.
LEMMA WalkListsAll ==
  ASSUME NEW sc \in SchedTypes, SchedOK(sc, {})
  PROVE  ListedTasks(sc) =
           Cardinality({s \in Slots : sc.state[s] \in QueuedStates})
<1> DEFINE P == Places(sc)
           L == {s \in Slots : sc.state[s] \in QueuedStates}
           F == [x \in P |-> sc.queue[x[1]][x[2]][x[3]]]
<1>1. ASSUME NEW x \in P
      PROVE  /\ x[1] \in QueuedStates /\ x[2] \in Priorities
             /\ x[3] \in DOMAIN sc.queue[x[1]][x[2]]
             /\ x = <<x[1], x[2], x[3]>>
  <2>1. PICK st \in QueuedStates, p \in Priorities :
          x \in {<<st, p, k>> : k \in DOMAIN sc.queue[st][p]}
    BY DEF Places
  <2>2. PICK k \in DOMAIN sc.queue[st][p] : x = <<st, p, k>>
    BY <2>1
  <2> QED BY <2>2
<1>2. ASSUME NEW st \in QueuedStates, NEW p \in Priorities
      PROVE  /\ Distinct(sc.queue[st][p])
             /\ \A k \in DOMAIN sc.queue[st][p] :
                  /\ <<st, p, k>> \in P
                  /\ sc.queue[st][p][k] \in L
                  /\ sc.state[sc.queue[st][p][k]] = st
                  /\ sc.priority[sc.queue[st][p][k]] = p
  <2> DEFINE q == sc.queue[st][p]
  <2>1. q \in Seq(Slots) /\ Distinct(q)
    BY DEF SchedTypes, SchedOK
  <2>2. \A m \in Slots : Linked(q, m) => sc.state[m] = st /\ sc.priority[m] = p
    BY DEF SchedOK
  <2>4. \A k \in DOMAIN q : <<st, p, k>> \in P
    <3> DEFINE Of(x, y) == {<<x, y, j>> : j \in DOMAIN sc.queue[x][y]}
    <3>1. P = UNION {Of(x, y) : x \in QueuedStates, y \in Priorities}
      BY DEF Places
    <3>2. Of(st, p) \in {Of(x, y) : x \in QueuedStates, y \in Priorities}
      OBVIOUS
    <3>3. \A k \in DOMAIN q : <<st, p, k>> \in Of(st, p)
      OBVIOUS
    <3> HIDE DEF Of, P
    <3> QED BY <3>1, <3>2, <3>3
  <2> HIDE DEF q, P
  <2>5. ASSUME NEW k \in DOMAIN q
        PROVE  q[k] \in Slots /\ Linked(q, q[k])
    BY <2>1, ElementOfSeq DEF Linked
  <2>6. \A k \in DOMAIN q : /\ q[k] \in L /\ sc.state[q[k]] = st
                            /\ sc.priority[q[k]] = p
    BY <2>2, <2>5
  <2> QED BY <2>1, <2>4, <2>6 DEF q
<1> HIDE DEF P, F
<1>3. ASSUME NEW x \in P
      PROVE  /\ F[x] \in L
             /\ x[1] = sc.state[F[x]] /\ x[2] = sc.priority[F[x]]
  BY <1>1, <1>2 DEF F
<1>4. ASSUME NEW x \in P, NEW y \in P, F[x] = F[y]
      PROVE  x = y
  <2>1. x[1] = y[1] /\ x[2] = y[2]
    BY <1>3, <1>4
  <2> DEFINE q == sc.queue[x[1]][x[2]]
  <2>2. Distinct(q) /\ x[3] \in DOMAIN q /\ F[x] = q[x[3]]
    BY <1>1, <1>2 DEF F
  <2>3. y[3] \in DOMAIN q /\ F[y] = q[y[3]]
    BY <1>1, <2>1 DEF F
  <2> HIDE DEF q
  <2>4. x[3] = y[3]
    BY <1>4, <2>2, <2>3 DEF Distinct
  <2> QED BY <1>1, <2>1, <2>4
<1>5. ASSUME NEW s \in L
      PROVE  \E x \in P : F[x] = s
  <2> DEFINE st == sc.state[s]
             p == sc.priority[s]
  <2>1. st \in QueuedStates /\ p \in Priorities
    BY DEF SchedTypes
  <2>2. Linked(sc.queue[st][p], s)
    BY <2>1 DEF SchedOK
  <2>3. PICK k \in DOMAIN sc.queue[st][p] : sc.queue[st][p][k] = s
    BY <2>2 DEF Linked
  <2> HIDE DEF st, p
  <2>4. <<st, p, k>> \in P
    BY <1>2, <2>1, <2>3
  <2>5. F[<<st, p, k>>] = s
    BY <2>3, <2>4 DEF F
  <2> QED BY <2>4, <2>5
<1>6. F \in [P -> L]
  BY <1>3 DEF F
<1> HIDE DEF L
<1>7. F \in Bijection(P, L)
  BY <1>4, <1>5, <1>6, Fun_IsBij
<1>8. ExistsBijection(L, P)
  BY <1>7, Fun_ExistsBij, Fun_ExistsBijSymmetric
<1>9. IsFiniteSet(L)
  BY SlotsFinite DEF L
<1> QED BY <1>8, <1>9, FS_Bijection DEF ListedTasks, P, L

\* What GetTasksStats answers.
LEMMA StatsCounted ==
  ASSUME IInv, CountInv, Sound, GetTasksStats
  PROVE  StatsAgree'
<1> DEFINE sc == EnqueueTask(sched, current)
           U == {current}
           E == {}
<1>1. /\ current \in Slots /\ sched.state[current] = "ACTIVE"
      /\ sched \in SchedTypes /\ SchedOK(sched, U) /\ current \in U
  BY UserFacts DEF GetTasksStats, Running
<1>2. /\ result'.value = ListedTasks(sc) /\ result'.arg = num_tasks
      /\ UNCHANGED sched
  BY DEF GetTasksStats, TasksStatsHandler, Answers, Returns
<1>3. U \ {current} = E
  OBVIOUS
<1>4. sched.state[current] \in QueuedStates
  BY <1>1, StatesFacts
<1> HIDE DEF U
<1>5. /\ sc \in SchedTypes /\ SchedOK(sc, U \ {current})
      /\ sc.state = sched.state
  BY <1>1, <1>4, EnqueueTaskOK
<1> HIDE DEF sc
<1>6. ListedTasks(sc) = Cardinality({s \in Slots : sched.state[s] \in QueuedStates})
  BY <1>3, <1>5, WalkListsAll DEF E
<1>7. {s \in Slots : sched.state[s] \in QueuedStates} = {s \in Slots : ~ IsDead(s)}
  BY <1>1, StatesFacts DEF IsDead, SchedTypes
<1>8. {s \in Slots : ~ IsDead(s)} = {s \in Slots : ~ IsDead(s)}'
  BY <1>2 DEF IsDead
<1>9. Alive' = Alive
  BY <1>2 DEF Alive
<1> QED BY <1>2, <1>6, <1>7, <1>8, <1>9 DEF CountInv, StatsAgree, Alive

\* Without Destroy, CreateTask and ExitTask change the count as they change
\* the number of living tasks, and no other step changes either.
LEMMA CountStep ==
  ASSUME "Destroy" \notin Calls, IInv, MailInv, CountInv, [Next]_vars
  PROVE  CountInv'
<1>1. CASE UNCHANGED vars
  <2>1. UNCHANGED <<sched, num_tasks, mode, corrupt>>
    BY <1>1 DEF vars, taskVars
  <2> QED BY <2>1 DEF CountInv, Alive, Sound
<1>2. CASE ~ Sound
  BY <1>1, <1>2, SoundBefore
<1>3. CASE ~ Sound'
  BY <1>3 DEF CountInv
<1>4. ~ Destroy
  BY DEF Destroy, Running
<1> USE SlotsFinite
<1>5. CASE Sound /\ Sound' /\ Create
  <2>1. PICK p \in PriorityArgs : CreateTaskSafe(p)
    BY <1>5 DEF Create
  <2>2. CASE avail # <<>> /\ CreateTask(p)
    <3> DEFINE s == Head(avail)
               fresh == [sched EXCEPT !.state[s] = "READY", !.priority[s] = p]
    <3>1. /\ sched' = EnqueueTask(fresh, s) /\ num_tasks' = num_tasks + 1
          /\ mode' = "kernel"
      BY <2>2 DEF CreateTask, Returns
    <3>2. s \in Slots /\ sched.state[s] = "FREE"
      <4>1. avail \in Seq(Slots) /\ Distinct(avail)
        BY <1>5 DEF IInv, TypeOK, TasksTypeOK, Existence, FreeListConsistent
      <4>2. s \in Slots /\ Linked(avail, s)
        BY <2>2, <4>1, DequeueProperties
      <4> QED BY <1>5, <4>2 DEF IInv, Existence, FreeListConsistent
    <3>3. sched \in SchedTypes
      BY <1>5, SoundFacts
    <3> HIDE DEF s
    <3>4. sched'.state = [sched.state EXCEPT ![s] = "READY"]
      BY <3>1, <3>3 DEF EnqueueTask, SchedTypes
    <3>5. /\ s \notin Alive
          /\ Alive' = Alive \cup {s}
      BY <3>2, <3>3, <3>4 DEF Alive, AliveStates, QueuedStates, SchedTypes
    <3>6. Cardinality(Alive') = Cardinality(Alive) + 1
      BY <3>5, FS_AddElement DEF Alive
    <3> QED BY <1>5, <3>1, <3>6 DEF CountInv
  <2>3. CASE \E v : Answers("Create", p, v)
    <3>1. UNCHANGED <<sched, num_tasks>> /\ mode' = "kernel"
      BY <2>3 DEF Answers, Returns
    <3> QED BY <1>5, <3>1 DEF CountInv, Alive
  <2> QED BY <2>1, <2>2, <2>3 DEF CreateTaskSafe
<1>6. CASE Sound /\ Sound' /\ Exit
  <2>1. /\ num_tasks' = num_tasks - 1 /\ mode' = "kernel"
        /\ sched' = SetCurrentTaskState(sched, "ZOMBIE")
    BY <1>6 DEF Exit, ExitTask, Returns
  <2>2. /\ current \in Slots /\ sched.state[current] = "ACTIVE"
        /\ sched \in SchedTypes
    BY <1>6, UserFacts DEF Exit, Running
  <2>3. sched'.state = [sched.state EXCEPT ![current] = "ZOMBIE"]
    BY <2>1, <2>2 DEF SetCurrentTaskState, SchedTypes
  <2>4. /\ current \in Alive
        /\ Alive' = Alive \ {current}
    BY <2>2, <2>3 DEF Alive, AliveStates, QueuedStates, SchedTypes
  <2>5. Cardinality(Alive') = Cardinality(Alive) - 1
    BY <2>4, FS_RemoveElement DEF Alive
  <2> QED BY <1>6, <2>1, <2>5 DEF CountInv
<1>7. CASE Sound /\ Sound' /\ ~ Create /\ ~ Exit
  <2>1. mode # "destroy" /\ dstack = <<>>
    BY <1>7 DEF CountInv, IInv, Modes
  <2>2. UNCHANGED num_tasks /\ mode' # "destroy"
    <3>1. CASE AwaitEvent
      BY <3>1 DEF AwaitEvent, AwaitEventHandler, Returns
    <3>2. CASE Irq
      BY <3>2 DEF Irq, HandleIrq, Returns
    <3>3. CASE ~ AwaitEvent /\ ~ Irq
      BY <1>4, <1>7, <2>1, <3>3, AwaitingFrame DEF EventsKept
    <3> QED BY <3>1, <3>2, <3>3
  <2>3. ASSUME NEW s \in Slots
        PROVE  sched'.state[s] \in AliveStates <=> sched.state[s] \in AliveStates
    <3>1. CASE Talks
      BY <3>1 DEF Talks, Same, Blocks, Received, Resumes, AliveStates,
         QueuedStates
    <3>2. CASE Moves(s)
      <4>1. ~ Linked(dstack, s)
        BY <2>1, EmptyFacts
      <4> QED BY <1>7, <3>2, <4>1 DEF Moves, Same, Born, Dies, Stops, Woken,
           Answered, Yields, Chosen, AliveStates, QueuedStates
    <3> QED BY <3>1, <3>2, MailStep DEF Quiet
  <2>4. Alive' = Alive
    BY <2>3 DEF Alive
  <2> QED BY <1>7, <2>2, <2>4 DEF CountInv
<1> QED BY <1>2, <1>3, <1>5, <1>6, <1>7

LEMMA StatsStep ==
  ASSUME IInv, MailInv, TurnsInv, CountInv, StatsAgree, [Next]_vars
  PROVE  StatsAgree'
<1>1. CASE UNCHANGED vars
  <2>1. UNCHANGED <<sched, result, corrupt>>
    BY <1>1 DEF vars, taskVars
  <2> QED BY <2>1 DEF StatsAgree, IsDead, Sound
<1>2. CASE ~ Sound
  BY <1>1, <1>2, SoundBefore
<1>3. CASE ~ Sound'
  BY <1>3 DEF StatsAgree
<1>4. CASE Sound /\ Sound' /\ Activate
  <2>1. ScheduleAndActivate
    BY <1>4, DamageEnds DEF Activate, ActivateNobody, Damage, Sound, NotCorrupt
  <2> QED BY <2>1 DEF ScheduleAndActivate, StatsAgree, NoResult
<1>5. CASE Sound /\ Sound' /\ (SystemCall \/ Irq \/ DestroyStep)
  <2>1. UNCHANGED result \/ Made(result'.call)
    BY <1>5, StepEnds DEF HandlerEnds
  <2>2. mode # "kernel"
    BY <1>5, NotInKernel
  <2>3. result.call # "GetTasksStats"
    BY <1>5, <2>2 DEF TurnsInv, TurnInv, NoResult
  <2>4. CASE UNCHANGED result \/ result'.call # "GetTasksStats"
    BY <2>3, <2>4 DEF StatsAgree
  <2>5. CASE GetTasksStats
    BY <1>5, <2>5, StatsCounted
  <2> QED BY <2>1, <2>4, <2>5 DEF Made
<1> QED BY <1>1, <1>2, <1>3, <1>4, <1>5 DEF Next, Damaged

\* The walk of TasksStatsHandler over all lists finds every task once, in any
\* state it may be in, and num_tasks counts the descriptors in use, for tasks
\* that call Create and Exit but not Destroy.
THEOREM StatsCorrect == "Destroy" \notin Calls => (Spec => []StatsAgree)
<1> SUFFICES ASSUME "Destroy" \notin Calls PROVE Spec => []StatsAgree
  OBVIOUS
<1>1. Init => CountInv /\ StatsAgree
  <2> SUFFICES ASSUME Init PROVE CountInv /\ StatsAgree
    OBVIOUS
  <2>1. /\ sched.state = [s \in Slots |-> IF s < 2 THEN "READY" ELSE "FREE"]
        /\ num_tasks = 2 /\ mode = "kernel" /\ result = NoResult
    BY DEF Init, TasksInit
  <2>2. Alive = 0 .. 1
    BY <2>1, TasksAssumption DEF Alive, Slots, AliveStates, QueuedStates
  <2>3. Cardinality(0 .. 1) = 2
    <3>1. 0 \in Int /\ 1 \in Int
      OBVIOUS
    <3>2. Cardinality(0 .. 1) = IF 0 > 1 THEN 0 ELSE 1 - 0 + 1
      BY <3>1, FS_Interval, Zenon
    <3> QED BY <3>2
  <2> QED BY <2>1, <2>2, <2>3 DEF CountInv, StatsAgree, NoResult
<1>2. IInv /\ MailInv /\ CountInv /\ [Next]_vars => CountInv'
  BY CountStep
<1>3. IInv /\ MailInv /\ TurnsInv /\ CountInv /\ StatsAgree /\ [Next]_vars =>
        StatsAgree'
  BY StatsStep
<1> QED BY <1>1, <1>2, <1>3, Invariance, MailKept, TurnsKept, PTL DEF Spec

-----------------------------------------------------------------------------
(* Tasks that damage nothing.                                              *)

OrderlyDestroy == CleanDestroy \/ "Destroy" \notin Calls

\* Whoever is in a queue is blocked in Send to the living task of that queue.
LivingMail ==
  \A r, s \in Slots : Linked(msgq[r], s) =>
    /\ sched.state[s] = "RECEIVE_BLOCKED"
    /\ nodes[s].to = tid[r] /\ ~ IsDead(r)

\* The tasks being destroyed, and those to be destroyed with them.
Unconcerned(d) == d # 0 /\ ~ Pending(d) /\ msgq[d] = <<>>
DoomedUnconcerned ==
  \A e \in Slots : Linked(dstack, e) => \A d \in Descendants(e) : Unconcerned(d)

\* The null task is always there to run.
NullTaskStays == tid[0] = 0 /\ sched.state[0] \in {"READY", "ACTIVE"}

CleanInv ==
  /\ Sound
  /\ LivingMail
  /\ DoomedUnconcerned
  /\ NullTaskStays
  /\ ReceivedByAddressee

-----------------------------------------------------------------------------
\* A queue in which nothing is linked is empty.
LEMMA NothingLinked ==
  ASSUME NEW q \in Seq(Slots), \A n \in Slots : ~ Linked(q, n)
  PROVE  q = <<>>
<1> SUFFICES ASSUME q # <<>> PROVE FALSE
  OBVIOUS
<1>1. Len(q) \in Nat /\ Len(q) >= 1 /\ DOMAIN q = 1 .. Len(q)
  BY EmptySeq, LenProperties
<1>2. q[1] \in Slots /\ Linked(q, q[1])
  BY <1>1, ElementOfSeq DEF Linked
<1> QED BY <1>2

\* A task is among its own descendants, with those of its children.
LEMMA DescendantsFacts ==
  ASSUME NEW s \in Slots
  PROVE  /\ s \in Descendants(s)
         /\ \A c \in Slots : Linked(children[s], c) =>
              Descendants(c) \subseteq Descendants(s)
<1>1. s \in Descendants(s)
  BY DEF Descendants
<1>2. ASSUME NEW c \in Slots, Linked(children[s], c)
      PROVE  Descendants(c) \subseteq Descendants(s)
  <2> SUFFICES ASSUME NEW d \in Descendants(c), NEW D \in SUBSET Slots,
                      s \in D, \A e \in D : ToSet(children[e]) \subseteq D
               PROVE  d \in D
    BY DEF Descendants
  <2>1. c \in D
    BY <1>2 DEF Linked, ToSet
  <2> QED BY <2>1 DEF Descendants
<1> QED BY <1>1, <1>2

\* Who loses children has no more descendants.
LEMMA DescendantsShrink ==
  ASSUME NEW s \in Slots,
         \A e \in Slots : ToSet(children'[e]) \subseteq ToSet(children[e])
  PROVE  Descendants(s)' \subseteq Descendants(s)
<1> SUFFICES ASSUME NEW d, d \in Descendants(s)', NEW D \in SUBSET Slots,
                    s \in D, \A e \in D : ToSet(children[e]) \subseteq D
             PROVE  d \in D
  BY DEF Descendants, Slots
<1>1. \A e \in D : ToSet(children'[e]) \subseteq D
  OBVIOUS
<1> QED BY <1>1 DEF Descendants, Slots
-----------------------------------------------------------------------------
(* The steps other than Send, Receive and Destroy.                         *)

\* They damage nothing.
Calm == /\ corrupt' = corrupt /\ UNCHANGED dstack
        /\ delivery' = delivery \/ delivery' = NoDelivery

\* There is always a task to activate: the null task, if no other.
LEMMA SomebodyReady ==
  ASSUME IInv, TurnsInv, CleanInv
  PROVE  ReadyPriorities(Requeued) # {}
<1>1. Requeued \in SchedTypes /\ SchedOK(Requeued, {}) /\ 0 \in Slots
  BY RequeuedOK, ConstantFacts DEF CleanInv
<1>2. Requeued.state[0] = "READY"
  <2>1. sched.state[0] = "ACTIVE" => current = 0
    BY <1>1 DEF CleanInv, TurnsInv, TurnInv
  <2> QED BY <1>1, <2>1, RequeuedOK DEF CleanInv, NullTaskStays
<1>3. PICK p \in Priorities : Requeued.priority[0] = p
  BY <1>1 DEF SchedTypes
<1>4. Linked(Requeued.queue["READY"][p], 0)
  BY <1>1, <1>2, <1>3, StatesFacts DEF SchedOK
<1>5. Requeued.queue["READY"][p] # <<>>
  BY <1>4, EmptyFacts
<1> QED BY <1>5 DEF ReadyPriorities

LEMMA CalmStep ==
  ASSUME IInv, TurnsInv, CleanInv, [Next]_vars,
         ~ Send, ~ Receive, ~ Destroy, ~ DestroyStep
  PROVE  Calm
<1>1. CASE UNCHANGED vars
  BY <1>1 DEF vars, taskVars, commVars, Calm
<1>2. ASSUME NEW call, NEW arg, NEW value, Answers(call, arg, value)
      PROVE  corrupt' = corrupt /\ UNCHANGED dstack
  BY <1>2 DEF Answers, Returns
<1>3. CASE Create
  BY <1>2, <1>3 DEF Create, CreateTaskSafe, CreateTask, Returns, commVars, Calm
<1>4. CASE Exit \/ AwaitEvent
  BY <1>4 DEF Exit, ExitTask, AwaitEvent, AwaitEventHandler, Returns, commVars,
     Calm
<1>5. CASE Pass \/ MyTid \/ MyParentTid \/ GetMyPriority \/ GetTasksStats
  BY <1>2, <1>5 DEF Pass, MyTid, MyParentTid, GetMyPriority, GetTasksStats, Nop,
     GetCurrentTid, GetParentTid, GetCurrentTaskPriority, TasksStatsHandler,
     commVars, Calm
<1>6. CASE GetPriority
  BY <1>2, <1>6 DEF GetPriority, GetTaskPriority, commVars, Calm
<1>7. CASE SetMyPriority
  BY <1>2, <1>7 DEF SetMyPriority, SetCurrentTaskPriority, Returns, commVars, Calm
<1>8. CASE SetPriority
  BY <1>2, <1>8 DEF SetPriority, SetTaskPriority, Returns, commVars, Calm
<1>9. CASE Reply
  <2>1. PICK t \in TidArgs, tooSmall \in BOOLEAN : ReplyProxy(t, tooSmall)
    BY <1>9 DEF Reply
  <2> QED BY <2>1, <1>2 DEF ReplyProxy, Returns, commVars, Calm
<1>10. CASE Irq
  BY <1>10 DEF Irq, HandleIrq, Returns, commVars, Calm
<1>11. CASE Activate
  BY <1>11, SomebodyReady DEF Activate, ScheduleAndActivate, ActivateNobody, Calm
<1>12. CASE Damaged
  BY <1>1, <1>12 DEF Damaged
<1> QED BY <1>1, <1>3, <1>4, <1>5, <1>6, <1>7, <1>8, <1>9, <1>10, <1>11, <1>12
      DEF Next, SystemCall

\* Who dies in them has nothing to do with any message.
LEMMA QuietClean ==
  ASSUME IInv, CleanInv, Quiet
  PROVE  LivingMail' /\ NullTaskStays'
<1>1. UNCHANGED <<nodes, msgq>> /\ \A s \in Slots : Moves(s)
  BY DEF Quiet
<1>2. ASSUME NEW s \in Slots, Dies(s) PROVE Unconcerned(s)
  BY <1>2, DescendantsFacts DEF Dies, CleanInv, DoomedUnconcerned
<1>3. LivingMail'
  <2> SUFFICES ASSUME NEW r \in Slots, NEW s \in Slots, Linked(msgq[r], s)
               PROVE  /\ sched'.state[s] = "RECEIVE_BLOCKED"
                      /\ nodes[s].to = tid'[r] /\ sched'.state[r] \notin DeadStates
    BY <1>1 DEF LivingMail, IsDead
  <2>1. /\ sched.state[s] = "RECEIVE_BLOCKED"
        /\ nodes[s].to = tid[r] /\ sched.state[r] \notin DeadStates
    BY DEF CleanInv, LivingMail, IsDead
  <2>2. ~ Dies(s) /\ ~ Dies(r)
    BY <1>2, EmptyFacts DEF Unconcerned, Pending
  <2>3. Same(s)
    BY <1>1, <2>1, <2>2 DEF Moves, Born, Dies, Stops, Woken, Answered, Yields, Chosen
  <2>4. tid'[r] = tid[r] /\ sched'.state[r] \notin DeadStates
    BY <1>1, <2>1, <2>2 DEF Moves, Same, Born, Stops, Woken, Answered, Yields,
       Chosen, DeadStates
  <2> QED BY <2>1, <2>3, <2>4 DEF Same
<1>4. NullTaskStays'
  <2>1. 0 \in Slots /\ tid[0] = 0 /\ sched.state[0] \in {"READY", "ACTIVE"}
    BY ConstantFacts DEF CleanInv, NullTaskStays
  <2>2. ~ Dies(0)
    BY <1>2, <2>1 DEF Unconcerned
  <2>3. Moves(0)
    BY <1>1, <2>1
  <2> QED BY <2>1, <2>2, <2>3 DEF Moves, Same, Born, Stops, Woken, Answered,
        Yields, Chosen, NullTaskStays
<1> QED BY <1>3, <1>4

LEMMA CalmClean ==
  ASSUME IInv, MailInv, TurnsInv, CleanInv, [Next]_vars,
         ~ Send, ~ Receive, ~ Destroy, ~ DestroyStep
  PROVE  CleanInv'
<1>1. Calm
  BY CalmStep
<1>2. Quiet
  BY QuietStep
<1>3. LivingMail' /\ NullTaskStays'
  BY <1>2, QuietClean
<1>4. Sound'
  BY <1>1 DEF Calm, CleanInv, Sound
<1>5. ReceivedByAddressee'
  BY <1>1 DEF Calm, CleanInv, ReceivedByAddressee, SlotOf
<1>6. DoomedUnconcerned'
  <2>1. CASE dstack = <<>>
    BY <1>1, <2>1, EmptyFacts DEF Calm, DoomedUnconcerned
  <2>2. CASE UNCHANGED vars
    BY <2>2 DEF vars, taskVars, commVars, CleanInv, DoomedUnconcerned,
       Descendants, Unconcerned, Pending
  <2>3. CASE dstack # <<>> /\ ~ UNCHANGED vars
    <3>1. mode = "destroy"
      BY <2>3 DEF IInv, Modes, CleanInv
    <3>2. ASSUME NEW call PROVE ~ Running(call)
      BY <3>1 DEF Running
    <3>3. ~ SystemCall
      BY <3>2 DEF SystemCall, Create, Exit, Pass, Destroy, MyTid, MyParentTid,
         GetMyPriority, SetMyPriority, GetPriority, SetPriority, GetTasksStats,
         Send, Receive, Reply, AwaitEvent
    <3> QED BY <2>3, <3>1, <3>3 DEF Next, Irq, Activate, Damaged
  <2> QED BY <2>1, <2>2, <2>3
<1> QED BY <1>3, <1>4, <1>5, <1>6 DEF CleanInv

-----------------------------------------------------------------------------
(* Send and Receive.                                                       *)

LEMMA SendClean ==
  ASSUME IInv, CleanInv, mode = "user", tid[current] # 0, NEW t \in Int, Sends(t)
  PROVE  CleanInv'
<1> DEFINE r == SlotOf(t)
<1>1. /\ current \in Slots /\ sched.state[current] = "ACTIVE" /\ dstack = <<>>
      /\ current # 0
  BY UserFacts DEF CleanInv, NullTaskStays
<1>2. ~ Pending(current)
  BY <1>1 DEF Pending, CleanInv, LivingMail
<1>3. dstack' = <<>> /\ Sound'
  BY <1>1, <1>2 DEF Sends, Meets, FilesFor, CleanInv, Sound
<1>4. DoomedUnconcerned'
  BY <1>3, EmptyFacts DEF DoomedUnconcerned
<1>5. /\ msgq \in [Slots -> Seq(Slots)] /\ NodesNameSlots(nodes, msgq, sched.state)
      /\ \A s \in Slots : SlotOf(tid[s]) = s
      /\ r \in Slots
  BY SoundFacts, SlotFacts DEF CleanInv
<1>6. /\ \A q, s \in Slots : Linked(msgq[q], s) =>
           /\ sched.state[s] = "RECEIVE_BLOCKED" /\ s # current
           /\ nodes[s].to = tid[q] /\ sched.state[q] \notin DeadStates
      /\ tid[0] = 0 /\ sched.state[0] \in {"READY", "ACTIVE"}
  BY <1>1 DEF CleanInv, LivingMail, NullTaskStays, IsDead
<1>7. CASE Nothing
  <2>1. UNCHANGED <<sched, tid, nodes, msgq, delivery>>
    BY <1>7 DEF Nothing
  <2>2. LivingMail' /\ NullTaskStays' /\ ReceivedByAddressee'
    BY <2>1 DEF CleanInv, LivingMail, NullTaskStays, ReceivedByAddressee, IsDead,
       SlotOf
  <2> QED BY <1>3, <1>4, <2>2 DEF CleanInv
<1>8. CASE ~ Nothing
  <2>1. tid[r] = t /\ sched.state[r] \in AliveStates /\ (Meets(r) \/ FilesFor(r))
    BY <1>8 DEF Sends
  <2> HIDE DEF r
  <2>2. CASE Meets(r)
    <3>1. /\ UNCHANGED <<tid, msgq>>
          /\ \A s \in Slots : s # current => nodes'[s] = nodes[s]
          /\ \A s \in Slots : sched'.state[s] =
               IF s = current THEN "REPLY_BLOCKED" ELSE IF s = r THEN "READY"
               ELSE sched.state[s]
          /\ sched.state[r] = "SEND_BLOCKED"
          /\ delivery' = [from |-> tid[current], to |-> tid[r], by |-> tid[r],
                          into |-> r, behind |-> 0]
      BY <2>2 DEF Meets
    <3>2. LivingMail'
      BY <1>6, <3>1 DEF LivingMail, IsDead, DeadStates
    <3>3. NullTaskStays'
      BY <1>1, <1>6, <3>1, ConstantFacts DEF NullTaskStays
    <3>4. ReceivedByAddressee'
      BY <1>5, <3>1 DEF ReceivedByAddressee, SlotOf
    <3> QED BY <1>3, <1>4, <3>2, <3>3, <3>4 DEF CleanInv
  <2>3. CASE FilesFor(r)
    <3>1. /\ UNCHANGED <<tid, delivery>>
          /\ \A s \in Slots : s # current => nodes'[s] = nodes[s]
          /\ nodes'[current].to = tid[r]
          /\ \A s \in Slots : sched'.state[s] =
               IF s = current THEN "RECEIVE_BLOCKED" ELSE sched.state[s]
          /\ msgq' = [msgq EXCEPT ![r] = EnqueueQueue(@, current)]
      BY <2>3 DEF FilesFor, EnqueueQueue
    <3>2. \A m : Linked(EnqueueQueue(msgq[r], current), m)
                   <=> Linked(msgq[r], m) \/ m = current
      BY <1>1, <1>2, <1>5, EnqueueProperties DEF Pending, NodesNameSlots
    <3>3. \A q, s \in Slots : Linked(msgq'[q], s) <=>
                              Linked(msgq[q], s) \/ (q = r /\ s = current)
      BY <1>5, <3>1, <3>2
    <3>4. sched.state[r] \notin DeadStates
      BY <2>1 DEF AliveStates, QueuedStates, DeadStates
    <3>5. LivingMail'
      BY <1>6, <3>1, <3>3, <3>4 DEF LivingMail, IsDead, DeadStates
    <3>6. NullTaskStays'
      BY <1>1, <1>6, <3>1, ConstantFacts DEF NullTaskStays
    <3>7. ReceivedByAddressee'
      BY <3>1 DEF CleanInv, ReceivedByAddressee, SlotOf
    <3> QED BY <1>3, <1>4, <3>5, <3>6, <3>7 DEF CleanInv
  <2> QED BY <2>1, <2>2, <2>3
<1> QED BY <1>7, <1>8

LEMMA ReceiveClean ==
  ASSUME IInv, MailInv, CleanInv, mode = "user", tid[current] # 0, Receives
  PROVE  CleanInv'
<1> DEFINE n == Head(msgq[current])
<1>1. /\ current \in Slots /\ sched.state[current] = "ACTIVE" /\ dstack = <<>>
      /\ current # 0
  BY UserFacts DEF CleanInv, NullTaskStays
<1>2. ~ Pending(current)
  BY <1>1 DEF Pending, CleanInv, LivingMail
<1>3. /\ msgq \in [Slots -> Seq(Slots)] /\ NodesNameSlots(nodes, msgq, sched.state)
      /\ \A s \in Slots : SlotOf(tid[s]) = s
  BY SoundFacts DEF CleanInv
<1>4. /\ \A q, s \in Slots : Linked(msgq[q], s) =>
           /\ sched.state[s] = "RECEIVE_BLOCKED" /\ s # current
           /\ nodes[s].to = tid[q] /\ sched.state[q] \notin DeadStates
      /\ tid[0] = 0 /\ sched.state[0] \in {"READY", "ACTIVE"}
  BY <1>1 DEF CleanInv, LivingMail, NullTaskStays, IsDead
<1>5. msgq[current] # <<>> =>
        /\ n \in Slots /\ Linked(msgq[current], n) /\ ~ IsDead(n)
        /\ nodes[n].to = tid[current] /\ n # current /\ n # 0
        /\ \A m : Linked(DequeueQueue(msgq[current]), m)
                     <=> Linked(msgq[current], m) /\ m # n
  <2> SUFFICES ASSUME msgq[current] # <<>>
               PROVE  /\ n \in Slots /\ Linked(msgq[current], n) /\ ~ IsDead(n)
                      /\ nodes[n].to = tid[current] /\ n # current /\ n # 0
                      /\ \A m : Linked(DequeueQueue(msgq[current]), m)
                                   <=> Linked(msgq[current], m) /\ m # n
    OBVIOUS
  <2>1. msgq[current] \in Seq(Slots) /\ Distinct(msgq[current])
    BY <1>1, <1>3 DEF NodesNameSlots
  <2>2. /\ n \in Slots /\ Linked(msgq[current], n)
        /\ \A m : Linked(DequeueQueue(msgq[current]), m)
                     <=> Linked(msgq[current], m) /\ m # n
    BY <2>1, DequeueProperties
  <2> QED BY <2>2, <1>1, <1>4 DEF IsDead, DeadStates
<1> HIDE DEF n
<1>6. Waiting \/ Takes
  BY <1>2, <1>5 DEF Receives, n
<1>7. dstack' = <<>> /\ Sound'
  BY <1>1, <1>6 DEF Waiting, Takes, CleanInv, Sound
<1>8. DoomedUnconcerned'
  BY <1>7, EmptyFacts DEF DoomedUnconcerned
<1>9. CASE Waiting
  <2>1. /\ UNCHANGED <<tid, msgq, delivery>>
        /\ \A s \in Slots : s # current => nodes'[s] = nodes[s]
        /\ \A s \in Slots : sched'.state[s] =
             IF s = current THEN "SEND_BLOCKED" ELSE sched.state[s]
    BY <1>9 DEF Waiting
  <2>2. LivingMail'
    BY <1>4, <2>1 DEF LivingMail, IsDead, DeadStates
  <2>3. NullTaskStays'
    BY <1>1, <1>4, <2>1, ConstantFacts DEF NullTaskStays
  <2>4. ReceivedByAddressee'
    BY <2>1 DEF CleanInv, ReceivedByAddressee, SlotOf
  <2> QED BY <1>7, <1>8, <2>2, <2>3, <2>4 DEF CleanInv
<1>10. CASE Takes
  <2>1. /\ msgq[current] # <<>> /\ UNCHANGED tid
        /\ \A s \in Slots : nodes'[s].to = nodes[s].to
        /\ \A s \in Slots : sched'.state[s] =
             IF s = current /\ tid[current] = nodes[n].to THEN "READY"
             ELSE IF s = n /\ tid[n] = nodes[n].from THEN "REPLY_BLOCKED"
             ELSE sched.state[s]
        /\ msgq' = [msgq EXCEPT ![current] = Tail(@)]
        /\ delivery'.to = nodes[n].to /\ delivery'.by = tid[current]
        /\ delivery'.behind = 0 => delivery'.into = current
    BY <1>10 DEF Takes, n
  <2>2. \A q, s \in Slots : Linked(msgq'[q], s) => Linked(msgq[q], s) /\ s # n
    <3>1. \A q \in Slots : msgq'[q] = IF q = current THEN DequeueQueue(msgq[q])
                                      ELSE msgq[q]
      BY <2>1, <1>3 DEF DequeueQueue
    <3>2. \A q \in Slots : Linked(msgq[q], n) => q = current
      BY <1>1, <1>3, <1>5, <2>1 DEF NodesNameSlots
    <3> QED BY <3>1, <3>2, <1>5, <2>1
  <2>3. LivingMail'
    BY <1>4, <2>1, <2>2 DEF LivingMail, IsDead, DeadStates
  <2>4. NullTaskStays'
    BY <1>1, <1>4, <1>5, <2>1, ConstantFacts DEF NullTaskStays
  <2>5. ReceivedByAddressee'
    BY <1>1, <1>3, <1>5, <2>1 DEF ReceivedByAddressee, SlotOf
  <2> QED BY <1>7, <1>8, <2>3, <2>4, <2>5 DEF CleanInv
<1> QED BY <1>6, <1>9, <1>10

-----------------------------------------------------------------------------
(* DestroyHandler.                                                         *)

\* One call of the recursion, for a task that concerns nobody.
LEMMA EnterDestroyClean ==
  ASSUME IInv, CleanInv, NEW c \in Slots, ~ IsDead(c),
         \A d \in Descendants(c) : Unconcerned(d),
         NEW ch \in [Slots -> Seq(Slots)],
         \A e \in Slots : Distinct(ch[e]),
         \A e \in Slots : \A m : Linked(ch[e], m) => Linked(children[e], m),
         EnterDestroy(c, ch), UNCHANGED commVars
  PROVE  CleanInv'
<1>1. /\ children' = ForgottenByParent(ch, c) /\ dstack' = Append(dstack, c)
      /\ UNCHANGED <<sched, tid, corrupt, nodes, msgq, delivery>>
  BY DEF EnterDestroy, commVars
<1>2. \A e \in Slots : \A m : Linked(children'[e], m) => Linked(children[e], m)
  <2>1. CASE parent[c] = -1
    BY <1>1, <2>1 DEF ForgottenByParent
  <2>2. CASE parent[c] # -1
    <3> DEFINE p == SlotOf(parent[c])
    <3>1. p \in Slots
      BY SoundFacts, SlotFacts DEF CleanInv
    <3>2. children' = [ch EXCEPT ![p] = RemoveQueueNode(@, c)]
      BY <1>1, <2>2 DEF ForgottenByParent
    <3> HIDE DEF p
    <3>3. \A m : Linked(RemoveQueueNode(ch[p], c), m) => Linked(ch[p], m)
      BY <3>1, RemoveProperties
    <3> QED BY <3>1, <3>2, <3>3
  <2> QED BY <2>1, <2>2
<1>3. \A e \in Slots : Descendants(e)' \subseteq Descendants(e)
  <2>1. \A e \in Slots : ToSet(children'[e]) \subseteq ToSet(children[e])
    BY <1>2 DEF ToSet, Linked
  <2> QED BY <2>1, DescendantsShrink
<1>4. \A m : Linked(dstack', m) => Linked(dstack, m) \/ m = c
  <2>1. dstack \in Seq(Slots)
    BY DEF IInv, TypeOK, TasksTypeOK
  <2>2. /\ Len(dstack') = Len(dstack) + 1 /\ dstack' \in Seq(Slots)
        /\ \A i \in 1 .. Len(dstack) : dstack'[i] = dstack[i]
        /\ dstack'[Len(dstack) + 1] = c
    BY <1>1, <2>1, AppendProperties
  <2>3. /\ DOMAIN dstack = 1 .. Len(dstack) /\ DOMAIN dstack' = 1 .. Len(dstack')
        /\ Len(dstack) \in Nat
    BY <2>1, <2>2, LenProperties
  <2>4. ASSUME NEW i \in DOMAIN dstack' PROVE Linked(dstack, dstack'[i]) \/ dstack'[i] = c
    <3>1. i = Len(dstack) + 1 \/ i \in 1 .. Len(dstack)
      BY <2>2, <2>3
    <3> QED BY <3>1, <2>2, <2>3 DEF Linked
  <2> QED BY <2>4 DEF Linked
<1>5. \A d \in Slots : Unconcerned(d)' <=> Unconcerned(d)
  BY <1>1 DEF Unconcerned, Pending
<1>6. DoomedUnconcerned'
  <2> SUFFICES ASSUME NEW e \in Slots, Linked(dstack', e), NEW d, d \in Descendants(e)'
               PROVE  Unconcerned(d)'
    BY DEF DoomedUnconcerned
  <2>1. d \in Descendants(e) /\ d \in Slots
    BY <1>3 DEF Descendants
  <2> QED BY <2>1, <1>4, <1>5 DEF CleanInv, DoomedUnconcerned
<1>7. LivingMail' /\ NullTaskStays' /\ Sound' /\ ReceivedByAddressee'
  BY <1>1 DEF CleanInv, LivingMail, NullTaskStays, Sound, ReceivedByAddressee,
     IsDead, SlotOf
<1> QED BY <1>6, <1>7 DEF CleanInv

LEMMA DestroyClean ==
  ASSUME OrderlyDestroy, IInv, CleanInv, Destroy
  PROVE  CleanInv'
<1>1. CleanDestroy
  BY DEF OrderlyDestroy, Destroy, Running
<1>2. PICK t \in TidArgs : CanDestroy(t) /\ DestroyHandler(t)
  BY <1>1 DEF Destroy
<1>3. t \in Int /\ SlotOf(t) \in Slots
  BY ConstantFacts, SlotFacts DEF TidArgs
<1>4. UNCHANGED commVars
  BY DEF Destroy
<1>5. CASE \E value : Answers("Destroy", t, value)
  <2>1. UNCHANGED <<sched, tid, children, dstack, corrupt, nodes, msgq, delivery>>
    BY <1>4, <1>5 DEF Answers, Returns, commVars
  <2> QED BY <2>1 DEF CleanInv, Sound, LivingMail, DoomedUnconcerned, Descendants,
        Unconcerned, Pending, NullTaskStays, ReceivedByAddressee, IsDead, SlotOf
<1>6. CASE tid[SlotOf(t)] = t /\ EnterDestroy(SlotOf(t), children)
  <2>1. /\ ~ IsDead(SlotOf(t))
        /\ \A d \in Descendants(SlotOf(t)) : Unconcerned(d)
    BY <1>2, <1>6 DEF CanDestroy, Unconcerned
  <2>2. children \in [Slots -> Seq(Slots)] /\ \A e \in Slots : Distinct(children[e])
    BY DEF IInv, TypeOK, TasksTypeOK, Existence, FamilyTree, CleanInv
  <2> QED BY <1>3, <1>4, <1>6, <2>1, <2>2, EnterDestroyClean
<1> QED BY <1>2, <1>5, <1>6 DEF DestroyHandler

LEMMA DestroyStepClean ==
  ASSUME IInv, MailInv, CleanInv, DestroyStep
  PROVE  CleanInv'
<1> DEFINE s == Destroying
<1>1. mode = "destroy" /\ UNCHANGED commVars /\ Sound
  BY DEF DestroyStep, DestroyChild, DestroySelf, CleanInv
<1>2. /\ s \in Slots /\ Linked(dstack, s)
      /\ dstack \in Seq(Slots) /\ Len(dstack) \in Nat /\ Len(dstack) >= 1
      /\ DOMAIN dstack = 1 .. Len(dstack)
  BY <1>1, DestroyingFacts
<1>3. children \in [Slots -> Seq(Slots)] /\ \A e \in Slots : Distinct(children[e])
  BY <1>1 DEF IInv, TypeOK, TasksTypeOK, Existence, FamilyTree
<1>4. CASE DestroyChild
  <2> DEFINE c == Head(children[s])
             ch == [children EXCEPT ![s] = DequeueQueue(@)]
  <2>1. children[s] # <<>> /\ EnterDestroy(c, ch)
    BY <1>4 DEF DestroyChild
  <2> HIDE DEF s
  <2>2. /\ DequeueQueue(children[s]) \in Seq(Slots)
        /\ Distinct(DequeueQueue(children[s]))
        /\ c \in Slots /\ Linked(children[s], c)
        /\ \A m : Linked(DequeueQueue(children[s]), m) => Linked(children[s], m)
    BY <1>2, <1>3, <2>1, DequeueProperties
  <2> HIDE DEF c
  <2>3. ~ IsDead(c)
    BY <1>1, <1>2, <2>2 DEF IInv, Existence, FamilyTree
  <2>4. \A d \in Descendants(c) : Unconcerned(d)
    BY <1>2, <2>2, DescendantsFacts DEF CleanInv, DoomedUnconcerned
  <2>5. /\ ch \in [Slots -> Seq(Slots)]
        /\ \A e \in Slots : Distinct(ch[e])
        /\ \A e \in Slots : \A m : Linked(ch[e], m) => Linked(children[e], m)
    BY <1>2, <1>3, <2>2
  <2> HIDE DEF ch
  <2> QED BY <1>1, <2>1, <2>2, <2>3, <2>4, <2>5, EnterDestroyClean
<1>5. CASE DestroySelf
  <2>1. /\ dstack' = SubSeq(dstack, 1, Len(dstack) - 1)
        /\ UNCHANGED <<children, corrupt, nodes, msgq, delivery>>
    BY <1>1, <1>5 DEF DestroySelf, descVars, commVars
  <2>2. LivingMail' /\ NullTaskStays'
    BY <1>1, <1>5, DestroySelfQuiet, QuietClean
  <2>3. \A m : Linked(dstack', m) => Linked(dstack, m)
    <3>1. /\ dstack' \in Seq(Slots) /\ Len(dstack') = Len(dstack) - 1
          /\ \A i \in 1 .. Len(dstack) - 1 : dstack'[i] = dstack[i]
      BY <1>2, <2>1, SubSeqProperties
    <3>2. DOMAIN dstack' = 1 .. Len(dstack) - 1
      BY <3>1, LenProperties
    <3> QED BY <1>2, <3>1, <3>2 DEF Linked
  <2>4. DoomedUnconcerned'
    BY <2>1, <2>3 DEF CleanInv, DoomedUnconcerned, Descendants, Unconcerned, Pending
  <2>5. Sound' /\ ReceivedByAddressee'
    BY <2>1 DEF CleanInv, Sound, ReceivedByAddressee, SlotOf
  <2> QED BY <2>2, <2>4, <2>5 DEF CleanInv
<1> QED BY <1>4, <1>5 DEF DestroyStep

-----------------------------------------------------------------------------
LEMMA CleanStep ==
  ASSUME OrderlyDestroy, IInv, MailInv, TurnsInv, CleanInv, [Next]_vars
  PROVE  CleanInv'
<1>1. CASE Send
  <2>1. PICK t \in TidArgs : SendProxy(t)
    BY <1>1 DEF Send
  <2>2. t \in Int /\ Sound /\ mode = "user" /\ tid[current] # 0
    BY <1>1, ConstantFacts DEF TidArgs, Send, Running, CleanInv
  <2> QED BY <2>1, <2>2, SendMail, SendClean
<1>2. CASE Receive
  <2>1. ReceiveProxy /\ Sound /\ mode = "user" /\ tid[current] # 0
    BY <1>2 DEF Receive, Running, CleanInv
  <2> QED BY <2>1, ReceiveMail, ReceiveClean
<1>3. CASE ~ Send /\ ~ Receive /\ ~ Destroy /\ ~ DestroyStep
  BY <1>3, CalmClean
<1> QED BY <1>1, <1>2, <1>3, DestroyClean, DestroyStepClean

LEMMA CleanInit ==
  ASSUME Init
  PROVE  CleanInv
<1>1. /\ \A s \in Slots : msgq[s] = <<>>
      /\ dstack = <<>> /\ corrupt = NotCorrupt /\ delivery = NoDelivery
      /\ tid[0] = 0 /\ sched.state[0] = "READY"
  BY ConstantFacts DEF Init, TasksInit, CommunicationInit
<1> QED BY <1>1, EmptyFacts DEF CleanInv, Sound, LivingMail, DoomedUnconcerned,
      NullTaskStays, ReceivedByAddressee

\* DestroyHandler of kernel/task.c unlinks none of the nodes of the tasks that
\* it frees.  If none of them has a message under way there is nothing to
\* unlink: who is in a queue is a living sender, blocked in its Send.
THEOREM CleanKept == OrderlyDestroy => (Spec => []CleanInv)
<1> SUFFICES ASSUME OrderlyDestroy PROVE Spec => []CleanInv
  OBVIOUS
<1>1. Init => CleanInv
  BY CleanInit
<1>2. IInv /\ MailInv /\ TurnsInv /\ CleanInv /\ [Next]_vars => CleanInv'
  BY CleanStep
<1> QED BY <1>1, <1>2, Invariance, MailKept, TurnsKept, PTL DEF Spec

\* Where nobody is destroyed with a message under way, nothing a task does
\* damages the kernel's lists (communication.c, task.c).
THEOREM KernelUndamaged == OrderlyDestroy => (Spec => []NeverDamaged)
<1>1. CleanInv => NeverDamaged
  BY DEF CleanInv, NeverDamaged
<1> QED BY <1>1, CleanKept, PTL

\* There, a message is received by the task it was sent to, and goes into the
\* buffers of that task's Receive unless another sender is queued behind.
THEOREM AddresseeReceives == OrderlyDestroy => (Spec => []ReceivedByAddressee)
<1>1. CleanInv => ReceivedByAddressee
  BY DEF CleanInv
<1> QED BY <1>1, CleanKept, PTL

-----------------------------------------------------------------------------
(* The rendezvous, step by step.                                           *)

\* The phase of every task, as SRR is instantiated with it.
Phase == [s \in Slots |-> PhaseOf(sched.state[s])]
RendezvousStep == SRR!Next \/ UNCHANGED <<Phase, msgq>>

LEMMA PhaseFacts ==
  /\ PhaseOf("READY") = "running" /\ PhaseOf("ACTIVE") = "running"
  /\ PhaseOf("EVENT_BLOCKED") = "running"
  /\ PhaseOf("SEND_BLOCKED") = "receiving"
  /\ PhaseOf("RECEIVE_BLOCKED") = "sending"
  /\ PhaseOf("REPLY_BLOCKED") = "awaiting reply"
  /\ PhaseOf("ZOMBIE") = "none"
  /\ PhaseOf("FREE") = "none" /\ PhaseOf("DESTROYED") = "none"
BY DEF PhaseOf

\* The phases after a step in which one task's alone, or two's, may change.
LEMMA PhasesAfter ==
  ASSUME NEW m \in Slots, NEW new, PhaseOf(sched'.state[m]) = new,
         \A s \in Slots : s # m => PhaseOf(sched'.state[s]) = PhaseOf(sched.state[s])
  PROVE  Phase' = [Phase EXCEPT ![m] = new]
BY DEF Phase, Slots

\* Every step but Send and Receive: start, stop, or a reply.
LEMMA QuietSimulates ==
  ASSUME IInv, MailInv, CleanInv, Quiet
  PROVE  RendezvousStep
<1>1. /\ UNCHANGED <<nodes, msgq>> /\ \A s \in Slots : Moves(s)
  BY DEF Quiet
<1>2. PICK m \in Slots : \A s \in Slots :
        s # m => Same(s) \/ Yields(s) \/ Chosen(s)
  BY DEF Quiet, Alone
<1>3. \A s \in Slots : s # m => PhaseOf(sched'.state[s]) = PhaseOf(sched.state[s])
  BY <1>2, PhaseFacts DEF Same, Yields, Chosen
<1>4. Phase \in [Slots -> {"none", "running", "receiving", "sending",
                           "awaiting reply"}]
      /\ Phase[m] = PhaseOf(sched.state[m])
  BY SoundFacts, PhaseFacts DEF Phase, CleanInv, SchedTypes, TaskStates,
     QueuedStates, DeadStates
<1>5. Moves(m)
  BY <1>1
<1>6. CASE PhaseOf(sched'.state[m]) = PhaseOf(sched.state[m])
  <2>1. \A s \in Slots : PhaseOf(sched'.state[s]) = PhaseOf(sched.state[s])
    BY <1>3, <1>6
  <2> QED BY <1>1, <2>1 DEF RendezvousStep, Phase, Slots
<1>7. CASE Born(m)
  <2>1. msgq[m] = <<>>
    <3>1. IsDead(m)
      BY <1>7 DEF Born, IsDead, DeadStates
    <3>2. \A n \in Slots : ~ Linked(msgq[m], n)
      BY <3>1 DEF CleanInv, LivingMail
    <3> QED BY <3>2, NothingLinked, SoundFacts DEF CleanInv
  <2>2. Phase' = [Phase EXCEPT ![m] = "running"] /\ Phase[m] = "none"
    <3>1. PhaseOf(sched'.state[m]) = "running" /\ PhaseOf(sched.state[m]) = "none"
      BY <1>7, PhaseFacts DEF Born
    <3> QED BY <1>3, <1>4, <3>1, PhasesAfter
  <2> QED BY <1>1, <2>1, <2>2 DEF RendezvousStep, SRR!Next, SRR!Start, Phase
<1>8. CASE Dies(m)
  <2>1. ~ Pending(m)
    BY <1>8, DescendantsFacts DEF Dies, CleanInv, DoomedUnconcerned, Unconcerned
  <2>2. sched.state[m] # "RECEIVE_BLOCKED"
    <3>1. SlotOf(nodes[m].to) \in Slots
      BY SoundFacts, SlotFacts DEF CleanInv
    <3> QED BY <2>1, <3>1 DEF MailInv, CleanInv, Filed, Pending
  <2>3. Phase' = [Phase EXCEPT ![m] = "none"] /\ Phase[m] # "sending"
    <3>1. PhaseOf(sched'.state[m]) = "none"
      BY <1>8, PhaseFacts DEF Dies, DeadStates
    <3>2. Phase[m] # "sending"
      BY <1>4, <2>2, SoundFacts, PhaseFacts DEF CleanInv, SchedTypes, TaskStates,
         QueuedStates, DeadStates
    <3> QED BY <1>3, <3>1, <3>2, PhasesAfter
  <2>4. PhaseOf(sched'.state[m]) = "none"
    BY <1>8, PhaseFacts DEF Dies, DeadStates
  <2>5. CASE Phase[m] = "none"
    BY <1>4, <1>6, <2>4, <2>5
  <2>6. CASE Phase[m] # "none"
    BY <1>1, <2>3, <2>6 DEF RendezvousStep, SRR!Next, SRR!Stop, Phase
  <2> QED BY <2>5, <2>6
<1>9. CASE Stops(m) /\ sched'.state[m] = "ZOMBIE"
  <2>1. Phase' = [Phase EXCEPT ![m] = "none"] /\ Phase[m] = "running"
    <3>1. PhaseOf(sched'.state[m]) = "none" /\ PhaseOf(sched.state[m]) = "running"
      BY <1>9, PhaseFacts DEF Stops
    <3> QED BY <1>3, <1>4, <3>1, PhasesAfter
  <2> QED BY <1>1, <2>1 DEF RendezvousStep, SRR!Next, SRR!Stop, Phase
<1>10. CASE Answered(m)
  <2>1. Phase' = [Phase EXCEPT ![m] = "running"] /\ Phase[m] = "awaiting reply"
    <3>1. PhaseOf(sched'.state[m]) = "running" /\ PhaseOf(sched.state[m]) = "awaiting reply"
      BY <1>10, PhaseFacts DEF Answered
    <3> QED BY <1>3, <1>4, <3>1, PhasesAfter
  <2> QED BY <1>1, <2>1 DEF RendezvousStep, SRR!Next, SRR!ReplyTo, Phase
<1>11. CASE \/ Same(m) \/ Yields(m) \/ Chosen(m) \/ Woken(m)
            \/ Stops(m) /\ sched'.state[m] = "EVENT_BLOCKED"
  BY <1>6, <1>11, PhaseFacts DEF Same, Yields, Chosen, Woken, Stops
<1> QED BY <1>5, <1>7, <1>8, <1>9, <1>10, <1>11 DEF Moves, Stops

\* Send: the receiver waits, or is busy, or there is none.
LEMMA SendSimulates ==
  ASSUME IInv, CleanInv, mode = "user", NEW t \in Int, Sends(t)
  PROVE  RendezvousStep
<1> DEFINE r == SlotOf(t)
<1>1. /\ current \in Slots /\ sched.state[current] = "ACTIVE" /\ r \in Slots
      /\ sched \in SchedTypes /\ msgq \in [Slots -> Seq(Slots)]
  BY UserFacts, SlotFacts, SoundFacts DEF CleanInv
<1>2. \A s \in Slots : Phase[s] = PhaseOf(sched.state[s])
  BY DEF Phase
<1>3. CASE Nothing
  BY <1>3 DEF Nothing, RendezvousStep, Phase
<1>4. CASE ~ Nothing
  <2>1. sched.state[r] \in AliveStates /\ (Meets(r) \/ FilesFor(r))
    BY <1>4 DEF Sends
  <2> HIDE DEF r
  <2>2. CASE Meets(r)
    <3>1. /\ sched.state[r] = "SEND_BLOCKED" /\ UNCHANGED msgq /\ r # current
          /\ \A s \in Slots : sched'.state[s] =
               IF s = current THEN "REPLY_BLOCKED" ELSE IF s = r THEN "READY"
               ELSE sched.state[s]
      BY <1>1, <2>2 DEF Meets
    <3>2. Phase' = [Phase EXCEPT ![current] = "awaiting reply", ![r] = "running"]
      BY <1>1, <3>1, PhaseFacts DEF Phase
    <3>3. Phase[current] = "running" /\ Phase[r] = "receiving"
      BY <1>1, <1>2, <3>1, PhaseFacts
    <3>4. SRR!SendToWaiting(current, r)
      BY <3>1, <3>2, <3>3 DEF SRR!SendToWaiting, Phase
    <3> QED BY <1>1, <3>4 DEF RendezvousStep, SRR!Next
  <2>3. CASE FilesFor(r)
    <3>1. /\ sched.state[r] # "SEND_BLOCKED"
          /\ \A s \in Slots : sched'.state[s] =
               IF s = current THEN "RECEIVE_BLOCKED" ELSE sched.state[s]
          /\ msgq' = [msgq EXCEPT ![r] = Append(@, current)]
      BY <2>3 DEF FilesFor
    <3>2. Phase' = [Phase EXCEPT ![current] = "sending"]
      BY <1>1, <3>1, PhaseFacts DEF Phase
    <3>3. Phase[current] = "running"
      BY <1>1, <1>2, PhaseFacts
    <3>4. Phase[r] \notin {"receiving", "none"}
      BY <1>1, <1>2, <2>1, <3>1, PhaseFacts DEF AliveStates, QueuedStates
    <3>5. SRR!SendToBusy(current, r)
      BY <3>1, <3>2, <3>3, <3>4 DEF SRR!SendToBusy, Phase
    <3> QED BY <1>1, <3>5 DEF RendezvousStep, SRR!Next
  <2> QED BY <2>1, <2>2, <2>3
<1> QED BY <1>3, <1>4

\* Receive: nothing, or the first of the queue.
LEMMA ReceiveSimulates ==
  ASSUME IInv, MailInv, CleanInv, mode = "user", Receives
  PROVE  RendezvousStep
<1> DEFINE n == Head(msgq[current])
<1>1. /\ current \in Slots /\ sched.state[current] = "ACTIVE"
      /\ sched \in SchedTypes /\ msgq \in [Slots -> Seq(Slots)]
  BY UserFacts, SoundFacts DEF CleanInv
<1>2. \A s \in Slots : Phase[s] = PhaseOf(sched.state[s])
  BY DEF Phase
<1>3. Phase[current] = "running"
  BY <1>1, <1>2, PhaseFacts
<1>4. CASE Nothing
  BY <1>4 DEF Nothing, RendezvousStep, Phase
<1>5. CASE Waiting
  <2>1. /\ msgq[current] = <<>> /\ UNCHANGED msgq
        /\ \A s \in Slots : sched'.state[s] =
             IF s = current THEN "SEND_BLOCKED" ELSE sched.state[s]
    BY <1>5 DEF Waiting
  <2>2. Phase' = [Phase EXCEPT ![current] = "receiving"]
    BY <1>1, <2>1, PhaseFacts DEF Phase
  <2>3. SRR!ReceiveNothing(current)
    BY <1>3, <2>1, <2>2 DEF SRR!ReceiveNothing, Phase
  <2> QED BY <1>1, <2>3 DEF RendezvousStep, SRR!Next
<1>6. CASE Takes
  <2>1. /\ msgq[current] # <<>> /\ msgq' = [msgq EXCEPT ![current] = Tail(@)]
        /\ \A s \in Slots : sched'.state[s] =
             IF s = current /\ tid[current] = nodes[n].to THEN "READY"
             ELSE IF s = n /\ tid[n] = nodes[n].from THEN "REPLY_BLOCKED"
             ELSE sched.state[s]
    BY <1>6 DEF Takes
  <2>2. n \in Slots /\ Linked(msgq[current], n)
    <3>1. msgq[current] \in Seq(Slots) /\ Distinct(msgq[current])
      BY <1>1, SoundFacts DEF NodesNameSlots, CleanInv
    <3> QED BY <2>1, <3>1, DequeueProperties
  <2>3. /\ sched.state[n] = "RECEIVE_BLOCKED" /\ nodes[n].to = tid[current]
        /\ nodes[n].from = tid[n] /\ n # current
    BY <1>1, <2>2 DEF CleanInv, LivingMail, MailInv, Filed
  <2> DEFINE h == Head(msgq[current])
  <2> HIDE DEF n, h
  <2>4. \A s \in Slots : PhaseOf(sched'.state[s]) =
          IF s = n THEN "awaiting reply" ELSE PhaseOf(sched.state[s])
    BY <1>1, <2>1, <2>3, PhaseFacts
  <2>5. Phase' = [Phase EXCEPT ![n] = "awaiting reply"]
    BY <2>4, <2>2 DEF Phase
  <2>6. SRR!ReceiveFirst(current)
    BY <1>3, <2>1, <2>5 DEF SRR!ReceiveFirst, Phase, n
  <2> QED BY <1>1, <2>6 DEF RendezvousStep, SRR!Next
<1> QED BY <1>4, <1>5, <1>6 DEF Receives

LEMMA StepSimulates ==
  ASSUME IInv, MailInv, CleanInv, [Next]_vars
  PROVE  RendezvousStep
<1>1. CASE Send
  <2>1. PICK t \in TidArgs : SendProxy(t)
    BY <1>1 DEF Send
  <2>2. t \in Int /\ Sound /\ mode = "user"
    BY <1>1, ConstantFacts DEF TidArgs, Send, Running, CleanInv
  <2> QED BY <2>1, <2>2, SendMail, SendSimulates
<1>2. CASE Receive
  <2>1. ReceiveProxy /\ Sound /\ mode = "user"
    BY <1>2 DEF Receive, Running, CleanInv
  <2> QED BY <2>1, ReceiveMail, ReceiveSimulates
<1>3. CASE ~ Send /\ ~ Receive
  <2>1. Quiet
    BY <1>3, QuietStep
  <2> QED BY <2>1, QuietSimulates
<1> QED BY <1>1, <1>2, <1>3

LEMMA InitSimulates ==
  ASSUME Init
  PROVE  SRR!Init
<1>1. /\ \A s \in Slots : sched.state[s] \in {"READY", "FREE"}
      /\ msgq = [s \in Slots |-> <<>>]
  BY DEF Init, TasksInit, CommunicationInit
<1>2. \A s \in Slots : PhaseOf(sched.state[s]) \in {"none", "running"}
  BY <1>1, PhaseFacts
<1> QED BY <1>1, <1>2 DEF SRR!Init

\* Where nobody is destroyed with a message under way, Send, Receive and Reply
\* are the rendezvous: first come, first served, nobody skipped, received
\* twice or resumed without a reply.
THEOREM KernelImplementsRendezvous ==
  OrderlyDestroy => (Spec => ImplementsRendezvous)
<1>1. Init => SRR!Init
  BY InitSimulates
<1>2. IInv /\ MailInv /\ CleanInv /\ [Next]_vars =>
        [SRR!Next]_<<[s \in Slots |-> PhaseOf(sched.state[s])], msgq>>
  BY StepSimulates DEF RendezvousStep, Phase
<1> QED BY <1>1, <1>2, Invariance, MailKept, CleanKept, PTL
      DEF Spec, ImplementsRendezvous, SRR!Spec
=============================================================================
