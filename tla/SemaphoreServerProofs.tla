----------------------- MODULE SemaphoreServerProofs -----------------------
(***************************************************************************)
(* First lib/queue.c: its pointers do what the operations of Queues do to  *)
(* the sequence of the nodes, for queues of any length, and leave the      *)
(* other queues alone.  Then the semaphore server, which keeps its waiting *)
(* clients in such queues: for any number of clients and semaphores it is  *)
(* a counting semaphore, and SemP alone lets go on who waits in SemV.      *)
(***************************************************************************)
EXTENDS SemaphoreServer, IpcProofs, FiniteSetTheorems

-----------------------------------------------------------------------------
(* The pointers of lib/queue.c.                                            *)

\* Links and ends; those of a node that is in no queue may be anything.
Heap(Queues, Values) ==
  [first : [Queues -> Values], last : [Queues -> Values],
   next : [Nodes -> Values], prev : [Nodes -> Values]]

\* EnqueueQueue of a node that is not in the queue appends it.
LEMMA EnqueueAppends ==
  ASSUME NEW Queues, NEW Values, NEW h \in Heap(Queues, Values), NEW q \in Queues,
         NEW s \in Seq(Nodes), Represents(h, q, s),
         NEW n \in Nodes, \A i \in 1 .. Len(s) : s[i] # n
  PROVE  Represents(EnqueueQueue(h, q, n), q, Seqs!EnqueueQueue(s, n))
<1> DEFINE g == EnqueueQueue(h, q, n)
           r == Seqs!EnqueueQueue(s, n)
           L == Len(s)
<1>1. /\ r \in Seq(Nodes) /\ Len(r) = L + 1 /\ L \in Nat
      /\ \A i \in 1 .. L : r[i] = s[i] /\ s[i] \in Nodes
      /\ r[L + 1] = n
  BY AppendProperties, LenProperties, ElementOfSeq DEF Seqs!EnqueueQueue
<1>2. DOMAIN s = 1 .. L /\ DOMAIN r = 1 .. L + 1
  BY <1>1, LenProperties
<1>3. \A i, j \in 1 .. L : s[i] = s[j] => i = j
  BY <1>2 DEF Represents, Seqs!Distinct
<1>4. /\ h.first[q] = IF L = 0 THEN NULL ELSE s[1]
      /\ h.last[q] = IF L = 0 THEN NULL ELSE s[L]
      /\ \A i \in 1 .. L : /\ h.next[s[i]] = IF i = L THEN NULL ELSE s[i + 1]
                           /\ h.prev[s[i]] = IF i = 1 THEN NULL ELSE s[i - 1]
  BY <1>1 DEF Represents, At
<1>5. /\ g.first[q] = IF L = 0 THEN n ELSE s[1]
      /\ g.last[q] = n
      /\ g.prev = [h.prev EXCEPT ![n] = h.last[q]]
      /\ g.next = IF L = 0 THEN [h.next EXCEPT ![n] = NULL]
                  ELSE [h.next EXCEPT ![s[L]] = n, ![n] = NULL]
  BY <1>1, <1>4, NullAssumption DEF EnqueueQueue, Set, Heap
<1>6. Seqs!Distinct(r)
  <2> SUFFICES ASSUME NEW i \in 1 .. L + 1, NEW j \in 1 .. L + 1, r[i] = r[j] PROVE i = j
    BY <1>2 DEF Seqs!Distinct
  <2>1. CASE i <= L /\ j <= L
    BY <2>1, <1>1, <1>3
  <2>2. CASE i = L + 1 \/ j = L + 1
    BY <2>2, <1>1
  <2> QED BY <2>1, <2>2, <1>1
<1>7. g.first[q] = At(r, 1) /\ g.last[q] = At(r, Len(r))
  BY <1>1, <1>5 DEF At
<1> HIDE DEF g, r
<1>8. ASSUME NEW i \in 1 .. L + 1
      PROVE  g.next[r[i]] = At(r, i + 1) /\ g.prev[r[i]] = At(r, i - 1)
  <2>0. h.next \in [Nodes -> Values] /\ h.prev \in [Nodes -> Values]
    BY DEF Heap
  <2>1. CASE i = L + 1
    <3>1. g.next[n] = NULL /\ g.prev[n] = h.last[q]
      BY <1>1, <1>5, <2>0
    <3>2. At(r, L + 2) = NULL /\ At(r, L) = IF L = 0 THEN NULL ELSE s[L]
      BY <1>1 DEF At
    <3> QED BY <3>1, <3>2, <2>1, <1>1, <1>4
  <2>2. CASE i = L
    <3>1. L # 0 /\ s[L] # n /\ r[i] = s[L] /\ s[L] \in Nodes
      BY <2>2, <1>1
    <3>2. g.next[s[L]] = n /\ g.prev[s[L]] = h.prev[s[L]]
      BY <3>1, <1>5, <2>0
    <3>3. At(r, L + 1) = n
      BY <1>1 DEF At
    <3>4. At(r, L - 1) = IF L = 1 THEN NULL ELSE s[L - 1]
      <4>1. CASE L = 1
        BY <4>1 DEF At
      <4>2. CASE L # 1
        <5>0. L \in Nat /\ Len(r) = L + 1
          BY <1>1
        <5>1. L - 1 \in 1 .. L /\ L - 1 \in 1 .. Len(r)
          <6> HIDE DEF L
          <6> QED BY <5>0, <4>2, <3>1
        <5> QED BY <5>1, <4>2, <1>1 DEF At
      <4> QED BY <4>1, <4>2
    <3> QED BY <3>1, <3>2, <3>3, <3>4, <2>2, <1>1, <1>4
  <2>3. CASE i < L
    <3>1. /\ L # 0 /\ s[i] # n /\ r[i] = s[i] /\ s[i] \in Nodes /\ s[i] # s[L]
          /\ i \in 1 .. L /\ i # L
      BY <2>3, <1>1, <1>3
    <3>2. g.next[s[i]] = h.next[s[i]] /\ g.prev[s[i]] = h.prev[s[i]]
      BY <3>1, <1>5, <2>0
    <3>3. At(r, i + 1) = s[i + 1] /\ At(r, i - 1) = IF i = 1 THEN NULL ELSE s[i - 1]
      BY <3>1, <1>1 DEF At
    <3> QED BY <3>1, <3>2, <3>3, <1>4
  <2> QED BY <2>1, <2>2, <2>3, <1>1
<1> QED BY <1>1, <1>6, <1>7, <1>8 DEF Represents, g, r

\* DequeueQueue takes the first node, if there is one.
LEMMA DequeueTakesFirst ==
  ASSUME NEW Queues, NEW Values, NEW h \in Heap(Queues, Values), NEW q \in Queues,
         NEW s \in Seq(Nodes), Represents(h, q, s)
  PROVE  Represents(DequeueQueue(h, q), q, Seqs!DequeueQueue(s))
<1>1. CASE s = <<>>
  <2>1. h.first[q] = NULL
    BY <1>1 DEF Represents, At
  <2> QED BY <2>1, <1>1 DEF DequeueQueue, Seqs!DequeueQueue
<1>2. CASE s # <<>>
  <2> DEFINE g == DequeueQueue(h, q)
             r == Seqs!DequeueQueue(s)
             L == Len(s)
  <2>1. /\ r \in Seq(Nodes) /\ Len(r) = L - 1 /\ L \in Nat /\ L >= 1
        /\ \A i \in 1 .. L - 1 : r[i] = s[i + 1]
        /\ \A i \in 1 .. L : s[i] \in Nodes
    BY <1>2, HeadTailProperties, EmptySeq, LenProperties, ElementOfSeq DEF Seqs!DequeueQueue
  <2>2. DOMAIN s = 1 .. L /\ DOMAIN r = 1 .. L - 1
    BY <2>1, LenProperties
  <2>3. \A i, j \in 1 .. L : s[i] = s[j] => i = j
    BY <2>2 DEF Represents, Seqs!Distinct
  <2>4. /\ h.first[q] = s[1] /\ h.last[q] = s[L]
        /\ \A i \in 1 .. L : /\ h.next[s[i]] = IF i = L THEN NULL ELSE s[i + 1]
                             /\ h.prev[s[i]] = IF i = 1 THEN NULL ELSE s[i - 1]
    BY <2>1 DEF Represents, At
  <2>5. s[1] # NULL /\ s[1] \in Nodes
    BY <2>1, NullAssumption
  <2>6. /\ g.first[q] = IF L = 1 THEN NULL ELSE s[2]
        /\ g.last[q] = IF L = 1 THEN NULL ELSE s[L]
        /\ g.next = [h.next EXCEPT ![s[1]] = NULL]
        /\ g.prev = IF L = 1 THEN [h.prev EXCEPT ![s[1]] = NULL]
                    ELSE [h.prev EXCEPT ![s[2]] = NULL, ![s[1]] = NULL]
    <3>1. h.next[s[1]] = IF L = 1 THEN NULL ELSE s[2]
      <4>1. 1 \in 1 .. L /\ 1 + 1 = 2 /\ (1 = L <=> L = 1)
        <5> HIDE DEF L
        <5> QED BY <2>1
      <4> QED BY <2>4, <4>1
    <3>2. L # 1 => s[2] # NULL
      BY <2>1, NullAssumption
    <3>3. s[L] = s[1] <=> L = 1
      BY <2>1, <2>3
    <3> QED BY <3>1, <3>2, <3>3, <2>4, <2>5 DEF DequeueQueue, Set, Heap
  <2>7. Seqs!Distinct(r)
    BY <2>1, <2>2, <2>3 DEF Seqs!Distinct
  <2> HIDE DEF g, r
  <2>8. g.first[q] = At(r, 1) /\ g.last[q] = At(r, Len(r))
    BY <2>1, <2>6 DEF At
  <2>9. ASSUME NEW i \in 1 .. L - 1
        PROVE  g.next[r[i]] = At(r, i + 1) /\ g.prev[r[i]] = At(r, i - 1)
    <3>0. h.next \in [Nodes -> Values] /\ h.prev \in [Nodes -> Values]
      BY DEF Heap
    <3>1. r[i] = s[i + 1] /\ i + 1 \in 1 .. L /\ s[i + 1] \in Nodes /\ s[i + 1] # s[1]
      BY <2>1, <2>3
    <3>2. /\ g.next[s[i + 1]] = h.next[s[i + 1]]
          /\ h.next[s[i + 1]] = IF i + 1 = L THEN NULL ELSE s[i + 2]
      BY <3>0, <3>1, <2>4, <2>6
    <3>3. At(r, i + 1) = IF i + 1 = L THEN NULL ELSE s[i + 2]
      BY <2>1 DEF At
    <3>4. CASE i = 1
      <4>1. g.prev[s[2]] = NULL /\ At(r, 0) = NULL
        BY <3>0, <3>1, <3>4, <2>1, <2>6 DEF At
      <4> QED BY <4>1, <3>1, <3>2, <3>3, <3>4
    <3>5. CASE i # 1
      <4>1. s[i + 1] # s[2] /\ L # 1
        BY <3>1, <3>5, <2>1, <2>3
      <4>2. g.prev[s[i + 1]] = h.prev[s[i + 1]] /\ h.prev[s[i + 1]] = s[i]
        BY <4>1, <3>0, <3>1, <3>5, <2>4, <2>6
      <4>3. At(r, i - 1) = s[i]
        BY <3>5, <2>1 DEF At
      <4> QED BY <4>2, <4>3, <3>1, <3>2, <3>3
    <3> QED BY <3>4, <3>5
  <2> QED BY <2>1, <2>7, <2>8, <2>9 DEF Represents, g, r
<1> QED BY <1>1, <1>2

\* RemoveQueueNode closes the gap at the position of the node.
LEMMA RemoveElements ==
  ASSUME NEW S, NEW q \in Seq(S), NEW k \in DOMAIN q, Seqs!Distinct(q)
  PROVE  /\ Seqs!RemoveQueueNode(q, q[k]) \in Seq(S)
         /\ Len(Seqs!RemoveQueueNode(q, q[k])) = Len(q) - 1
         /\ \A i \in 1 .. Len(q) - 1 :
              Seqs!RemoveQueueNode(q, q[k])[i] = IF i < k THEN q[i] ELSE q[i + 1]
<1> DEFINE left == SubSeq(q, 1, k - 1)
           right == SubSeq(q, k + 1, Len(q))
           r == left \o right
<1>2. k \in 1 .. Len(q) /\ Len(q) \in Nat /\ DOMAIN q = 1 .. Len(q)
  BY LenProperties
<1>a. \A i \in 1 .. Len(q) : q[i] \in S
  BY <1>2
<1>3. /\ left \in Seq(S) /\ Len(left) = k - 1
      /\ \A i \in 1 .. k - 1 : left[i] = q[i]
  <2>1. \A i \in 1 .. k - 1 : q[i] \in S
    BY <1>2, <1>a
  <2>2. /\ left \in Seq(S)
        /\ Len(left) = IF 1 <= k - 1 THEN k - 1 - 1 + 1 ELSE 0
        /\ \A i \in 1 .. k - 1 - 1 + 1 : left[i] = q[1 + i - 1]
    BY <2>1, <1>2, SubSeqProperties
  <2> HIDE DEF left
  <2> QED BY <2>2, <1>2
<1>4. /\ right \in Seq(S) /\ Len(right) = Len(q) - k
      /\ \A i \in 1 .. Len(q) - k : right[i] = q[k + i]
  <2>1. \A i \in k + 1 .. Len(q) : q[i] \in S
    BY <1>2, <1>a
  <2>2. /\ right \in Seq(S)
        /\ Len(right) = IF k + 1 <= Len(q) THEN Len(q) - (k + 1) + 1 ELSE 0
        /\ \A i \in 1 .. Len(q) - (k + 1) + 1 : right[i] = q[k + 1 + i - 1]
    BY <2>1, <1>2, SubSeqProperties
  <2> HIDE DEF right
  <2>3. Len(right) = Len(q) - k
    <3>1. Len(right) = IF k + 1 <= Len(q) THEN Len(q) - (k + 1) + 1 ELSE 0
      BY <2>2
    <3>2. Len(q) \in Int /\ k \in Int /\ k <= Len(q)
      BY <1>2
    <3> QED BY <3>1, <3>2, SMTT(30)
  <2>4. ASSUME NEW i \in 1 .. Len(q) - k PROVE right[i] = q[k + i]
    <3>1. i \in 1 .. Len(q) - (k + 1) + 1 /\ k + 1 + i - 1 = k + i
      BY <1>2
    <3> QED BY <3>1, <2>2
  <2> QED BY <2>2, <2>3, <2>4
<1> HIDE DEF left, right
<1>5. /\ r \in Seq(S) /\ Len(r) = Len(q) - 1
      /\ \A i \in 1 .. Len(r) : r[i] = IF i <= k - 1 THEN left[i]
                                       ELSE right[i - (k - 1)]
  <2>1. /\ r \in Seq(S) /\ Len(r) = Len(left) + Len(right)
        /\ \A i \in 1 .. Len(left) + Len(right) :
             r[i] = IF i <= Len(left) THEN left[i] ELSE right[i - Len(left)]
    BY <1>3, <1>4, ConcatProperties
  <2> HIDE DEF r
  <2>2. Len(left) = k - 1 /\ Len(right) = Len(q) - k
    BY <1>3, <1>4
  <2>3. k - 1 + (Len(q) - k) = Len(q) - 1
    BY <1>2
  <2>4. Len(r) = Len(q) - 1
    BY <2>1, <2>2, <2>3
  <2>5. \A i \in 1 .. Len(r) : r[i] = IF i <= k - 1 THEN left[i] ELSE right[i - (k - 1)]
    BY <2>1, <2>2
  <2>6. r \in Seq(S)
    BY <2>1
  <2> QED BY <2>4, <2>5, <2>6, Zenon
<1> HIDE DEF r
<1>6. ASSUME NEW i \in 1 .. Len(q) - 1 PROVE r[i] = IF i < k THEN q[i] ELSE q[i + 1]
  <2>1. PICK n : n = Len(q) /\ n \in Nat /\ k \in 1 .. n /\ i \in 1 .. n - 1
    BY <1>2
  <2>2. CASE i < k
    <3>1. i \in 1 .. k - 1 /\ i <= k - 1
      BY <2>1, <2>2
    <3> QED BY <2>2, <3>1, <1>3, <1>5
  <2>3. CASE ~ i < k
    <3>1. PICK j : j = i - (k - 1) /\ j \in 1 .. n - k /\ k + j = i + 1 /\ ~ i <= k - 1
      BY <2>1, <2>3
    <3>2. r[i] = right[j]
      BY <3>1, <1>5
    <3>3. right[j] = q[k + j]
      BY <2>1, <3>1, <1>4
    <3> QED BY <2>3, <3>1, <3>2, <3>3
  <2> QED BY <2>2, <2>3
<1>7. DOMAIN r = 1 .. Len(q) - 1
  BY <1>5, LenProperties
<1>8. Seqs!RemoveQueueNode(q, q[k]) = r
  <2>1. Seqs!Linked(q, q[k])
    BY DEF Seqs!Linked
  <2>2. k = CHOOSE i \in DOMAIN q : q[i] = q[k]
    BY DEF Seqs!Distinct
  <2> QED BY <2>1, <2>2 DEF Seqs!RemoveQueueNode, Seqs!RemoveAt, r, left, right
<1> HIDE DEF r
<1> QED BY <1>2, <1>5, <1>6, <1>8

\* RemoveQueueNode takes a node out of the queue it is in.
LEMMA RemoveTakesOut ==
  ASSUME NEW Queues, NEW Values, NEW h \in Heap(Queues, Values), NEW q \in Queues,
         NEW s \in Seq(Nodes), Represents(h, q, s), NEW k \in 1 .. Len(s)
  PROVE  Represents(RemoveQueueNode(h, q, s[k]), q, Seqs!RemoveQueueNode(s, s[k]))
<1> DEFINE g == RemoveQueueNode(h, q, s[k])
           r == Seqs!RemoveQueueNode(s, s[k])
           L == Len(s)
<1>1. DOMAIN s = 1 .. L /\ L \in Nat /\ \A i \in 1 .. L : s[i] \in Nodes /\ s[i] # NULL
  BY LenProperties, ElementOfSeq, NullAssumption
<1>2. Seqs!Distinct(s) /\ \A i, j \in 1 .. L : s[i] = s[j] => i = j
  BY <1>1 DEF Represents, Seqs!Distinct
<1>3. /\ r \in Seq(Nodes) /\ Len(r) = L - 1
      /\ \A i \in 1 .. L - 1 : r[i] = IF i < k THEN s[i] ELSE s[i + 1]
  <2>1. k \in DOMAIN s
    BY <1>1
  <2>2. /\ Seqs!RemoveQueueNode(s, s[k]) \in Seq(Nodes)
        /\ Len(Seqs!RemoveQueueNode(s, s[k])) = Len(s) - 1
        /\ \A i \in 1 .. Len(s) - 1 :
             Seqs!RemoveQueueNode(s, s[k])[i] = IF i < k THEN s[i] ELSE s[i + 1]
    BY <1>2, <2>1, RemoveElements
  <2> QED BY <2>2
<1>4. /\ h.first[q] = At(s, 1) /\ h.last[q] = At(s, L)
      /\ \A i \in 1 .. L : h.next[s[i]] = At(s, i + 1) /\ h.prev[s[i]] = At(s, i - 1)
  BY DEF Represents
<1> HIDE DEF r
<1>5. ASSUME NEW i \in 0 .. L PROVE At(r, i) = IF i < k THEN At(s, i) ELSE At(s, i + 1)
  <2>1. CASE i < k
    BY <2>1, <1>1, <1>3 DEF At
  <2>2. CASE ~ (i < k)
    BY <2>2, <1>1, <1>3 DEF At
  <2> QED BY <2>1, <2>2
<1>6. \A i, j \in 1 .. L : s[i] = At(s, j) <=> i = j
  BY <1>1, <1>2 DEF At
<1>7. \A i \in 1 .. L, j \in {0, L + 1} : s[i] # At(s, j)
  BY <1>1 DEF At
<1>8. ASSUME NEW m \in Nodes
      PROVE  /\ g.next[m] = IF m = s[k] THEN NULL
                            ELSE IF m = At(s, k - 1) THEN At(s, k + 1) ELSE h.next[m]
             /\ g.prev[m] = IF m = s[k] THEN NULL
                            ELSE IF m = At(s, k + 1) THEN At(s, k - 1) ELSE h.prev[m]
  BY <1>1, <1>4, NullAssumption DEF RemoveQueueNode, Set, Heap
<1>9. /\ g.first[q] = IF k = 1 THEN At(s, 2) ELSE At(s, 1)
      /\ g.last[q] = IF k = L THEN At(s, L - 1) ELSE At(s, L)
  <2>0. 1 \in 1 .. L /\ L \in 1 .. L
    BY <1>1
  <2>1. h.first[q] = s[k] <=> k = 1
    BY <2>0, <1>4, <1>6
  <2>2. h.last[q] = s[k] <=> k = L
    BY <2>0, <1>4, <1>6
  <2> QED BY <1>4, <2>1, <2>2 DEF RemoveQueueNode, Heap
<1> HIDE DEF g
<1>10. g.first[q] = At(r, 1) /\ g.last[q] = At(r, Len(r))
  <2>1. 1 \in 0 .. L /\ L - 1 \in 0 .. L /\ 1 + 1 = 2 /\ L - 1 + 1 = L
    BY <1>1
  <2>2. k \in Int /\ L \in Int /\ 1 <= k /\ k <= L
    BY <1>1
  <2>3. (1 < k <=> k # 1) /\ (L - 1 < k <=> k = L)
    <3> HIDE DEF L
    <3> QED BY <2>2
  <2>4. At(r, 1) = IF 1 < k THEN At(s, 1) ELSE At(s, 2)
    BY <2>1, <1>5
  <2>5. At(r, L - 1) = IF L - 1 < k THEN At(s, L - 1) ELSE At(s, L)
    BY <2>1, <1>5
  <2> QED BY <2>3, <2>4, <2>5, <1>3, <1>9
<1>11. Seqs!Distinct(r)
  <2>1. DOMAIN r = 1 .. L - 1
    BY <1>3, LenProperties
  <2> QED BY <2>1, <1>1, <1>2, <1>3 DEF Seqs!Distinct
<1>12. ASSUME NEW i \in 1 .. Len(r)
       PROVE  g.next[r[i]] = At(r, i + 1) /\ g.prev[r[i]] = At(r, i - 1)
  <2> DEFINE j == IF i < k THEN i ELSE i + 1
  <2>1. /\ r[i] = s[j] /\ j \in 1 .. L /\ j # k /\ s[j] \in Nodes /\ s[j] # s[k]
        /\ i + 1 \in 0 .. L /\ i - 1 \in 0 .. L
    BY <1>1, <1>2, <1>3
  <2> HIDE DEF j
  <2>2. s[j] = At(s, k - 1) <=> j = k - 1
    <3>1. k - 1 \in 1 .. L \/ k - 1 = 0
      BY <1>1
    <3> QED BY <3>1, <2>1, <1>6, <1>7
  <2>3. s[j] = At(s, k + 1) <=> j = k + 1
    <3>1. k + 1 \in 1 .. L \/ k + 1 = L + 1
      BY <1>1
    <3> QED BY <3>1, <2>1, <1>1, <1>6, <1>7
  <2>4. /\ g.next[s[j]] = IF j = k - 1 THEN At(s, k + 1) ELSE At(s, j + 1)
        /\ g.prev[s[j]] = IF j = k + 1 THEN At(s, k - 1) ELSE At(s, j - 1)
    BY <2>1, <2>2, <2>3, <1>4, <1>8
  <2>5. /\ At(r, i + 1) = IF i + 1 < k THEN At(s, i + 1) ELSE At(s, i + 2)
        /\ At(r, i - 1) = IF i - 1 < k THEN At(s, i - 1) ELSE At(s, i)
    <3>1. i + 1 + 1 = i + 2 /\ i - 1 + 1 = i
      BY <1>1, <1>3
    <3> QED BY <3>1, <2>1, <1>5
  <2>6. CASE i < k
    <3>1. j = i
      BY <2>6 DEF j
    <3>2. i + 1 < k \/ (i + 1 = k /\ i + 2 = k + 1)
      BY <2>6, <1>1, <1>3
    <3>3. j # k + 1 /\ i - 1 < k /\ (i + 1 < k => j # k - 1) /\ (i + 1 = k => j = k - 1 /\ ~ (i + 1 < k))
      BY <2>6, <3>1, <1>1, <1>3
    <3> QED BY <3>1, <3>2, <3>3, <2>1, <2>4, <2>5
  <2>7. CASE ~ (i < k)
    <3>1. j = i + 1 /\ j + 1 = i + 2 /\ j - 1 = i
      BY <2>7, <1>1, <1>3 DEF j
    <3>2. i \in Int /\ k \in Int
      OBVIOUS
    <3>3. /\ i - 1 < k <=> i = k
          /\ j # k - 1 /\ ~ (i + 1 < k) /\ (j = k + 1 <=> i = k)
      BY <2>7, <3>1, <3>2
    <3> QED BY <3>1, <3>3, <2>1, <2>4, <2>5
  <2> QED BY <2>6, <2>7
<1> QED BY <1>3, <1>10, <1>11, <1>12 DEF Represents, g, r

\* On every queue of whatever length the pointers of lib/queue.c do what the
\* kernel takes the three operations to do.
THEOREM QueueOperations ==
  ASSUME NEW Queues, NEW Values, NEW h \in Heap(Queues, Values), NEW q \in Queues,
         NEW s \in Seq(Nodes), Represents(h, q, s)
  PROVE  OperationsAgree(h, q, s)
<1>1. ASSUME NEW n \in Nodes \ {s[i] : i \in 1 .. Len(s)}
      PROVE  Represents(EnqueueQueue(h, q, n), q, Seqs!EnqueueQueue(s, n))
  BY EnqueueAppends
<1>2. Represents(DequeueQueue(h, q), q, Seqs!DequeueQueue(s))
  BY DequeueTakesFirst
<1>3. ASSUME NEW i \in 1 .. Len(s)
      PROVE  Represents(RemoveQueueNode(h, q, s[i]), q, Seqs!RemoveQueueNode(s, s[i]))
  BY RemoveTakesOut
<1> QED BY <1>1, <1>2, <1>3 DEF OperationsAgree

\* They leave alone every queue that shares no node with the one they change:
\* a scheduler list, a family or a mailbox is only disturbed through its own.
THEOREM OtherQueuesUntouched ==
  ASSUME NEW Queues, NEW Values, NEW h \in Heap(Queues, Values), NEW q \in Queues,
         NEW s \in Seq(Nodes), Represents(h, q, s),
         NEW p \in Queues \ {q}, NEW t \in Seq(Nodes), Represents(h, p, t),
         \A i \in 1 .. Len(t), j \in 1 .. Len(s) : t[i] # s[j]
  PROVE  /\ Represents(DequeueQueue(h, q), p, t)
         /\ \A k \in 1 .. Len(s) : Represents(RemoveQueueNode(h, q, s[k]), p, t)
         /\ \A n \in Nodes : (\A i \in 1 .. Len(t) : t[i] # n)
                             => Represents(EnqueueQueue(h, q, n), p, t)
<1>1. /\ \A i \in 1 .. Len(t) : t[i] \in Nodes /\ t[i] # NULL
      /\ \A i \in 1 .. Len(s) : s[i] \in Nodes
      /\ Len(s) \in Nat
  BY ElementOfSeq, LenProperties, NullAssumption
<1>2. \A i \in 1 .. Len(t), j \in Int : t[i] # At(s, j)
  BY <1>1 DEF At
<1>3. /\ h.first[q] = At(s, 1) /\ h.last[q] = At(s, Len(s))
      /\ \A i \in 1 .. Len(s) : h.next[s[i]] = At(s, i + 1) /\ h.prev[s[i]] = At(s, i - 1)
  BY DEF Represents
<1>4. ASSUME NEW g, g.first[p] = h.first[p], g.last[p] = h.last[p],
             \A i \in 1 .. Len(t) : g.next[t[i]] = h.next[t[i]] /\ g.prev[t[i]] = h.prev[t[i]]
      PROVE  Represents(g, p, t)
  BY <1>4 DEF Represents
<1>5. Represents(DequeueQueue(h, q), p, t)
  <2> DEFINE g == DequeueQueue(h, q)
  <2>1. CASE h.first[q] = NULL
    BY <2>1 DEF DequeueQueue
  <2>2. CASE h.first[q] # NULL
    <3>1. Len(s) >= 1 /\ h.first[q] = s[1] /\ h.next[s[1]] = At(s, 2) /\ 1 \in 1 .. Len(s)
      BY <2>2, <1>1, <1>3 DEF At
    <3>2. g.first[p] = h.first[p] /\ g.last[p] = h.last[p]
      BY <2>2 DEF DequeueQueue, Heap
    <3>3. ASSUME NEW i \in 1 .. Len(t)
          PROVE  g.next[t[i]] = h.next[t[i]] /\ g.prev[t[i]] = h.prev[t[i]]
      <4>1. t[i] # s[1] /\ t[i] # At(s, 2) /\ t[i] \in Nodes
        BY <3>1, <1>1, <1>2
      <4> QED BY <4>1, <3>1, <2>2 DEF DequeueQueue, Set, Heap
    <3> HIDE DEF g
    <3>4. Represents(g, p, t)
      BY <3>2, <3>3, <1>4
    <3> QED BY <3>4 DEF g
  <2> QED BY <2>1, <2>2
<1>6. ASSUME NEW k \in 1 .. Len(s) PROVE Represents(RemoveQueueNode(h, q, s[k]), p, t)
  <2> DEFINE g == RemoveQueueNode(h, q, s[k])
  <2>1. g.first[p] = h.first[p] /\ g.last[p] = h.last[p]
    BY DEF RemoveQueueNode, Heap
  <2>2. ASSUME NEW i \in 1 .. Len(t)
        PROVE  g.next[t[i]] = h.next[t[i]] /\ g.prev[t[i]] = h.prev[t[i]]
    <3>1. t[i] # s[k] /\ t[i] # At(s, k - 1) /\ t[i] # At(s, k + 1) /\ t[i] \in Nodes
      BY <1>1, <1>2
    <3>2. h.next[s[k]] = At(s, k + 1) /\ h.prev[s[k]] = At(s, k - 1)
      BY <1>3
    <3> QED BY <3>1, <3>2 DEF RemoveQueueNode, Set, Heap
  <2> HIDE DEF g
  <2>3. Represents(g, p, t)
    BY <2>1, <2>2, <1>4
  <2> QED BY <2>3 DEF g
<1>7. ASSUME NEW n \in Nodes, \A i \in 1 .. Len(t) : t[i] # n
      PROVE  Represents(EnqueueQueue(h, q, n), p, t)
  <2> DEFINE g == EnqueueQueue(h, q, n)
  <2>1. g.first[p] = h.first[p] /\ g.last[p] = h.last[p]
    BY DEF EnqueueQueue, Heap
  <2>2. ASSUME NEW i \in 1 .. Len(t)
        PROVE  g.next[t[i]] = h.next[t[i]] /\ g.prev[t[i]] = h.prev[t[i]]
    <3>1. t[i] # n /\ t[i] # h.last[q] /\ t[i] \in Nodes
      BY <1>1, <1>2, <1>3, <1>7
    <3> QED BY <3>1 DEF EnqueueQueue, Set, Heap
  <2> HIDE DEF g
  <2>3. Represents(g, p, t)
    BY <2>1, <2>2, <1>4
  <2> QED BY <2>3 DEF g
<1> QED BY <1>5, <1>6, <1>7

\* The walk along the links comes by the nodes of the queue.
LEMMA WalkIs ==
  ASSUME NEW h, NEW q, NEW s \in Seq(Nodes), Represents(h, q, s), NEW n \in Nat, Len(s) < n
  PROVE  Walk(h, q, n) = s
<1> DEFINE L == Len(s)
           Step(f) == [i \in 1 .. n |-> IF i = 1 THEN h.first[q]
                                        ELSE IF f[i - 1] = NULL THEN NULL ELSE h.next[f[i - 1]]]
           at == CHOOSE f : f = Step(f)
           length == CHOOSE k \in 0 .. n : /\ \A i \in 1 .. k : at[i] # NULL
                                           /\ k < n => at[k + 1] = NULL
           want == [i \in 1 .. n |-> At(s, i)]
<1>1. L \in Nat /\ L < n /\ \A i \in 1 .. L : s[i] \in Nodes /\ s[i] # NULL
  BY LenProperties, ElementOfSeq, NullAssumption
<1>2. Walk(h, q, n) = SubSeq(at, 1, length)
  BY DEF Walk
<1>3. h.first[q] = At(s, 1) /\ \A i \in 1 .. L : h.next[s[i]] = At(s, i + 1)
  BY DEF Represents
<1>4. want = Step(want)
  <2>1. ASSUME NEW i \in 1 .. n
        PROVE  At(s, i) = Step(want)[i]
    <3>1. CASE i = 1
      BY <1>3, <3>1
    <3>2. CASE i # 1 /\ i - 1 \in 1 .. L
      <4>1. At(s, i - 1) = s[i - 1] /\ s[i - 1] # NULL /\ h.next[s[i - 1]] = At(s, i)
        BY <1>1, <1>3, <3>2 DEF At
      <4>2. i - 1 \in 1 .. n /\ want[i - 1] = s[i - 1]
        BY <1>1, <3>2, <4>1
      <4> QED BY <3>2, <4>1, <4>2
    <3>3. CASE i # 1 /\ i - 1 \notin 1 .. L
      <4>1. At(s, i - 1) = NULL /\ At(s, i) = NULL
        BY <1>1, <3>3 DEF At
      <4>2. i - 1 \in 1 .. n /\ want[i - 1] = NULL
        BY <3>3, <4>1
      <4> QED BY <3>3, <4>1, <4>2
    <3> QED BY <3>1, <3>2, <3>3
  <2> QED BY <2>1
<1>5. at = Step(at)
  <2> HIDE DEF want, Step
  <2> QED BY <1>4
<1> HIDE DEF at
<1>6. \A i \in 1 .. n : at[i] = At(s, i)
  <2> DEFINE bad == {i \in 1 .. n : at[i] # At(s, i)}
  <2> SUFFICES ASSUME bad # {} PROVE FALSE
    OBVIOUS
  <2>1. bad \in SUBSET Nat
    OBVIOUS
  <2>2. PICK i \in bad : \A j \in bad : i <= j
    BY <2>1, LeastElement
  <2>3. i \in 1 .. n /\ at[i] # At(s, i)
    OBVIOUS
  <2>4. i # 1
    BY <1>3, <1>5, <2>3
  <2>5. i - 1 \in 1 .. n /\ i - 1 \notin bad
    BY <2>2, <2>3, <2>4
  <2>6. at[i - 1] = At(s, i - 1)
    BY <2>5
  <2>7. at[i] = IF At(s, i - 1) = NULL THEN NULL ELSE h.next[At(s, i - 1)]
    BY <1>5, <2>3, <2>4, <2>6
  <2>8. want[i] = At(s, i) /\ want[i - 1] = At(s, i - 1)
    BY <2>3, <2>5
  <2>9. want[i] = IF want[i - 1] = NULL THEN NULL ELSE h.next[want[i - 1]]
    <3>1. Step(want)[i] = IF want[i - 1] = NULL THEN NULL ELSE h.next[want[i - 1]]
      BY <2>3, <2>4
    <3> HIDE DEF Step, want
    <3> QED BY <1>4, <3>1
  <2> QED BY <2>3, <2>7, <2>8, <2>9
<1>7. length = L
  <2> DEFINE P(k) == /\ \A i \in 1 .. k : at[i] # NULL
                     /\ k < n => at[k + 1] = NULL
  <2>1. L \in 0 .. n /\ P(L)
    BY <1>1, <1>6 DEF At
  <2>2. \A k \in 0 .. n : P(k) => k = L
    <3> SUFFICES ASSUME NEW k \in 0 .. n, P(k), k # L PROVE FALSE
      OBVIOUS
    <3>1. CASE k < L
      <4>1. k + 1 \in 1 .. L /\ k < n /\ k + 1 \in 1 .. n
        BY <1>1, <3>1
      <4>2. at[k + 1] = s[k + 1]
        BY <1>6, <4>1 DEF At
      <4> QED BY <1>1, <4>1, <4>2
    <3>2. CASE L < k
      <4>1. L + 1 \in 1 .. k /\ L + 1 \in 1 .. n /\ L + 1 \notin 1 .. L
        BY <1>1, <3>2
      <4> QED BY <1>6, <4>1 DEF At
    <3> QED BY <1>1, <3>1, <3>2
  <2>3. \E k \in 0 .. n : P(k)
    BY <2>1
  <2>4. length \in 0 .. n /\ P(length)
    BY <2>3
  <2> HIDE DEF length
  <2> QED BY <2>2, <2>4
<1> HIDE DEF length
<1>8. SubSeq(at, 1, L) = s
  <2>1. \A i \in 1 .. L : at[i] = s[i] /\ at[i] \in Nodes
    BY <1>1, <1>6 DEF At
  <2>2. /\ SubSeq(at, 1, L) \in Seq(Nodes)
        /\ Len(SubSeq(at, 1, L)) = IF 1 <= L THEN L - 1 + 1 ELSE 0
        /\ \A i \in 1 .. L - 1 + 1 : SubSeq(at, 1, L)[i] = at[1 + i - 1]
    BY <1>1, <2>1, SubSeqProperties
  <2> DEFINE x == SubSeq(at, 1, L)
  <2> HIDE DEF x
  <2>3. x \in Seq(Nodes) /\ Len(x) = L /\ \A i \in 1 .. L : x[i] = s[i]
    BY <1>1, <2>1, <2>2 DEF x
  <2>4. x = s
    BY <2>3, SeqEqual
  <2> QED BY <2>4 DEF x
<1> QED BY <1>2, <1>7, <1>8

-----------------------------------------------------------------------------
(* The queues of all semaphores.                                           *)

Values == Clients \cup {NULL, Garbage}
Heaps == Heap(Semaphores, Values)
Queue(h, s) == Walk(h, s, Cardinality(Clients) + 1)

\* Each is well formed, and a node is in one of them only.
QueuesOK(h) ==
  /\ h \in Heaps
  /\ \A s \in Semaphores : Queue(h, s) \in Seq(Clients) /\ Represents(h, s, Queue(h, s))
  /\ \A s, t \in Semaphores : \A i \in 1 .. Len(Queue(h, s)), j \in 1 .. Len(Queue(h, t)) :
       Queue(h, s)[i] = Queue(h, t)[j] => s = t

\* As no client is in a queue twice, the walk is long enough.
LEMMA QueueIs ==
  ASSUME NEW h, NEW s, NEW w \in Seq(Clients), Represents(h, s, w)
  PROVE  Queue(h, s) = w
<1> DEFINE L == Len(w)
           n == Cardinality(Clients) + 1
<1>1. /\ L \in Nat /\ w \in [1 .. L -> Clients]
      /\ \A i, j \in 1 .. L : w[i] = w[j] => i = j
  BY LenProperties, ElementOfSeq DEF Represents, Seqs!Distinct
<1>2. IsFiniteSet(Clients) /\ Cardinality(Clients) \in Nat
  BY SemaphoreAssumption, FS_CardinalityType
<1>3. IsFiniteSet(1 .. L) /\ Cardinality(1 .. L) = L
  <2>1. /\ IsFiniteSet(1 .. L)
        /\ Cardinality(1 .. L) = IF 1 > L THEN 0 ELSE L - 1 + 1
    BY <1>1, FS_Interval
  <2> QED BY <1>1, <2>1
<1>4. ~ (Cardinality(Clients) < L)
  <2> SUFFICES ASSUME Cardinality(Clients) < Cardinality(1 .. L) PROVE FALSE
    BY <1>3
  <2>1. \E i, j \in 1 .. L : i # j /\ w[i] = w[j]
    BY <1>1, <1>2, <1>3, FS_PigeonHole
  <2> QED BY <1>1, <2>1
<1>5. L < n /\ n \in Nat
  BY <1>1, <1>2, <1>4
<1>6. w \in Seq(Nodes)
  BY SemaphoreAssumption
<1> HIDE DEF n
<1>7. Walk(h, s, n) = w
  BY <1>5, <1>6, WalkIs
<1> QED BY <1>7 DEF Queue, n

LEMMA NothingQueued ==
  ASSUME NEW h \in Heaps, \A s \in Semaphores : h.first[s] = NULL /\ h.last[s] = NULL
  PROVE  QueuesOK(h) /\ \A s \in Semaphores : Queue(h, s) = <<>>
<1>1. ASSUME NEW s \in Semaphores
      PROVE  Represents(h, s, <<>>) /\ Queue(h, s) = <<>>
  <2>1. <<>> \in Seq(Clients) /\ Len(<<>>) = 0
    OBVIOUS
  <2>2. Represents(h, s, <<>>)
    BY DEF Represents, At, Seqs!Distinct
  <2> QED BY <2>1, <2>2, QueueIs
<1> DEFINE none == <<>>
<1>2. none \in Seq(Clients) /\ Len(none) = 0
  OBVIOUS
<1>3. \A s \in Semaphores : Represents(h, s, none) /\ Queue(h, s) = none
  BY <1>1
<1> HIDE DEF none
<1>4. \A s, t \in Semaphores : \A i \in 1 .. Len(Queue(h, s)), j \in 1 .. Len(Queue(h, t)) :
        Queue(h, s)[i] = Queue(h, t)[j] => s = t
  BY <1>2, <1>3
<1>5. QueuesOK(h)
  BY <1>2, <1>3, <1>4 DEF QueuesOK
<1> QED BY <1>3, <1>5 DEF none

LEMMA QueueTyped ==
  ASSUME NEW h, QueuesOK(h), NEW s \in Semaphores
  PROVE  /\ Queue(h, s) \in Seq(Clients) /\ Len(Queue(h, s)) \in Nat
         /\ Represents(h, s, Queue(h, s))
         /\ DOMAIN Queue(h, s) = 1 .. Len(Queue(h, s))
         /\ \A i \in 1 .. Len(Queue(h, s)) : Queue(h, s)[i] \in Clients
<1>1. Queue(h, s) \in Seq(Clients) /\ Represents(h, s, Queue(h, s))
  BY DEF QueuesOK
<1> QED BY <1>1, LenProperties, ElementOfSeq

\* A change of one queue that keeps the others.
LEMMA QueueChanged ==
  ASSUME NEW h, QueuesOK(h), NEW s \in Semaphores, NEW g \in Heaps,
         NEW w \in Seq(Clients), Represents(g, s, w),
         \A t \in Semaphores \ {s} : Represents(g, t, Queue(h, t)),
         \A t \in Semaphores \ {s} : \A i \in 1 .. Len(w), j \in 1 .. Len(Queue(h, t)) :
           w[i] # Queue(h, t)[j]
  PROVE  /\ QueuesOK(g) /\ Queue(g, s) = w
         /\ \A t \in Semaphores \ {s} : Queue(g, t) = Queue(h, t)
<1>1. Queue(g, s) = w
  BY QueueIs
<1>2. \A t \in Semaphores \ {s} : Queue(g, t) = Queue(h, t)
  BY QueueIs, QueueTyped
<1>3. \A t \in Semaphores : Queue(g, t) \in Seq(Clients) /\ Represents(g, t, Queue(g, t))
  BY <1>1, <1>2, QueueTyped
<1>4. ASSUME NEW t \in Semaphores, NEW u \in Semaphores,
             NEW i \in 1 .. Len(Queue(g, t)), NEW j \in 1 .. Len(Queue(g, u)),
             Queue(g, t)[i] = Queue(g, u)[j], t # u
      PROVE  FALSE
  <2>1. CASE t = s
    BY <1>1, <1>2, <1>4, <2>1
  <2>2. CASE u = s
    BY <1>1, <1>2, <1>4, <2>2
  <2>3. CASE t # s /\ u # s
    <3>1. Queue(g, t) = Queue(h, t) /\ Queue(g, u) = Queue(h, u)
      BY <1>2, <2>3
    <3> QED BY <1>4, <3>1 DEF QueuesOK
  <2> QED BY <2>1, <2>2, <2>3
<1> QED BY <1>1, <1>2, <1>3, <1>4 DEF QueuesOK

LEMMA EnqueueDoes ==
  ASSUME NEW h, QueuesOK(h), NEW s \in Semaphores, NEW c \in Clients,
         \A t \in Semaphores : \A i \in 1 .. Len(Queue(h, t)) : Queue(h, t)[i] # c
  PROVE  LET g == EnqueueQueue(h, s, c)
         IN  /\ QueuesOK(g) /\ Queue(g, s) = Append(Queue(h, s), c)
             /\ \A t \in Semaphores \ {s} : Queue(g, t) = Queue(h, t)
<1> DEFINE g == EnqueueQueue(h, s, c)
           q == Queue(h, s)
           w == Append(q, c)
<1>1. Nodes = Clients /\ h \in Heap(Semaphores, Values)
  BY SemaphoreAssumption DEF QueuesOK, Heaps
<1>2. /\ q \in Seq(Clients) /\ Represents(h, s, q) /\ Len(q) \in Nat
      /\ \A i \in 1 .. Len(q) : q[i] # c
  BY QueueTyped
<1>3. /\ w \in Seq(Clients) /\ Len(w) = Len(q) + 1
      /\ \A i \in 1 .. Len(q) : w[i] = q[i]
      /\ w[Len(q) + 1] = c
  BY <1>2, AppendProperties
<1>4. Represents(g, s, w)
  <2>1. Seqs!EnqueueQueue(q, c) = w
    BY DEF Seqs!EnqueueQueue
  <2>2. Represents(EnqueueQueue(h, s, c), s, Seqs!EnqueueQueue(q, c))
    BY <1>1, <1>2, EnqueueAppends
  <2> QED BY <2>1, <2>2
<1>5. ASSUME NEW t \in Semaphores \ {s}
      PROVE  /\ Represents(g, t, Queue(h, t))
             /\ \A i \in 1 .. Len(w), j \in 1 .. Len(Queue(h, t)) : w[i] # Queue(h, t)[j]
  <2> DEFINE r == Queue(h, t)
  <2>1. /\ r \in Seq(Clients) /\ Represents(h, t, r)
        /\ \A i \in 1 .. Len(r) : r[i] # c
        /\ \A i \in 1 .. Len(r), j \in 1 .. Len(q) : r[i] # q[j]
    BY QueueTyped DEF QueuesOK
  <2> HIDE DEF q, r
  <2>2. Represents(EnqueueQueue(h, s, c), t, r)
    BY <1>1, <1>2, <2>1, OtherQueuesUntouched
  <2>3. \A i \in 1 .. Len(w), j \in 1 .. Len(r) : w[i] # r[j]
    BY <1>2, <1>3, <2>1
  <2> QED BY <2>2, <2>3 DEF r
<1>6. g \in Heaps
  <2>1. NULL \in Values /\ c \in Values
    BY DEF Values
  <2>2. h.last[s] \in Values
    BY <1>1 DEF Heap
  <2> QED BY <1>1, <2>1, <2>2 DEF EnqueueQueue, Set, Heap, Heaps
<1> HIDE DEF g, w
<1>7. /\ QueuesOK(g) /\ Queue(g, s) = w
      /\ \A t \in Semaphores \ {s} : Queue(g, t) = Queue(h, t)
  BY <1>3, <1>4, <1>5, <1>6, QueueChanged
<1> QED BY <1>7 DEF g, w

LEMMA DequeueDoes ==
  ASSUME NEW h, QueuesOK(h), NEW s \in Semaphores, Queue(h, s) # <<>>
  PROVE  LET g == DequeueQueue(h, s)
             q == Queue(h, s)
         IN  /\ QueuesOK(g) /\ Queue(g, s) = Tail(q) /\ Len(q) > 0
             /\ Tail(q) \in Seq(Clients) /\ Len(Tail(q)) = Len(q) - 1
             /\ \A i \in 1 .. Len(q) - 1 : Tail(q)[i] = q[i + 1]
             /\ \A t \in Semaphores \ {s} : Queue(g, t) = Queue(h, t)
             /\ h.first[s] = q[1]
<1> DEFINE g == DequeueQueue(h, s)
           q == Queue(h, s)
           w == Tail(q)
<1>1. Nodes = Clients /\ h \in Heap(Semaphores, Values)
  BY SemaphoreAssumption DEF QueuesOK, Heaps
<1>2. q \in Seq(Clients) /\ Represents(h, s, q) /\ q # <<>>
  BY QueueTyped
<1>3. /\ w \in Seq(Clients) /\ Len(w) = Len(q) - 1 /\ Len(q) \in Nat /\ Len(q) > 0
      /\ \A i \in 1 .. Len(q) - 1 : w[i] = q[i + 1]
  <2> HIDE DEF q
  <2>1. Len(q) \in Nat \ {0}
    BY <1>2, EmptySeq, Zenon
  <2>2. w \in Seq(Clients) /\ Len(w) = Len(q) - 1 /\ \A i \in 1 .. Len(w) : w[i] = q[i + 1]
    BY <1>2, HeadTailProperties
  <2> HIDE DEF w
  <2> QED BY <2>1, <2>2
<1>4. h.first[s] = q[1]
  BY <1>2, <1>3 DEF Represents, At
<1>5. Represents(g, s, w)
  <2>1. Seqs!DequeueQueue(q) = w
    BY <1>2 DEF Seqs!DequeueQueue
  <2>2. Represents(DequeueQueue(h, s), s, Seqs!DequeueQueue(q))
    BY <1>1, <1>2, DequeueTakesFirst
  <2> QED BY <2>1, <2>2
<1>6. ASSUME NEW t \in Semaphores \ {s}
      PROVE  /\ Represents(g, t, Queue(h, t))
             /\ \A i \in 1 .. Len(w), j \in 1 .. Len(Queue(h, t)) : w[i] # Queue(h, t)[j]
  <2> DEFINE r == Queue(h, t)
  <2>1. /\ r \in Seq(Clients) /\ Represents(h, t, r)
        /\ \A i \in 1 .. Len(r), j \in 1 .. Len(q) : r[i] # q[j]
    BY QueueTyped DEF QueuesOK
  <2> HIDE DEF q, r
  <2>2. Represents(DequeueQueue(h, s), t, r)
    BY <1>1, <1>2, <2>1, OtherQueuesUntouched
  <2>3. \A i \in 1 .. Len(w), j \in 1 .. Len(r) : w[i] # r[j]
    <3> SUFFICES ASSUME NEW i \in 1 .. Len(w), NEW j \in 1 .. Len(r) PROVE w[i] # r[j]
      OBVIOUS
    <3>1. i \in 1 .. Len(q) - 1 /\ i + 1 \in 1 .. Len(q)
      BY <1>3
    <3>2. w[i] = q[i + 1]
      BY <1>3, <3>1
    <3> QED BY <2>1, <3>1, <3>2
  <2> QED BY <2>2, <2>3 DEF r
<1>7. g \in Heaps
  <2>1. NULL \in Values
    BY DEF Values
  <2>2. CASE h.first[s] = NULL
    BY <1>1, <2>2 DEF DequeueQueue, Heaps
  <2>3. CASE h.first[s] # NULL
    <3>1. h.first[s] \in Nodes
      BY <1>1, <1>3, <1>4, QueueTyped
    <3>2. h.next[h.first[s]] \in Values
      BY <1>1, <3>1 DEF Heap
    <3> QED BY <1>1, <2>1, <2>3, <3>2 DEF DequeueQueue, Set, Heap, Heaps
  <2> QED BY <2>2, <2>3
<1> HIDE DEF g, w
<1>8. /\ QueuesOK(g) /\ Queue(g, s) = w
      /\ \A t \in Semaphores \ {s} : Queue(g, t) = Queue(h, t)
  <2>1. w \in Seq(Clients)
    BY <1>3
  <2>2. /\ \A t \in Semaphores \ {s} : Represents(g, t, Queue(h, t))
        /\ \A t \in Semaphores \ {s} : \A i \in 1 .. Len(w), j \in 1 .. Len(Queue(h, t)) :
             w[i] # Queue(h, t)[j]
    BY <1>6
  <2> HIDE DEF q
  <2> QED BY <2>1, <2>2, <1>5, <1>7, QueueChanged
<1> QED BY <1>3, <1>4, <1>8 DEF g, w

-----------------------------------------------------------------------------
(* The invariant.                                                          *)

Requests == [type : {"SEM_V", "SEM_P"}, sem : Semaphores]
Handling(t) == server = "handle" /\ Runs(Server) /\ sender[Server] = t

\* A negative counter is the number of those who wait.
CounterInv ==
  /\ counter \in [Semaphores -> Int]
  /\ \A s \in Semaphores : Len(Queue(heap, s)) = IF counter[s] < 0 THEN -counter[s] ELSE 0

ServerInv ==
  /\ server \in {"register", "receive", "handle"}
  /\ phase[Server] \in {"running", "receiving"}
  /\ server # "handle" => Runs(Server)
  /\ \A t : Handling(t) =>
       t \in Clients /\ phase[t] \in {"awaiting reply", "none"} /\ sent[t] \in Requests

ClientInv == \A c \in Clients : Blocked(c) => sent[c] \in Requests

\* A client in a queue has called SemV on it, and still waits unless it has
\* been destroyed; its call is not being handled any more.
WaiterOK(c, s) ==
  /\ phase[c] \in {"awaiting reply", "none"} /\ ~ Handling(c)
  /\ sent[c] = [type |-> "SEM_V", sem |-> s]
WaitInv ==
  \A s \in Semaphores : \A i \in 1 .. Len(Queue(heap, s)) : WaiterOK(Queue(heap, s)[i], s)

SemInv == IpcInv /\ QueuesOK(heap) /\ CounterInv /\ ServerInv /\ ClientInv /\ WaitInv

LEMMA TasksAre ==
  /\ Server \in Tasks /\ Clients \subseteq Tasks /\ Server \notin Clients
  /\ Tasks = Clients \cup {Server}
BY SemaphoreAssumption

LEMMA SemInit == Init => SemInv /\ \A s \in Semaphores : Queue(heap, s) = <<>>
<1> SUFFICES ASSUME Init PROVE SemInv /\ \A s \in Semaphores : Queue(heap, s) = <<>>
  OBVIOUS
<1>1. IpcInv
  BY IpcInitially DEF Init
<1>2. /\ phase[Server] = "running" /\ server = "register"
      /\ \A c \in Clients : phase[c] = "running"
      /\ counter = [s \in Semaphores |-> Initial]
  BY TasksAre DEF Init, IpcInit
<1>3. QueuesOK(heap) /\ \A s \in Semaphores : Queue(heap, s) = <<>>
  <2>1. heap \in Heaps /\ \A s \in Semaphores : heap.first[s] = NULL /\ heap.last[s] = NULL
    BY SemaphoreAssumption DEF Init, Heaps, Heap, Values
  <2> QED BY <2>1, NothingQueued
<1>4. \A s \in Semaphores : Len(Queue(heap, s)) = 0
  BY <1>3
<1>5. CounterInv
  <2>1. Initial \in Nat
    BY SemaphoreAssumption
  <2> QED BY <1>2, <1>4, <2>1 DEF CounterInv
<1>6. ServerInv /\ ClientInv
  BY <1>2 DEF ServerInv, ClientInv, Blocked, Runs, Handling
<1>7. WaitInv
  BY <1>4 DEF WaitInv
<1> QED BY <1>1, <1>3, <1>5, <1>6, <1>7 DEF SemInv

-----------------------------------------------------------------------------
(* The steps.                                                              *)

\* What the queues say of those who wait stays true while these are left alone.
LEMMA WaitersKept ==
  ASSUME SemInv, UNCHANGED <<counter, heap>>,
         \A c \in Clients : phase[c] \in {"awaiting reply", "none"} /\ ~ Handling(c) =>
           /\ phase'[c] \in {"awaiting reply", "none"} /\ ~ Handling(c)'
           /\ sent'[c] = sent[c]
  PROVE  QueuesOK(heap)' /\ CounterInv' /\ WaitInv'
<1>1. QueuesOK(heap)' /\ CounterInv'
  BY DEF SemInv, CounterInv
<1>2. ASSUME NEW s \in Semaphores, NEW i \in 1 .. Len(Queue(heap, s))
      PROVE  WaiterOK(Queue(heap, s)[i], s)'
  <2>1. PICK c \in Clients : c = Queue(heap, s)[i]
    BY QueueTyped DEF SemInv
  <2>2. WaiterOK(c, s)
    BY <2>1 DEF SemInv, WaitInv
  <2>3. WaiterOK(c, s)'
    BY <2>1, <2>2 DEF WaiterOK
  <2>4. Queue(heap, s)'[i] = c
    BY <2>1
  <2> QED BY <2>3, <2>4 DEF WaiterOK, Handling
<1> QED BY <1>1, <1>2 DEF WaitInv

LEMMA CallKept ==
  ASSUME SemInv, NEW c \in Clients, SemV(c) \/ SemP(c)
  PROVE  /\ SemInv' /\ UNCHANGED <<counter, heap>>
         /\ \A d \in Clients : Blocked(d) => phase'[d] # "running"
<1>1. PICK m \in Requests :
        /\ server # "register" /\ Send(c, Server, m) /\ UNCHANGED <<counter, heap, server>>
  BY DEF SemV, SemP, Call, Requests
<1>2. /\ IpcInv' /\ phase[c] = "running"
      /\ sent'[c] = m /\ \A t \in Tasks \ {c} : sent'[t] = sent[t]
      /\ \/ /\ phase[Server] = "receiving" /\ c # Server
            /\ phase'[c] = "awaiting reply" /\ phase'[Server] = "running"
            /\ \A t \in Tasks \ {Server, c} : phase'[t] = phase[t]
            /\ sender'[Server] = c /\ \A t \in Tasks \ {Server} : sender'[t] = sender[t]
            /\ inbox' = inbox
         \/ /\ phase[Server] \notin {"receiving", "none"} /\ phase'[c] = "sending"
            /\ \A t \in Tasks \ {c} : phase'[t] = phase[t]
            /\ sender' = sender
            /\ inbox' = [inbox EXCEPT ![Server] = Append(inbox[Server], c)]
  <2> DEFINE r == Server
  <2>1. IpcInv /\ c \in Tasks /\ r \in Tasks /\ Send(c, r, m)
    BY <1>1, TasksAre DEF SemInv
  <2> HIDE DEF r
  <2>2. /\ IpcInv' /\ phase[c] = "running"
        /\ sent'[c] = m /\ \A t \in Tasks \ {c} : sent'[t] = sent[t]
        /\ \/ /\ phase[r] = "receiving" /\ c # r
              /\ phase'[c] = "awaiting reply" /\ phase'[r] = "running"
              /\ \A t \in Tasks \ {r, c} : phase'[t] = phase[t]
              /\ sender'[r] = c /\ \A t \in Tasks \ {r} : sender'[t] = sender[t]
              /\ inbox' = inbox
           \/ /\ phase[r] \notin {"receiving", "none"} /\ phase'[c] = "sending"
              /\ \A t \in Tasks \ {c} : phase'[t] = phase[t]
              /\ sender' = sender
              /\ inbox' = [inbox EXCEPT ![r] = Append(inbox[r], c)]
    BY <2>1, SendDoes
  <2> QED BY <2>2, Zenon DEF r
<1>3. \A t \in Clients \ {c} : phase'[t] = phase[t] /\ sent'[t] = sent[t]
  BY <1>2, TasksAre
<1>4. /\ phase'[c] \in {"sending", "awaiting reply"} /\ phase[c] = "running"
      /\ phase'[Server] \in {"running", "receiving"}
  BY <1>2, TasksAre DEF SemInv, ServerInv
<1>5. \A t : Handling(t)' => \/ Handling(t)
                             \/ t = c /\ phase'[c] = "awaiting reply"
  <2>1. Server \in Tasks \ {c}
    BY TasksAre
  <2> QED BY <1>1, <1>2, <2>1 DEF Handling, Runs
<1>7. ServerInv'
  <2>1. \A t : Handling(t)' => /\ t \in Clients /\ phase'[t] \in {"awaiting reply", "none"}
                               /\ sent'[t] \in Requests
    <3> SUFFICES ASSUME NEW t, Handling(t)'
                 PROVE  t \in Clients /\ phase'[t] \in {"awaiting reply", "none"}
                        /\ sent'[t] \in Requests
      OBVIOUS
    <3>1. CASE Handling(t)
      <4>1. t \in Clients /\ phase[t] \in {"awaiting reply", "none"} /\ sent[t] \in Requests
        BY <3>1 DEF SemInv, ServerInv
      <4>2. t # c
        BY <1>4, <4>1
      <4> QED BY <1>3, <4>1, <4>2
    <3>2. CASE t = c /\ phase'[c] = "awaiting reply"
      BY <1>2, <3>2
    <3> QED BY <1>5, <3>1, <3>2
  <2>2. server' # "handle" => Runs(Server)'
    BY <1>1, <1>2, TasksAre DEF SemInv, ServerInv, Runs
  <2> QED BY <1>1, <1>4, <2>1, <2>2 DEF SemInv, ServerInv
<1>8. ClientInv'
  BY <1>2, <1>3 DEF SemInv, ClientInv, Blocked
<1>9. QueuesOK(heap)' /\ CounterInv' /\ WaitInv'
  BY <1>1, <1>3, <1>4, <1>5, WaitersKept
<1>10. \A d \in Clients : Blocked(d) => phase'[d] # "running"
  BY <1>3, <1>4 DEF Blocked
<1> QED BY <1>1, <1>2, <1>7, <1>8, <1>9, <1>10 DEF SemInv

LEMMA DestroyedKept ==
  ASSUME SemInv, NEW c \in Clients, ClientDestroyed(c)
  PROVE  /\ SemInv' /\ UNCHANGED <<counter, heap>>
         /\ \A d \in Clients : Blocked(d) => phase'[d] # "running"
<1>1. /\ IpcInv' /\ UNCHANGED <<inbox, sent, sender, counter, heap, server>>
      /\ phase'[c] = "none" /\ \A t \in Tasks \ {c} : phase'[t] = phase[t]
  BY DestroyedDoes, TasksAre DEF ClientDestroyed, SemInv
<1>2. /\ phase'[Server] = phase[Server]
      /\ \A d \in Clients : phase'[d] = phase[d] \/ phase'[d] = "none"
  BY <1>1, TasksAre
<1>3. \A t : Handling(t)' <=> Handling(t)
  BY <1>1, <1>2 DEF Handling, Runs
<1>4. ServerInv'
  BY <1>1, <1>2, <1>3 DEF SemInv, ServerInv, Runs
<1>5. ClientInv'
  BY <1>1, <1>2 DEF SemInv, ClientInv, Blocked
<1>6. QueuesOK(heap)' /\ CounterInv' /\ WaitInv'
  BY <1>1, <1>2, <1>3, WaitersKept
<1>7. \A d \in Clients : Blocked(d) => phase'[d] # "running"
  BY <1>2 DEF Blocked
<1> QED BY <1>1, <1>4, <1>5, <1>6, <1>7 DEF SemInv

LEMMA RegisterKept ==
  ASSUME SemInv, Register
  PROVE  SemInv' /\ UNCHANGED <<counter, heap, phase>>
<1>1. /\ UNCHANGED <<ipcVars, phase, inbox, sent, sender, counter, heap>>
      /\ server = "register" /\ server' = "receive"
  BY DEF Register, ipcVars
<1>2. IpcInv'
  BY <1>1, IpcUnchanged DEF SemInv
<1>3. \A t : ~ Handling(t)'
  BY <1>1 DEF Handling
<1>4. ServerInv' /\ ClientInv'
  BY <1>1, <1>3 DEF SemInv, ServerInv, ClientInv, Runs, Blocked
<1>5. QueuesOK(heap)' /\ CounterInv' /\ WaitInv'
  BY <1>1, <1>3, WaitersKept
<1> QED BY <1>1, <1>2, <1>4, <1>5 DEF SemInv

LEMMA ReceiveKept ==
  ASSUME SemInv, ReceiveRequest
  PROVE  /\ SemInv' /\ UNCHANGED <<counter, heap>>
         /\ \A d \in Clients : Blocked(d) => phase'[d] # "running"
<1>1. /\ server = "receive" /\ Receive(Server) /\ server' = "handle"
      /\ UNCHANGED <<counter, heap>>
  BY DEF ReceiveRequest
<1>2. /\ IpcInv' /\ sent' = sent /\ phase[Server] = "running"
      /\ \/ /\ phase'[Server] = "receiving"
            /\ \A t \in Tasks \ {Server} : phase'[t] = phase[t]
         \/ \E s \in Tasks : /\ phase[s] = "sending" /\ s # Server
                             /\ phase'[s] = "awaiting reply"
                             /\ \A t \in Tasks \ {s} : phase'[t] = phase[t]
                             /\ sender'[Server] = s
  <2> DEFINE r == Server
  <2>1. IpcInv /\ r \in Tasks /\ Receive(r)
    BY <1>1, TasksAre DEF SemInv
  <2> HIDE DEF r
  <2>2. /\ IpcInv'
        /\ phase[r] = "running" /\ sent' = sent
        /\ \/ /\ phase'[r] = "receiving" /\ \A t \in Tasks \ {r} : phase'[t] = phase[t]
              /\ sender' = sender /\ inbox' = inbox /\ inbox[r] = <<>>
           \/ \E s \in Tasks :
                /\ phase[s] = "sending" /\ s # r /\ inbox[r] # <<>> /\ s = Head(inbox[r])
                /\ phase'[s] = "awaiting reply"
                /\ \A t \in Tasks \ {s} : phase'[t] = phase[t]
                /\ sender'[r] = s /\ \A t \in Tasks \ {r} : sender'[t] = sender[t]
                /\ inbox' = [inbox EXCEPT ![r] = Tail(inbox[r])]
    BY <2>1, ReceiveDoes, Zenon
  <2> QED BY <2>2, Zenon DEF r
<1>3. \A t : ~ Handling(t)
  BY <1>1 DEF Handling
<1>4. CASE phase'[Server] = "receiving" /\ \A t \in Tasks \ {Server} : phase'[t] = phase[t]
  <2>1. \A t : ~ Handling(t)'
    BY <1>4 DEF Handling, Runs
  <2>2. \A d \in Clients : phase'[d] = phase[d]
    BY <1>4, TasksAre
  <2>3. ServerInv'
    BY <1>1, <1>4, <2>1 DEF ServerInv
  <2>4. ClientInv'
    BY <1>2, <2>2 DEF SemInv, ClientInv, Blocked
  <2>5. QueuesOK(heap)' /\ CounterInv' /\ WaitInv'
    BY <1>1, <1>2, <2>1, <2>2, WaitersKept
  <2> QED BY <1>1, <1>2, <2>2, <2>3, <2>4, <2>5 DEF SemInv, Blocked
<1>5. CASE \E s \in Tasks : /\ phase[s] = "sending" /\ s # Server
                            /\ phase'[s] = "awaiting reply"
                            /\ \A t \in Tasks \ {s} : phase'[t] = phase[t]
                            /\ sender'[Server] = s
  <2>1. PICK s \in Clients :
          /\ phase[s] = "sending" /\ phase'[s] = "awaiting reply"
          /\ \A t \in Tasks \ {s} : phase'[t] = phase[t]
          /\ sender'[Server] = s
    BY <1>5, TasksAre
  <2>2. /\ phase'[Server] = "running" /\ \A d \in Clients \ {s} : phase'[d] = phase[d]
    BY <1>2, <2>1, TasksAre
  <2>3. \A t : Handling(t)' => t = s
    BY <2>1 DEF Handling
  <2>4. sent'[s] \in Requests
    BY <1>2, <2>1 DEF SemInv, ClientInv, Blocked
  <2>5. ServerInv'
    BY <1>1, <2>1, <2>2, <2>3, <2>4 DEF ServerInv, Runs
  <2>6. ClientInv'
    BY <1>2, <2>1, <2>2 DEF SemInv, ClientInv, Blocked
  <2>7. QueuesOK(heap)' /\ CounterInv' /\ WaitInv'
    BY <1>1, <1>2, <2>1, <2>2, <2>3, WaitersKept
  <2> QED BY <1>1, <1>2, <2>1, <2>2, <2>5, <2>6, <2>7 DEF SemInv, Blocked
<1> QED BY <1>2, <1>4, <1>5

\* What the server handles is a call of a client that waits, or has waited, for
\* the reply, and that is in no queue.
LEMMA Handled ==
  ASSUME SemInv, NEW type, Handles(type)
  PROVE  \E c \in Clients, s \in Semaphores :
           /\ sender[Server] = c /\ Received(Server) = [type |-> type, sem |-> s]
           /\ phase[c] \in {"awaiting reply", "none"}
           /\ sent[c] = [type |-> type, sem |-> s]
           /\ \A t \in Semaphores : \A i \in 1 .. Len(Queue(heap, t)) : Queue(heap, t)[i] # c
           /\ phase[Server] = "running" /\ server' = "receive"
<1>1. /\ server = "handle" /\ Runs(Server) /\ server' = "receive"
      /\ sent[sender[Server]].type = type
  BY DEF Handles, Received
<1>2. PICK c \in Clients :
        /\ c = sender[Server] /\ Handling(c)
        /\ phase[c] \in {"awaiting reply", "none"} /\ sent[c] \in Requests
  BY <1>1 DEF Handling, SemInv, ServerInv
<1>3. PICK s \in Semaphores : sent[c] = [type |-> type, sem |-> s]
  BY <1>1, <1>2 DEF Requests
<1>4. \A t \in Semaphores : \A i \in 1 .. Len(Queue(heap, t)) : Queue(heap, t)[i] # c
  BY <1>2 DEF SemInv, WaitInv, WaiterOK
<1> QED BY <1>1, <1>2, <1>3, <1>4 DEF Received, Runs

\* What the counter says follows its queue.
LEMMA QueueMoved ==
  ASSUME NEW s \in Semaphores, NEW w \in Seq(Clients), CounterInv,
         NEW n \in Int, counter' = [counter EXCEPT ![s] = n],
         Len(w) = IF n < 0 THEN -n ELSE 0,
         QueuesOK(heap'), Queue(heap', s) = w,
         \A t \in Semaphores \ {s} : Queue(heap', t) = Queue(heap, t)
  PROVE  CounterInv' /\ QueuesOK(heap)'
<1>1. /\ counter' \in [Semaphores -> Int] /\ counter'[s] = n
      /\ \A t \in Semaphores \ {s} : counter'[t] = counter[t]
  BY DEF CounterInv
<1>2. \A t \in Semaphores :
        Len(Queue(heap', t)) = IF counter'[t] < 0 THEN -counter'[t] ELSE 0
  BY <1>1 DEF CounterInv
<1> QED BY <1>1, <1>2 DEF CounterInv

\* SemV takes a unit, or puts the caller at the end of the queue.
LEMMA SemVDoes ==
  ASSUME SemInv, HandleSemV
  PROVE  /\ SemInv' /\ UNCHANGED phase
         /\ \E s \in Semaphores, c \in Clients :
              \/ /\ counter[s] > 0 /\ counter' = [counter EXCEPT ![s] = counter[s] - 1]
                 /\ heap' = heap
              \/ /\ counter[s] <= 0 /\ counter' = [counter EXCEPT ![s] = counter[s] - 1]
                 /\ \A t \in Semaphores : \A i \in 1 .. Len(Queue(heap, t)) : Queue(heap, t)[i] # c
                 /\ Queue(heap', s) = Append(Queue(heap, s), c)
                 /\ \A t \in Semaphores \ {s} : Queue(heap', t) = Queue(heap, t)
<1>1. PICK c \in Clients, s \in Semaphores :
        /\ sender[Server] = c /\ Received(Server) = [type |-> "SEM_V", sem |-> s]
        /\ phase[c] \in {"awaiting reply", "none"}
        /\ sent[c] = [type |-> "SEM_V", sem |-> s]
        /\ \A t \in Semaphores : \A i \in 1 .. Len(Queue(heap, t)) : Queue(heap, t)[i] # c
        /\ phase[Server] = "running" /\ server' = "receive"
  BY Handled DEF HandleSemV
<1>2. /\ counter' = [counter EXCEPT ![s] = counter[s] - 1]
      /\ heap' = IF counter[s] - 1 < 0 THEN EnqueueQueue(heap, s, c) ELSE heap
      /\ UNCHANGED <<ipcVars, phase, inbox, sent, sender>>
  <2>1. Received(Server).sem = s /\ sender[Server] = c
    <3> DEFINE m == Received(Server)
    <3>1. m = [type |-> "SEM_V", sem |-> s]
      BY <1>1, Zenon
    <3> HIDE DEF m
    <3>2. m.sem = s
      BY <3>1
    <3> QED BY <1>1, <3>2, Zenon DEF m
  <2>2. /\ counter' = [counter EXCEPT ![Received(Server).sem] =
                         counter[Received(Server).sem] - 1]
        /\ heap' = IF counter[Received(Server).sem] - 1 < 0
                   THEN EnqueueQueue(heap, Received(Server).sem, sender[Server]) ELSE heap
        /\ UNCHANGED ipcVars
    BY Zenon DEF HandleSemV, Exhausted
  <2>3. UNCHANGED <<phase, inbox, sent, sender>>
    BY <2>2 DEF ipcVars
  <2> QED BY <2>1, <2>2, <2>3
<1>3. /\ counter \in [Semaphores -> Int] /\ counter[s] \in Int
      /\ Len(Queue(heap, s)) = IF counter[s] < 0 THEN -counter[s] ELSE 0
  BY DEF SemInv, CounterInv
<1>4. /\ Queue(heap, s) \in Seq(Clients) /\ Len(Queue(heap, s)) \in Nat
  BY QueueTyped DEF SemInv
<1>5. \A t : ~ Handling(t)'
  BY <1>1 DEF Handling
<1>6. IpcInv'
  BY <1>2, IpcUnchanged DEF SemInv
<1>7. ServerInv' /\ ClientInv'
  BY <1>1, <1>2, <1>5 DEF SemInv, ServerInv, ClientInv, Runs, Blocked
<1>8. CASE counter[s] - 1 < 0
  <2> DEFINE q == Queue(heap, s)
             w == Append(q, c)
  <2>1. heap' = EnqueueQueue(heap, s, c)
    BY <1>2, <1>8
  <2>2. /\ QueuesOK(heap') /\ Queue(heap', s) = w
        /\ \A t \in Semaphores \ {s} : Queue(heap', t) = Queue(heap, t)
    <3>1. /\ QueuesOK(heap) /\ s \in Semaphores /\ c \in Clients
          /\ \A t \in Semaphores : \A i \in 1 .. Len(Queue(heap, t)) : Queue(heap, t)[i] # c
      BY <1>1 DEF SemInv
    <3> QED BY <2>1, <3>1, EnqueueDoes, Zenon
  <2>3. /\ w \in Seq(Clients) /\ Len(w) = Len(q) + 1
        /\ \A i \in 1 .. Len(q) : w[i] = q[i]
        /\ w[Len(q) + 1] = c
    BY <1>4, AppendProperties
  <2>4. counter[s] <= 0 /\ Len(w) = -(counter[s] - 1) /\ counter[s] - 1 \in Int
    BY <1>3, <1>8, <2>3
  <2> HIDE DEF w
  <2>5. CounterInv' /\ QueuesOK(heap)'
    BY <1>2, <1>8, <2>2, <2>3, <2>4, QueueMoved DEF SemInv
  <2>6. ASSUME NEW t \in Semaphores, NEW i \in 1 .. Len(Queue(heap', t))
        PROVE  WaiterOK(Queue(heap, t)[i], t)'
    <3>1. CASE t # s
      <4>1. Queue(heap', t) = Queue(heap, t)
        BY <2>2, <3>1
      <4>2. WaiterOK(Queue(heap, t)[i], t)
        BY <4>1 DEF SemInv, WaitInv
      <4> QED BY <1>2, <1>5, <4>1, <4>2 DEF WaiterOK
    <3>2. CASE t = s /\ i \in 1 .. Len(q)
      <4>1. Queue(heap', t)[i] = Queue(heap, t)[i]
        BY <2>2, <2>3, <3>2
      <4>2. WaiterOK(Queue(heap, t)[i], t)
        BY <3>2 DEF SemInv, WaitInv
      <4> QED BY <1>2, <1>5, <4>1, <4>2 DEF WaiterOK
    <3>3. CASE t = s /\ i = Len(q) + 1
      <4>1. Queue(heap', t)[i] = c
        BY <2>2, <2>3, <3>3
      <4> QED BY <1>1, <1>2, <1>5, <3>3, <4>1 DEF WaiterOK
    <3> QED BY <1>4, <2>2, <2>3, <3>1, <3>2, <3>3
  <2>7. WaitInv'
    BY <2>6 DEF WaitInv
  <2> QED BY <1>1, <1>2, <1>6, <1>7, <2>2, <2>4, <2>5, <2>7 DEF SemInv, w
<1>9. CASE ~ (counter[s] - 1 < 0)
  <2>1. /\ heap' = heap /\ counter[s] > 0 /\ counter[s] - 1 \in Int
        /\ Len(Queue(heap, s)) = 0
    BY <1>2, <1>3, <1>9
  <2>2. CounterInv' /\ QueuesOK(heap)'
    BY <1>2, <1>4, <1>9, <2>1, QueueMoved DEF SemInv
  <2>3. ASSUME NEW t \in Semaphores, NEW i \in 1 .. Len(Queue(heap', t))
        PROVE  WaiterOK(Queue(heap, t)[i], t)'
    <3>1. WaiterOK(Queue(heap, t)[i], t)
      BY <2>1 DEF SemInv, WaitInv
    <3> QED BY <1>2, <1>5, <2>1, <3>1 DEF WaiterOK
  <2>4. WaitInv'
    BY <2>3 DEF WaitInv
  <2> QED BY <1>2, <1>6, <1>7, <2>1, <2>2, <2>4 DEF SemInv
<1> QED BY <1>8, <1>9

\* SemP lets the first client of the queue go on, or gives the unit back.
LEMMA SemPDoes ==
  ASSUME SemInv, HandleSemP
  PROVE  /\ SemInv'
         /\ \E s \in Semaphores :
              /\ Received(Server) = [type |-> "SEM_P", sem |-> s]
              /\ counter' = [counter EXCEPT ![s] = counter[s] + 1]
              /\ \A t \in Semaphores \ {s} : Queue(heap', t) = Queue(heap, t)
              /\ \/ /\ counter[s] >= 0 /\ heap' = heap /\ UNCHANGED phase
                 \/ /\ counter[s] < 0 /\ Queue(heap', s) = Tail(Queue(heap, s))
                    /\ \A c \in Clients : Blocked(c) /\ phase'[c] = "running" =>
                         /\ sent[c] = [type |-> "SEM_V", sem |-> s] /\ heap.first[s] = c
                         /\ \A i \in 1 .. Len(Queue(heap', s)) : Queue(heap', s)[i] # c
                    /\ \A i \in 1 .. Len(Queue(heap, s)) :
                         \/ phase[Queue(heap, s)[i]] = "none"
                         \/ phase'[Queue(heap, s)[i]] = "running"
                         \/ \E j \in 1 .. Len(Queue(heap', s)) : Queue(heap', s)[j] = Queue(heap, s)[i]
<1>1. PICK d \in Clients, s \in Semaphores :
        /\ sender[Server] = d /\ Received(Server) = [type |-> "SEM_P", sem |-> s]
        /\ phase[d] \in {"awaiting reply", "none"}
        /\ sent[d] = [type |-> "SEM_P", sem |-> s]
        /\ \A t \in Semaphores : \A i \in 1 .. Len(Queue(heap, t)) : Queue(heap, t)[i] # d
        /\ phase[Server] = "running" /\ server' = "receive"
  BY Handled DEF HandleSemP
<1>2. /\ counter' = [counter EXCEPT ![s] = counter[s] + 1]
      /\ IF counter[s] + 1 <= 0
         THEN Reply(heap.first[s]) /\ heap' = DequeueQueue(heap, s)
         ELSE UNCHANGED <<ipcVars, heap>>
  <2>1. Received(Server).sem = s
    <3> DEFINE m == Received(Server)
    <3>1. m = [type |-> "SEM_P", sem |-> s]
      BY <1>1, Zenon
    <3> HIDE DEF m
    <3>2. m.sem = s
      BY <3>1
    <3> QED BY <1>1, <3>2, Zenon DEF m
  <2>2. LET r == Received(Server).sem
        IN  /\ counter' = [counter EXCEPT ![r] = counter[r] + 1]
            /\ IF counter[r] + 1 <= 0
               THEN Reply(heap.first[r]) /\ heap' = DequeueQueue(heap, r)
               ELSE UNCHANGED <<ipcVars, heap>>
    BY Zenon DEF HandleSemP, SomebodyWaits
  <2> QED BY <2>1, <2>2
<1>3. /\ counter \in [Semaphores -> Int] /\ counter[s] \in Int /\ counter[s] + 1 \in Int
      /\ Len(Queue(heap, s)) = IF counter[s] < 0 THEN -counter[s] ELSE 0
  BY DEF SemInv, CounterInv
<1>4. /\ Queue(heap, s) \in Seq(Clients) /\ Len(Queue(heap, s)) \in Nat
      /\ \A i \in 1 .. Len(Queue(heap, s)) : Queue(heap, s)[i] \in Clients
  BY QueueTyped DEF SemInv
<1>5. \A t : ~ Handling(t)'
  BY <1>1 DEF Handling
<1>6. CASE counter[s] + 1 <= 0
  <2> DEFINE q == Queue(heap, s)
             w == Tail(q)
             c == q[1]
  <2>1. counter[s] < 0 /\ Len(q) = -counter[s] /\ Len(q) > 0 /\ q # <<>>
    BY <1>3, <1>6
  <2>2. heap' = DequeueQueue(heap, s)
    BY <1>2, <1>6
  <2>3. /\ QueuesOK(heap') /\ Queue(heap', s) = w
        /\ w \in Seq(Clients) /\ Len(w) = Len(q) - 1
        /\ \A i \in 1 .. Len(q) - 1 : w[i] = q[i + 1]
        /\ \A t \in Semaphores \ {s} : Queue(heap', t) = Queue(heap, t)
        /\ heap.first[s] = c
    BY <2>1, <2>2, DequeueDoes DEF SemInv
  <2>4. c \in Clients /\ 1 \in 1 .. Len(q)
    BY <1>4, <2>1
  <2>5. WaiterOK(c, s)
    BY <2>4 DEF SemInv, WaitInv
  <2>6. Reply(c)
    BY <1>2, <1>6, <2>3
  <2> HIDE DEF w
  <2>7. Len(w) = IF counter[s] + 1 < 0 THEN -(counter[s] + 1) ELSE 0
    BY <1>3, <1>6, <2>1, <2>3
  <2>8. CounterInv' /\ QueuesOK(heap)'
    BY <1>2, <1>3, <2>3, <2>7, QueueMoved DEF SemInv
  <2> HIDE DEF c
  <2>9. /\ IpcInv' /\ UNCHANGED <<inbox, sender>>
        /\ \A t \in Tasks \ {c} : phase'[t] = phase[t] /\ sent'[t] = sent[t]
        /\ phase[c] = "awaiting reply" => phase'[c] = "running" /\ sent'[c] = NoMessage
        /\ phase[c] # "awaiting reply" => phase' = phase /\ sent' = sent
    BY <2>4, <2>6, TasksAre, ReplyDoes DEF SemInv
  <2>10. /\ phase'[Server] = phase[Server] /\ phase'[c] \in {"running", "none"}
         /\ \A t \in Clients \ {c} : phase'[t] = phase[t] /\ sent'[t] = sent[t]
    BY <2>4, <2>5, <2>9, TasksAre DEF WaiterOK
  <2>11. ServerInv' /\ ClientInv'
    BY <1>1, <1>5, <2>10 DEF SemInv, ServerInv, ClientInv, Runs, Blocked
  \* It was in this queue once, and in no other.
  <2>12. \A i \in 1 .. Len(w) : i + 1 \in 1 .. Len(q) /\ w[i] = q[i + 1] /\ w[i] # c
    <3>1. \A i, j \in 1 .. Len(q) : q[i] = q[j] => i = j
      <4>1. Represents(heap, s, q) /\ DOMAIN q = 1 .. Len(q)
        BY QueueTyped DEF SemInv
      <4> QED BY <4>1 DEF Represents, Seqs!Distinct
    <3> SUFFICES ASSUME NEW i \in 1 .. Len(w)
                 PROVE  i + 1 \in 1 .. Len(q) /\ w[i] = q[i + 1] /\ w[i] # c
      OBVIOUS
    <3>2. i \in 1 .. Len(q) - 1 /\ i + 1 \in 1 .. Len(q) /\ i + 1 # 1
      BY <1>4, <2>3
    <3>3. w[i] = q[i + 1]
      BY <2>3, <3>2
    <3>4. q[i + 1] # q[1]
      BY <2>4, <3>1, <3>2
    <3> QED BY <3>2, <3>3, <3>4 DEF c
  <2>13. ASSUME NEW t \in Semaphores, NEW i \in 1 .. Len(Queue(heap', t))
         PROVE  WaiterOK(Queue(heap, t)[i], t)'
    <3>1. PICK j \in 1 .. Len(Queue(heap, t)) :
            Queue(heap', t)[i] = Queue(heap, t)[j] /\ Queue(heap, t)[j] # c
      <4>1. CASE t = s
        BY <2>3, <2>12, <4>1
      <4>2. CASE t # s
        <5>1. Queue(heap', t) = Queue(heap, t)
          BY <2>3, <4>2
        <5>2. Queue(heap, t)[i] # q[1]
          BY <2>4, <4>2, <5>1 DEF SemInv, QueuesOK
        <5> QED BY <5>1, <5>2 DEF c
      <4> QED BY <4>1, <4>2
    <3>2. PICK e \in Clients : e = Queue(heap, t)[j] /\ WaiterOK(e, t)
      BY QueueTyped DEF SemInv, WaitInv
    <3>3. WaiterOK(e, t)'
      BY <1>5, <2>10, <3>1, <3>2 DEF WaiterOK
    <3> QED BY <3>1, <3>2, <3>3 DEF WaiterOK, Handling
  <2>14. WaitInv'
    BY <2>13 DEF WaitInv
  <2>15. \A e \in Clients : Blocked(e) /\ phase'[e] = "running" =>
           /\ sent[e] = [type |-> "SEM_V", sem |-> s] /\ heap.first[s] = e
           /\ \A i \in 1 .. Len(Queue(heap', s)) : Queue(heap', s)[i] # e
    <3> SUFFICES ASSUME NEW e \in Clients, Blocked(e), phase'[e] = "running"
                 PROVE  /\ sent[e] = [type |-> "SEM_V", sem |-> s] /\ heap.first[s] = e
                        /\ \A i \in 1 .. Len(Queue(heap', s)) : Queue(heap', s)[i] # e
      OBVIOUS
    <3>1. e = c
      BY <2>10 DEF Blocked
    <3> QED BY <2>3, <2>5, <2>12, <3>1 DEF WaiterOK, c
  <2>16. Queue(heap', s) = Tail(Queue(heap, s))
    BY <2>3 DEF w
  <2>17. SemInv'
    BY <2>8, <2>9, <2>11, <2>14 DEF SemInv
  <2>18. ASSUME NEW i \in 1 .. Len(q)
         PROVE  \/ phase[q[i]] = "none" \/ phase'[q[i]] = "running"
                \/ \E j \in 1 .. Len(w) : w[j] = q[i]
    <3>1. CASE i = 1
      BY <2>5, <2>9, <3>1 DEF WaiterOK, c
    <3>2. CASE i # 1
      <4>1. i - 1 \in 1 .. Len(w) /\ i - 1 \in 1 .. Len(q) - 1 /\ (i - 1) + 1 = i
        BY <1>4, <2>1, <2>3, <3>2
      <4>2. w[i - 1] = q[i]
        BY <2>3, <4>1
      <4> QED BY <4>1, <4>2
    <3> QED BY <3>1, <3>2
  <2>19. \A i \in 1 .. Len(Queue(heap, s)) :
            \/ phase[Queue(heap, s)[i]] = "none" \/ phase'[Queue(heap, s)[i]] = "running"
            \/ \E j \in 1 .. Len(Queue(heap', s)) : Queue(heap', s)[j] = Queue(heap, s)[i]
    BY <2>3, <2>18
  <2>20. /\ Received(Server) = [type |-> "SEM_P", sem |-> s]
         /\ counter' = [counter EXCEPT ![s] = counter[s] + 1]
         /\ \A t \in Semaphores \ {s} : Queue(heap', t) = Queue(heap, t)
         /\ counter[s] < 0
    BY <1>1, <1>2, <2>1, <2>3
  <2> HIDE DEF q
  <2> QED BY <2>15, <2>16, <2>17, <2>19, <2>20, Zenon
<1>7. CASE ~ (counter[s] + 1 <= 0)
  <2>1. /\ UNCHANGED <<ipcVars, phase, inbox, sent, sender, heap>>
        /\ counter[s] >= 0 /\ Len(Queue(heap, s)) = 0
    BY <1>2, <1>3, <1>7 DEF ipcVars
  <2>2. IpcInv'
    BY <2>1, IpcUnchanged DEF SemInv
  <2>3. ServerInv' /\ ClientInv'
    BY <1>1, <1>5, <2>1 DEF SemInv, ServerInv, ClientInv, Runs, Blocked
  <2>4. Len(Queue(heap, s)) = IF counter[s] + 1 < 0 THEN -(counter[s] + 1) ELSE 0
    BY <1>3, <2>1
  <2>5. CounterInv' /\ QueuesOK(heap)'
    BY <1>2, <1>3, <1>4, <2>1, <2>4, QueueMoved DEF SemInv
  <2>6. ASSUME NEW t \in Semaphores, NEW i \in 1 .. Len(Queue(heap', t))
        PROVE  WaiterOK(Queue(heap, t)[i], t)'
    <3>1. WaiterOK(Queue(heap, t)[i], t)
      BY <2>1 DEF SemInv, WaitInv
    <3> QED BY <1>5, <2>1, <3>1 DEF WaiterOK
  <2>7. WaitInv'
    BY <2>6 DEF WaitInv
  <2> QED BY <1>1, <1>2, <2>1, <2>2, <2>3, <2>5, <2>7 DEF SemInv
<1> QED BY <1>6, <1>7

LEMMA StutterKept ==
  ASSUME SemInv, UNCHANGED vars
  PROVE  SemInv' /\ UNCHANGED <<counter, heap, phase>>
<1>1. UNCHANGED <<ipcVars, phase, inbox, sent, sender, counter, heap, server>>
  BY DEF vars, ipcVars
<1>2. IpcInv'
  BY <1>1, IpcUnchanged DEF SemInv
<1>3. \A t : Handling(t)' <=> Handling(t)
  BY <1>1 DEF Handling, Runs
<1>4. ServerInv' /\ ClientInv'
  BY <1>1, <1>3 DEF SemInv, ServerInv, ClientInv, Runs, Blocked
<1>5. QueuesOK(heap)' /\ CounterInv' /\ WaitInv'
  BY <1>1, <1>3, WaitersKept
<1> QED BY <1>1, <1>2, <1>4, <1>5 DEF SemInv

\* The steps of clients, of Register and of ReceiveRequest touch no semaphore
\* and let no client go on.
LEMMA OtherSteps ==
  ASSUME SemInv, [Next]_vars, ~ HandleSemV, ~ HandleSemP
  PROVE  /\ SemInv' /\ UNCHANGED <<counter, heap>>
         /\ \A c \in Clients : Blocked(c) => phase'[c] # "running"
<1>1. CASE Register \/ UNCHANGED vars
  BY <1>1, RegisterKept, StutterKept DEF Blocked
<1>2. CASE ReceiveRequest
  BY <1>2, ReceiveKept
<1>3. CASE \E c \in Clients : SemV(c) \/ SemP(c)
  BY <1>3, CallKept
<1>4. CASE \E c \in Clients : ClientDestroyed(c)
  BY <1>4, DestroyedKept
<1> QED BY <1>1, <1>2, <1>3, <1>4 DEF Next, ServerStep

LEMMA SemAlways == Spec => []SemInv
<1>1. Init => SemInv
  BY SemInit
<1>2. SemInv /\ [Next]_vars => SemInv'
  BY SemVDoes, SemPDoes, OtherSteps
<1> QED BY <1>1, <1>2, PTL DEF Spec

\* The counter, the queue and the callers of usr/semaphore.c agree, however
\* many semaphores and clients there are and whatever the queues grow to: a
\* negative counter is the length of the queue, who is in it is there once, in
\* no other, and has called SemV on it, and the pointers of lib/queue.c do on it
\* what the operations on sequences do.
THEOREM CounterCountsWaiters == Spec => []QueuesConsistent
<1>1. SemInv => QueuesConsistent
  <2> SUFFICES ASSUME SemInv PROVE QueuesConsistent
    OBVIOUS
  <2>1. \A s \in Semaphores : Waiting(s) = Queue(heap, s)
    BY DEF Waiting, Queue
  <2>2. Nodes = Clients /\ heap \in Heap(Semaphores, Values)
    BY SemaphoreAssumption DEF SemInv, QueuesOK, Heaps
  <2>3. \A s \in Semaphores : OperationsAgree(heap, s, Waiting(s))
    <3> SUFFICES ASSUME NEW s \in Semaphores PROVE OperationsAgree(heap, s, Queue(heap, s))
      BY <2>1
    <3>1. Queue(heap, s) \in Seq(Nodes) /\ Represents(heap, s, Queue(heap, s))
      BY <2>2, QueueTyped DEF SemInv
    <3> QED BY <2>2, <3>1, QueueOperations
  <2>4. \A s \in Semaphores : /\ heap.first[s] \in Clients \cup {NULL}
                              /\ heap.last[s] \in Clients \cup {NULL}
    <3> SUFFICES ASSUME NEW s \in Semaphores
                 PROVE  /\ heap.first[s] \in Clients \cup {NULL}
                        /\ heap.last[s] \in Clients \cup {NULL}
      OBVIOUS
    <3> DEFINE q == Queue(heap, s)
    <3>1. /\ heap.first[s] = At(q, 1) /\ heap.last[s] = At(q, Len(q))
          /\ \A i \in 1 .. Len(q) : q[i] \in Clients
      BY QueueTyped DEF SemInv, Represents
    <3> HIDE DEF q
    <3> QED BY <3>1 DEF At
  <2>5. TypeOK
    BY <2>2, <2>4 DEF TypeOK, SemInv, CounterInv, ServerInv, Heap, Values
  <2>6. ASSUME NEW c \in Clients, NEW s \in Semaphores, Waits(c, s)
        PROVE  /\ phase[c] \in {"awaiting reply", "none"}
               /\ sent[c] = [type |-> "SEM_V", sem |-> s]
               /\ \A t \in Semaphores \ {s} : ~ Waits(c, t)
    <3>1. \A t \in Semaphores :
            Waits(c, t) <=> \E j \in 1 .. Len(Queue(heap, t)) : Queue(heap, t)[j] = c
      BY <2>1, QueueTyped DEF Waits, SemInv
    <3>2. PICK i \in 1 .. Len(Queue(heap, s)) : Queue(heap, s)[i] = c
      BY <2>6, <3>1
    <3>3. WaiterOK(c, s)
      BY <3>2 DEF SemInv, WaitInv
    <3>4. \A t \in Semaphores \ {s} : ~ Waits(c, t)
      BY <3>1, <3>2 DEF SemInv, QueuesOK
    <3> QED BY <3>3, <3>4 DEF WaiterOK
  <2>7. \A s \in Semaphores : Len(Waiting(s)) = IF counter[s] < 0 THEN -counter[s] ELSE 0
    BY <2>1 DEF SemInv, CounterInv
  <2> QED BY <2>3, <2>5, <2>6, <2>7 DEF QueuesConsistent
<1> QED BY <1>1, SemAlways, PTL

\* SemV and SemP of usr/semaphore.c are a counting semaphore, first come, first
\* served, for any number of tasks, semaphores and units.
THEOREM ServerIsSemaphore == Spec => ImplementsSemaphore
<1> DEFINE free == [s \in Semaphores |-> IF counter[s] > 0 THEN counter[s] ELSE 0]
           queued == [s \in Semaphores |-> Waiting(s)]
<1>1. \A s \in Semaphores : Waiting(s) = Queue(heap, s)
  BY DEF Waiting, Queue
<1>2. Init => Abstract!Init
  <2> SUFFICES ASSUME Init PROVE Abstract!Init
    OBVIOUS
  <2>1. /\ counter = [s \in Semaphores |-> Initial] /\ Initial \in Nat
        /\ \A s \in Semaphores : Queue(heap, s) = <<>>
    BY SemInit, SemaphoreAssumption DEF Init
  <2>2. free = [s \in Semaphores |-> Initial] /\ queued = [s \in Semaphores |-> <<>>]
    BY <1>1, <2>1
  <2> QED BY <2>2 DEF Abstract!Init
<1>3. SemInv /\ [Next]_vars => [Abstract!Next]_(<<free, queued>>)
  <2> SUFFICES ASSUME SemInv, [Next]_vars
               PROVE  Abstract!Next \/ UNCHANGED <<free, queued>>
    OBVIOUS
  <2>1. /\ counter \in [Semaphores -> Int]
        /\ \A s \in Semaphores : Len(Queue(heap, s)) = IF counter[s] < 0 THEN -counter[s] ELSE 0
    BY DEF SemInv, CounterInv
  <2>2. CASE ~ HandleSemV /\ ~ HandleSemP
    BY <2>2, OtherSteps DEF Waiting
  <2>3. CASE HandleSemV
    <3>1. PICK s \in Semaphores, c \in Clients :
            \/ /\ counter[s] > 0 /\ counter' = [counter EXCEPT ![s] = counter[s] - 1]
               /\ heap' = heap
            \/ /\ counter[s] <= 0 /\ counter' = [counter EXCEPT ![s] = counter[s] - 1]
               /\ \A t \in Semaphores : \A i \in 1 .. Len(Queue(heap, t)) : Queue(heap, t)[i] # c
               /\ Queue(heap', s) = Append(Queue(heap, s), c)
               /\ \A t \in Semaphores \ {s} : Queue(heap', t) = Queue(heap, t)
      BY <2>3, SemVDoes
    <3>2. CASE /\ counter[s] > 0 /\ counter' = [counter EXCEPT ![s] = counter[s] - 1]
               /\ heap' = heap
      <4>1. queued' = queued
        BY <3>2 DEF Waiting
      <4>2. free[s] > 0 /\ free' = [free EXCEPT ![s] = free[s] - 1]
        <5>1. /\ counter'[s] = counter[s] - 1 /\ counter[s] \in Int
              /\ \A t \in Semaphores \ {s} : counter'[t] = counter[t]
          BY <2>1, <3>2
        <5>2. \A t \in Semaphores :
                (IF counter'[t] > 0 THEN counter'[t] ELSE 0)
                = IF t = s THEN free[s] - 1 ELSE free[t]
          BY <3>2, <5>1
        <5> QED BY <3>2, <5>1, <5>2
      <4>3. Abstract!TakeUnit(s)
        BY <4>1, <4>2 DEF Abstract!TakeUnit
      <4> QED BY <4>3 DEF Abstract!Next
    <3>3. CASE /\ counter[s] <= 0 /\ counter' = [counter EXCEPT ![s] = counter[s] - 1]
               /\ \A t \in Semaphores : \A i \in 1 .. Len(Queue(heap, t)) : Queue(heap, t)[i] # c
               /\ Queue(heap', s) = Append(Queue(heap, s), c)
               /\ \A t \in Semaphores \ {s} : Queue(heap', t) = Queue(heap, t)
      <4>1. queued' = [queued EXCEPT ![s] = Append(queued[s], c)]
        BY <1>1, <3>3 DEF Waiting, Queue
      <4>2. free[s] = 0 /\ free' = free
        BY <2>1, <3>3
      <4>3. \A t \in Semaphores : \A i \in DOMAIN queued[t] : queued[t][i] # c
        BY <1>1, <3>3, QueueTyped DEF SemInv
      <4>4. Abstract!StartWaiting(s, c)
        BY <4>1, <4>2, <4>3 DEF Abstract!StartWaiting
      <4> QED BY <4>4 DEF Abstract!Next
    <3> QED BY <3>1, <3>2, <3>3
  <2>4. CASE HandleSemP
    <3>1. PICK s \in Semaphores :
            /\ counter' = [counter EXCEPT ![s] = counter[s] + 1]
            /\ \A t \in Semaphores \ {s} : Queue(heap', t) = Queue(heap, t)
            /\ \/ counter[s] >= 0 /\ heap' = heap
               \/ counter[s] < 0 /\ Queue(heap', s) = Tail(Queue(heap, s))
      BY <2>4, SemPDoes
    <3>2. CASE counter[s] >= 0 /\ heap' = heap
      <4>1. queued' = queued
        BY <3>2 DEF Waiting
      <4>2. free' = [free EXCEPT ![s] = free[s] + 1]
        <5>1. /\ counter'[s] = counter[s] + 1 /\ counter[s] \in Int
              /\ \A t \in Semaphores \ {s} : counter'[t] = counter[t]
          BY <2>1, <3>1
        <5>2. \A t \in Semaphores :
                (IF counter'[t] > 0 THEN counter'[t] ELSE 0)
                = IF t = s THEN free[s] + 1 ELSE free[t]
          BY <3>2, <5>1
        <5> QED BY <3>2, <5>1, <5>2
      <4>3. queued[s] = <<>>
        <5>1. Queue(heap, s) \in Seq(Clients) /\ Len(Queue(heap, s)) = 0
          BY <2>1, <3>2, QueueTyped DEF SemInv
        <5> QED BY <1>1, <5>1, EmptySeq
      <4>4. Abstract!ReturnUnit(s)
        BY <4>1, <4>2, <4>3 DEF Abstract!ReturnUnit
      <4> QED BY <4>4 DEF Abstract!Next
    <3>3. CASE counter[s] < 0 /\ Queue(heap', s) = Tail(Queue(heap, s))
      <4>1. queued' = [queued EXCEPT ![s] = Tail(queued[s])]
        BY <1>1, <3>1, <3>3 DEF Waiting, Queue
      <4>2. free' = free
        BY <2>1, <3>1, <3>3
      <4>3. queued[s] # <<>>
        <5>1. Len(Queue(heap, s)) # 0
          BY <2>1, <3>3
        <5> QED BY <1>1, <5>1
      <4>4. Abstract!HandOver(s)
        BY <4>1, <4>2, <4>3 DEF Abstract!HandOver
      <4> QED BY <4>4 DEF Abstract!Next
    <3> QED BY <3>1, <3>2, <3>3
  <2> QED BY <2>2, <2>3, <2>4
<1> QED BY <1>2, <1>3, SemAlways, PTL DEF Spec, ImplementsSemaphore, Abstract!Spec

\* Of SemVReturns what a step may do: SemaphoreServer lets a caller of SemV go
\* on only with a unit, and takes nobody who waits out of a queue without that.
THEOREM NoReturnWithoutUnit == Spec => ReturnsWithUnit
<1> DEFINE A(c, s) ==
      /\ Blocked(c) /\ phase'[c] = "running" /\ sent[c] = [type |-> "SEM_V", sem |-> s] =>
           \/ counter[s] > 0 /\ counter'[s] = counter[s] - 1 /\ sender[Server] = c
           \/ /\ heap.first[s] = c /\ ~ Waits(c, s)'
              /\ Received(Server) = [type |-> "SEM_P", sem |-> s]
      /\ Waits(c, s) /\ ~ Waits(c, s)' => phase[c] = "none" \/ phase'[c] = "running"
<1>1. SemInv /\ [Next]_vars => \A c \in Clients, s \in Semaphores : A(c, s)
  <2> SUFFICES ASSUME SemInv, [Next]_vars, NEW c \in Clients, NEW s \in Semaphores
               PROVE  A(c, s)
    OBVIOUS
  <2>1. SemInv'
    BY SemVDoes, SemPDoes, OtherSteps
  <2>2. /\ DOMAIN Queue(heap, s) = 1 .. Len(Queue(heap, s))
        /\ DOMAIN Queue(heap', s) = 1 .. Len(Queue(heap', s))
    BY <2>1, QueueTyped DEF SemInv
  <2>3. /\ Waits(c, s) <=> \E i \in 1 .. Len(Queue(heap, s)) : Queue(heap, s)[i] = c
        /\ Waits(c, s)' <=> \E i \in 1 .. Len(Queue(heap', s)) : Queue(heap', s)[i] = c
    BY <2>2 DEF Waits, Waiting, Queue
  <2>4. CASE ~ HandleSemV /\ ~ HandleSemP
    <3>1. heap' = heap /\ (Blocked(c) => phase'[c] # "running")
      BY <2>4, OtherSteps
    <3> QED BY <2>3, <3>1
  <2>5. CASE HandleSemV
    <3>1. phase' = phase
      BY <2>5, SemVDoes
    <3>2. Blocked(c) => phase'[c] # "running"
      BY <3>1 DEF Blocked
    <3>3. ASSUME Waits(c, s) PROVE Waits(c, s)'
      <4>1. PICK i \in 1 .. Len(Queue(heap, s)) : Queue(heap, s)[i] = c
        BY <2>3, <3>3
      <4>2. CASE Queue(heap', s) = Queue(heap, s)
        BY <2>3, <3>3, <4>2
      <4>3. CASE \E e \in Clients : Queue(heap', s) = Append(Queue(heap, s), e)
        <5>1. PICK e \in Clients : Queue(heap', s) = Append(Queue(heap, s), e)
          BY <4>3
        <5>2. Queue(heap, s) \in Seq(Clients)
          BY QueueTyped DEF SemInv
        <5>3. i \in 1 .. Len(Queue(heap', s)) /\ Queue(heap', s)[i] = c
          BY <4>1, <5>1, <5>2
        <5> QED BY <2>3, <5>3
      <4>4. \/ Queue(heap', s) = Queue(heap, s)
            \/ \E e \in Clients : Queue(heap', s) = Append(Queue(heap, s), e)
        BY <2>5, SemVDoes
      <4> QED BY <4>2, <4>3, <4>4
    <3> QED BY <3>2, <3>3
  <2>6. CASE HandleSemP
    <3>1. PICK r \in Semaphores :
            /\ Received(Server) = [type |-> "SEM_P", sem |-> r]
            /\ \A t \in Semaphores \ {r} : Queue(heap', t) = Queue(heap, t)
            /\ \/ heap' = heap /\ UNCHANGED phase
               \/ /\ \A e \in Clients : Blocked(e) /\ phase'[e] = "running" =>
                       /\ sent[e] = [type |-> "SEM_V", sem |-> r] /\ heap.first[r] = e
                       /\ \A i \in 1 .. Len(Queue(heap', r)) : Queue(heap', r)[i] # e
                  /\ \A i \in 1 .. Len(Queue(heap, r)) :
                       \/ phase[Queue(heap, r)[i]] = "none"
                       \/ phase'[Queue(heap, r)[i]] = "running"
                       \/ \E j \in 1 .. Len(Queue(heap', r)) : Queue(heap', r)[j] = Queue(heap, r)[i]
      BY <2>6, SemPDoes
    <3>2. Waits(c, s) /\ ~ Waits(c, s)' => phase[c] = "none" \/ phase'[c] = "running"
      BY <2>3, <3>1
    <3>3. ASSUME Blocked(c), phase'[c] = "running", sent[c] = [type |-> "SEM_V", sem |-> s]
          PROVE  /\ heap.first[s] = c /\ ~ Waits(c, s)'
                 /\ Received(Server) = [type |-> "SEM_P", sem |-> s]
      <4>1. /\ sent[c] = [type |-> "SEM_V", sem |-> r] /\ heap.first[r] = c
            /\ \A i \in 1 .. Len(Queue(heap', r)) : Queue(heap', r)[i] # c
        BY <3>1, <3>3 DEF Blocked
      <4>2. r = s
        BY <3>3, <4>1
      <4> QED BY <2>3, <3>1, <4>1, <4>2
    <3> QED BY <3>2, <3>3
  <2> QED BY <2>4, <2>5, <2>6
<1> QED BY <1>1, SemAlways, PTL DEF Spec, ReturnsWithUnit
=============================================================================
