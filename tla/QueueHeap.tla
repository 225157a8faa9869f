------------------------------ MODULE QueueHeap ------------------------------
(***************************************************************************)
(* lib/queue.c with its pointers.  A heap h holds the `first' and `last'   *)
(* of each queue and the `next' and `prev' of each node.  The sequences of *)
(* Queues are what these stand for, as long as a node is enqueued only     *)
(* when it is in no queue and removed only from the queue it is in.        *)
(***************************************************************************)
EXTENDS Integers, Sequences

CONSTANTS Nodes, NULL

ASSUME NullAssumption == NULL \notin Nodes

Seqs == INSTANCE Queues

\* if ( node ) node->field = value, given the values of that field.
Set(field, node, value) ==
  IF node = NULL THEN field ELSE [field EXCEPT ![node] = value]

Mut_LastNotLinked(h, q, n) ==
  [first |-> IF h.first[q] = NULL THEN [h.first EXCEPT ![q] = n] ELSE h.first,
   last |-> [h.last EXCEPT ![q] = n],
   next |-> [h.next EXCEPT ![n] = NULL],
   prev |-> [h.prev EXCEPT ![n] = h.last[q]]]
EnqueueQueue(h, q, n) ==
  [first |-> IF h.first[q] = NULL THEN [h.first EXCEPT ![q] = n] ELSE h.first,
   last |-> [h.last EXCEPT ![q] = n],
   next |-> [Set(h.next, h.last[q], n) EXCEPT ![n] = NULL],
   prev |-> [h.prev EXCEPT ![n] = h.last[q]]]

\* What is left of an empty queue is the same.
DequeueQueue(h, q) ==
  LET dequeued == h.first[q]
  IN  IF dequeued = NULL THEN h
      ELSE [first |-> [h.first EXCEPT ![q] = h.next[dequeued]],
            last |-> IF h.last[q] = dequeued THEN [h.last EXCEPT ![q] = NULL] ELSE h.last,
            next |-> [h.next EXCEPT ![dequeued] = NULL],
            prev |-> [Set(h.prev, h.next[dequeued], NULL) EXCEPT ![dequeued] = NULL]]

RemoveQueueNode(h, q, n) ==
  [first |-> IF h.first[q] = n THEN [h.first EXCEPT ![q] = h.next[n]] ELSE h.first,
   last |-> IF h.last[q] = n THEN [h.last EXCEPT ![q] = h.prev[n]] ELSE h.last,
   next |-> [Set(h.next, h.prev[n], h.next[n]) EXCEPT ![n] = NULL],
   prev |-> [Set(h.prev, h.next[n], h.prev[n]) EXCEPT ![n] = NULL]]

-----------------------------------------------------------------------------
\* The queue q of h is the sequence s: each link points to the neighbour.
At(s, i) == IF i \in 1 .. Len(s) THEN s[i] ELSE NULL
Represents(h, q, s) ==
  /\ Seqs!Distinct(s)
  /\ h.first[q] = At(s, 1)
  /\ h.last[q] = At(s, Len(s))
  /\ \A i \in 1 .. Len(s) : /\ h.next[s[i]] = At(s, i + 1)
                            /\ h.prev[s[i]] = At(s, i - 1)

\* The nodes of q from first to last, no more than n of them.
Walk(h, q, n) ==
  LET at[i \in 1 .. n] == IF i = 1 THEN h.first[q]
                           ELSE IF at[i - 1] = NULL THEN NULL ELSE h.next[at[i - 1]]
      length == CHOOSE k \in 0 .. n : /\ \A i \in 1 .. k : at[i] # NULL
                                      /\ k < n => at[k + 1] = NULL
  IN  SubSeq(at, 1, length)

\* Each operation does to q what its namesake in Queues does to the sequence.
OperationsAgree(h, q, s) ==
  /\ Represents(h, q, s)
  /\ \A n \in Nodes \ {s[i] : i \in 1 .. Len(s)} :
       Represents(EnqueueQueue(h, q, n), q, Seqs!EnqueueQueue(s, n))
  /\ Represents(DequeueQueue(h, q), q, Seqs!DequeueQueue(s))
  /\ \A i \in 1 .. Len(s) :
       Represents(RemoveQueueNode(h, q, s[i]), q, Seqs!RemoveQueueNode(s, s[i]))
=============================================================================
