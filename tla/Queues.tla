------------------------------- MODULE Queues -------------------------------
(***************************************************************************)
(* The intrusive doubly linked queue of lib/queue.c, as the sequence of    *)
(* its nodes from first to last.  Every list of the kernel is one of       *)
(* these: the scheduler's lists, the free descriptors, a task's children   *)
(* and a task's pending messages.  A node is linked in at most one queue   *)
(* of each kind, since the links are fields of the node itself; on such    *)
(* queues the three operators below are what the pointer code does.        *)
(***************************************************************************)
EXTENDS Integers, SequencesExt

\* The queue holds the node.
Linked(q, n) == \E i \in DOMAIN q : q[i] = n

\* Append at `last'.
EnqueueQueue(q, n) == Append(q, n)

\* What is left once `first' has been taken; the code returns NULL and leaves
\* the queue alone when it is empty, which callers test with q = <<>>.
DequeueQueue(q) == IF q = <<>> THEN q ELSE Tail(q)

\* Unlink a node wherever it is.  A node that is in no queue has NULL links
\* and is neither first nor last: nothing happens.
RemoveQueueNode(q, n) ==
  IF Linked(q, n) THEN RemoveAt(q, CHOOSE i \in DOMAIN q : q[i] = n) ELSE q

\* No node occurs twice.
Distinct(q) == \A i, j \in DOMAIN q : q[i] = q[j] => i = j
=============================================================================
