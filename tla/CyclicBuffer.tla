----------------------------- MODULE CyclicBuffer -----------------------------
(***************************************************************************)
(* lib/cyclicbuffer.c: an array, the index of the first element and the    *)
(* number of elements.  Contents is the queue it stands for.               *)
(***************************************************************************)
EXTENDS Integers, Sequences

CONSTANT SIZE

ASSUME CyclicBufferAssumption == SIZE \in Nat /\ SIZE >= 1

Indices == 0 .. SIZE - 1
EmptyBuffer(filler) == [data |-> [i \in Indices |-> filler], start |-> 0, num_els |-> 0]

Mut_FullTooLate(b) == b.num_els > SIZE
IsCyclicBufferFull(b) == b.num_els = SIZE
IsCyclicBufferEmpty(b) == b.num_els = 0

\* -1 and nothing done when it is full.
CyclicBufferPush(b, x) ==
  IF IsCyclicBufferFull(b) THEN b
  ELSE [b EXCEPT !.data[(b.start + b.num_els) % SIZE] = x, !.num_els = @ + 1]

\* What CyclicBufferPop stores, and the buffer it leaves, unless empty.
First(b) == b.data[b.start]
CyclicBufferPop(b) == [b EXCEPT !.start = (@ + 1) % SIZE, !.num_els = @ - 1]

Contents(b) == [i \in 1 .. b.num_els |-> b.data[(b.start + i - 1) % SIZE]]
=============================================================================
