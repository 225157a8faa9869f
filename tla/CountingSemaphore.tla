-------------------------- MODULE CountingSemaphore --------------------------
(***************************************************************************)
(* Counting semaphores with first-come first-served waiters: a unit that   *)
(* is released goes to the first who waits, or is kept.                    *)
(***************************************************************************)
EXTENDS Integers, Sequences

CONSTANTS Tasks, Semaphores, Initial

VARIABLES available, waiting

Init ==
  /\ available = [s \in Semaphores |-> Initial]
  /\ waiting = [s \in Semaphores |-> <<>>]

TakeUnit(s) ==
  /\ available[s] > 0
  /\ available' = [available EXCEPT ![s] = @ - 1]
  /\ UNCHANGED waiting

\* Who waits for one semaphore waits for no other.
StartWaiting(s, t) ==
  /\ available[s] = 0
  /\ \A u \in Semaphores : \A i \in DOMAIN waiting[u] : waiting[u][i] # t
  /\ waiting' = [waiting EXCEPT ![s] = Append(@, t)]
  /\ UNCHANGED available

ReturnUnit(s) ==
  /\ waiting[s] = <<>>
  /\ available' = [available EXCEPT ![s] = @ + 1]
  /\ UNCHANGED waiting

HandOver(s) ==
  /\ waiting[s] # <<>>
  /\ waiting' = [waiting EXCEPT ![s] = Tail(@)]
  /\ UNCHANGED available

Next == \E s \in Semaphores :
  TakeUnit(s) \/ ReturnUnit(s) \/ HandOver(s) \/ \E t \in Tasks : StartWaiting(s, t)

Spec == Init /\ [][Next]_<<available, waiting>>
=============================================================================
