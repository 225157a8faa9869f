------------------------------ MODULE MCKernel ------------------------------
(***************************************************************************)
(* Instances of Kernel for TLC: the priorities that tasks pass to Create.  *)
(***************************************************************************)
EXTENDS KernelProperties

\* Refused, best, next, refused.
AllPriorities == -1 .. NULL_PRIORITY

\* The two valid ones; and one priority for everybody but Init.
ValidPriorities == HIGHEST_PRIORITY .. LOW_PRIORITY
OnePriority == {HIGHEST_PRIORITY}
=============================================================================
