CONSTANTS
  MAX_TASKS = 4
  LONG_MAX = 7
  NULL_PRIORITY = 2
  PriorityArgs <- AllPriorities
  Interrupts = {4}
  TimerInterrupt = 4
  Calls = {"Create", "Exit", "Destroy", "SetMyPriority", "GetTasksStats"}
  SharedEvents = FALSE
  CleanDestroy = FALSE
SPECIFICATION Spec
INVARIANTS
  TypeOK
  SchedulerConsistent
  FreeListConsistent
  FamilyTree
  BestPriorityRuns
PROPERTY DeathIsFinal
