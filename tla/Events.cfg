CONSTANTS
  MAX_TASKS = 4
  LONG_MAX = 4
  NULL_PRIORITY = 2
  PriorityArgs <- ValidPriorities
  Interrupts = {4, 12}
  TimerInterrupt = 4
  Calls = {"Create", "Exit", "Pass", "AwaitEvent", "SetMyPriority", "GetTasksStats", "MyTid", "MyParentTid", "GetMyPriority", "GetPriority", "SetPriority"}
  SharedEvents = FALSE
  CleanDestroy = FALSE
SPECIFICATION FairSpec
INVARIANTS
  AwaitedEventEnabled
  StatsAgree
  ParentAnswer
PROPERTIES
  EventWakesItsWaiter
  NoStarvation
