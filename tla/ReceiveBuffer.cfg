CONSTANTS
  MAX_TASKS = 4
  LONG_MAX = 4
  NULL_PRIORITY = 2
  PriorityArgs <- OnePriority
  Interrupts = {4, 12}
  TimerInterrupt = 4
  Calls = {"Create", "Send", "Receive"}
  SharedEvents = FALSE
  CleanDestroy = TRUE
SPECIFICATION Spec
INVARIANT ReceivedIntoOwnBuffer
CHECK_DEADLOCK FALSE
