CONSTANTS
  MAX_TASKS = 4
  LONG_MAX = 7
  NULL_PRIORITY = 2
  PriorityArgs <- OnePriority
  Interrupts = {4}
  TimerInterrupt = 4
  Calls = {"Create", "Exit", "Destroy", "Send", "Receive", "Reply"}
  SharedEvents = FALSE
  CleanDestroy = TRUE
SPECIFICATION Spec
INVARIANTS
  WaitingReceiverHasNoMail
  SenderNodes
  NeverDamaged
  ReceivedByAddressee
PROPERTIES
  SendCompletes
  SenderRunsBeforeReplier
  ImplementsRendezvous
