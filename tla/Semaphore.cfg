CONSTANTS
  c1 = c1
  c2 = c2
  c3 = c3
  c4 = c4
  NULL = NULL
  Clients <- FourClients
  Nodes <- FourClients
  Tasks <- SemaphoreTasks
  Semaphores = {1, 2}
  Initial = 1
  MaxDestroyed = 1
SPECIFICATION FairSpec
INVARIANT QueuesConsistent
PROPERTIES
  ImplementsSemaphore
  SemVReturns
\* Nearly every call leaves its caller without a reply.
CHECK_DEADLOCK FALSE
