CONSTANTS
  c1 = c1
  c2 = c2
  Clients <- TwoClients
  Tasks <- ClockTasks
  DelayArgs = {0, 1, 2}
  INT_MAX = 4
  MaxElapsed = 3
SPECIFICATION FairSpec
INVARIANT ClockConsistent
PROPERTIES
  NotBeforeDeadline
  DueReturns
