CONSTANTS
  p1 = p1
  p2 = p2
  g1 = g1
  Putters <- TwoPutters
  Getters <- OneGetter
  Tasks <- SerialTasks
  SIZE = 2
  MaxPut = 4
  MaxArrived = 0
SPECIFICATION FairSpec
PROPERTY PutcReturns
\* Once TransmitSecretary is left without a reply (SerialStall) and everything
\* has been sent and received, nobody has anything to do.
CHECK_DEADLOCK FALSE
