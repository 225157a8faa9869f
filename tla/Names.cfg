CONSTANTS
  c1 = c1
  c2 = c2
  Clients <- TwoClients
  Tasks <- NameServerTasks
  HT_SIZE = 4
  HT_NEIGHBOURHOOD_SIZE = 2
  Names = {1, 2, 3, 4, 5}
SPECIFICATION FairSpec
INVARIANT TypeOK
PROPERTIES
  ImplementsRegistry
  WhoIsAnswers
  RegisterAsAnswers
  CallsReturn
