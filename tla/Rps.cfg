CONSTANTS
  p1 = p1
  p2 = p2
  p3 = p3
  Players <- ThreePlayers
  Tasks <- RpsTasks
  Goal = 3
SPECIFICATION FairSpec
INVARIANTS
  GamesConsistent
  ResultsMatchThrows
PROPERTY CallsReturn
\* In the end the players have quit, or wait for an opponent or a throw.
CHECK_DEADLOCK FALSE
