SPECIFICATION FFairSpec
CONSTANTS
  RingSize = 8
  Nodes = {1, 4, 6}
  Tasks = {1, 4, 6, 11}
  Host <- MCHost
  Full = {11}
  ListSize = 2
  MaxStarts = 2
  Scenarios <- MCScenarios
  Nil = Nil
PROPERTIES  PredecessorMonotone
CHECK_DEADLOCK FALSE
