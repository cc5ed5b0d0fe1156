SPECIFICATION FairSpec
CONSTANTS
  RingSize = 8
  Nodes = {1, 3, 5, 7}
  Pos = 0
  K = 2
  ListSize = 2
  Scenarios <- MCScenarios
  Nil = Nil
INVARIANT NeverLost
PROPERTIES SettledKeeps  
