SPECIFICATION FairSpec
CONSTANTS
  RingSize = 8
  Nodes = {1, 2, 4, 6}
  FingerCount = 3
  ListSize = 2
  Procs = {"client", "fixer", "other"}
  Host <- MCHost
  Fixers = {"fixer", "other"}
  Ids = {1, 3, 4, 7}
  MaxHops = 4
  MaxCrashes = 1
INVARIANTS
  LookupCorrect
  LookupNeverSkips
PROPERTY
  LookupEnds
CHECK_DEADLOCK FALSE
