SPECIFICATION FairSpec
CONSTANTS
  a = a  b = b  p = p  q = q  g1 = g1  g2 = g2
  Kinds = {"public", "private"}
  Ids = {a, b}
  Addrs = {p, q}
  Work <- MCWork
  Goroutines = {g1, g2}
  MaxClients = 3
  MaxFaults <- MCFaults
  None = None
INVARIANTS
  AtMostOnce
PROPERTIES
  RightPeer
  Recovers
  CallEnds
