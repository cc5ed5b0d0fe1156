SPECIFICATION FairSpec
CONSTANTS
  x = x  leaf = leaf  n1 = n1  n2 = n2  c1 = c1  c2 = c2  k1 = k1  w1 = w1
  Blocks = {x, leaf}
  Links <- MCLinks
  Dag <- MCDag
  Cids = {x, leaf}
  Names = {n1, n2}
  MaxRoots = 2
  Clients = {c1, c2}
  Ops <- MCOps
  None = None
  Keys = {k1}
  Roots = {r1}
  Rings = {ring}
  Workers = {w1, w2}
  Size <- MCSize
  Weight <- MCWeight
  MaxBytes = 1
  Quotas = {1}
  NetOps <- MCNetOps
  NetEnv = {"gc", "expire", "crash"}
  Menus <- MCMenus
INVARIANTS
  Findable
  TwinsOverlap
  
PROPERTIES
  OrphansCollected
