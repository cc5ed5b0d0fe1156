SPECIFICATION Spec
CONSTANTS
  p1 = p1  p2 = p2
  Peers = {p1, p2}
  MaxRetries = 2
  MaxVersion = 3
  MaxExpiries = 1
  Loops = {p1}
  Env = {"error"}
  Nil = Nil
INVARIANTS
  NoLostJoin
  
PROPERTY
  UpdatesAtomic
CHECK_DEADLOCK FALSE
CONSTRAINT FewVersions
