SPECIFICATION Spec
CONSTANTS
  p1 = p1  p2 = p2
  Peers = {p1, p2}
  MaxRetries = 2
  MaxVersion = 3
  MaxExpiries = 0
  Loops = {p1}
  Env = {}
  Nil = Nil
INVARIANT
  LeftStaysOut
CHECK_DEADLOCK FALSE
