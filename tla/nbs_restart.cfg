SPECIFICATION Spec
CONSTANTS
  k1 = k1  k2 = k2  r1 = r1  r2 = r2  w1 = w1  w2 = w2
  Keys = {k1}
  Roots = {x1}
  Rings = {r1}
  Workers = {w1}
  Size <- MCSize
  Weight <- MCWeight
  MaxBytes = 1
  Quotas = {1}
  Ops <- OpsRestart
  Env = {"gc", "gcerr", "expire", "forget", "restart", "crash"}
  None = None
CONSTRAINT
  Drift
INVARIANTS
  
  GcSparesMarked
