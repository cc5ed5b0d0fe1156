SPECIFICATION Spec
CONSTANTS
  k1 = k1  k2 = k2  r1 = r1  r2 = r2  w1 = w1  w2 = w2
  Keys = {k1, k2}
  Roots = {x1, x2}
  Rings = {r1, r2}
  Workers = {w1, w2}
  Size <- MCSize
  Weight <- MCWeight
  MaxBytes = 3
  Quotas = {0, 2}
  Ops <- OpsOneRemover
  Env = {}
  None = None
INVARIANTS
  BytesExact
  RingExact
  RingWithinQuota
SYMMETRY Symmetry
