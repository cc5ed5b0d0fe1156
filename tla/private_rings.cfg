SPECIFICATION RingsSpec
CONSTANTS
  Groups = {g1, g2}
  Handlers = {h1, h2}
  Main = main
  Quotas = {0, 1}
  MaxRings = 2
  None = None
  Torn = Torn
CONSTRAINT Followed
SYMMETRY Symmetry
INVARIANTS
  TableExact
  FileExact
