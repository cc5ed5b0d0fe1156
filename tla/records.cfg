SPECIFICATION RSpec
CONSTANTS
  Nodes = {n1, n2}
  Callers = {c1, c2}
  TTL = 1
  MaxVersion = 3
  MaxPuts = 3
  MaxTime = 2
  MaxNet = 2
  Env = {"restart", "transfer", "lose", "error", "takeover", "delete", "tick"}
  Providers = {p1, p2}
  ProviderTTL = 1
  ProviderNet = 1
  ProviderEnv = {"lose", "transfer", "takeover", "delete", "tick"}
  Nil = Nil
INVARIANTS
  SameVersionSameRecord
  ReplicasAgree
  PublishSucceeds
  OwnerAnswers
SYMMETRY Symmetry
CONSTRAINT FewVersions
PROPERTIES
  VersionNeverBack
  PurgeInvisible
CHECK_DEADLOCK FALSE
