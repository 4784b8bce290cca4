CONSTANTS
  NoOne = NoOne
  Managers = {m1, m2}
  Holders = {h1, h2}
  TTL = 2
  Skew = 1
  MaxFence = 2
  MaxFailures = 1
  StaleRelease = FALSE
SPECIFICATION Spec
INVARIANT OneLiveHolder
PROPERTIES FenceNeverRegresses DeadGenerationStaysDead FollowerKeptUntilItsTakeover
SYMMETRY Perms
