CONSTANTS
  NoOne = NoOne
  Managers = {m1, m2}
  Holders = {h1, h2}
  TTL = 1
  Skew = 0
  MaxFence = 3
  MaxFailures = 0
  StaleRelease = TRUE
SPECIFICATION Spec
PROPERTIES FenceNeverRegresses
SYMMETRY Perms
