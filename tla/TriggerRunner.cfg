CONSTANTS
  p1 = p1  p2 = p2  s1 = s1
  None = None
  Pids = {p1, p2}
  StableKeys = {s1}
  CronKeys = {1}
  Window = 1
  MaxLease = 2
  RecentCron = 0
  MaxStore = 2
  KeepStable = 1
  MaxNow = 3
  MaxRecords = 4
  MaxTrouble = 1
SPECIFICATION Spec
INVARIANTS
  NothingLost NoOverlap
PROPERTY EffectNotRepeated
SYMMETRY Symmetry
CHECK_DEADLOCK FALSE
