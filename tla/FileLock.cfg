CONSTANTS
  c1 = c1  c2 = c2  c3 = c3  p1 = p1  p2 = p2  p3 = p3
  NoPid = NoPid  NoOne = NoOne
  Clients = {c1, c2, c3}
  Pids = {p1, p2}
  PidOf <- SharedProcess
  Stamps = {0}
  MaxStops = 2
  MaxFaults = 1
  ExitDuringProbe = FALSE
SPECIFICATION FairSpec
INVARIANTS
  HolderOwnsRecord DisplacedRecordKept OrphanGuardHasCause
PROPERTIES GuardNeverTakenOver ImplementsMutex StaleLockRecovered
