CONSTANTS
  a1 = a1  a2 = a2  k1 = k1  k2 = k2
  None = None
  Appenders = {a1, a2}
  Keys = {k1, k2}
  StartLines = 2
  MaxLines = 3
  MaxCopies = 4
  MaxTrouble = 2
  MinLines = 2
  ParkAttempts = 1
  StreamRounds = 2
  AppendInRestore = FALSE
  SplitCleanup = TRUE
SPECIFICATION Spec
INVARIANT NoLineLost
SYMMETRY Symmetry
CHECK_DEADLOCK FALSE
