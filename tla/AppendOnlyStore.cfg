CONSTANTS
  a1 = a1  a2 = a2  k1 = k1  k2 = k2
  None = None
  Appenders = {a1, a2}
  Keys = {k1, k2}
  StartLines = 1
  MaxLines = 3
  MaxCopies = 3
  MaxTrouble = 2
  MinLines = 1
  ParkAttempts = 1
  StreamRounds = 2
  AppendInRestore = FALSE
  SplitCleanup = FALSE
SPECIFICATION Spec
INVARIANTS
  NoLineLost OrderKept NothingDoubled CopiesHaveCause ReaderIsCurrent
SYMMETRY Symmetry
CHECK_DEADLOCK FALSE
