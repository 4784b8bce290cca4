CONSTANTS
  c1 = c1  c2 = c2  c3 = c3  p1 = p1  p2 = p2  p3 = p3  A = A  B = B
  NoCall = NoCall  NoProc = NoProc
  Calls = {c1, c2, c3}
  Procs = {p1, p2, p3}
  Deployments <- SmallDeployments
  MaxFaults = 1
  MaxCrashes = 1
SPECIFICATION FairSpec
INVARIANTS
  AtMostOnce RunningIsTracked InterruptedHasCause
PROPERTIES TerminalIsFinal EveryCallAnswered
CHECK_DEADLOCK FALSE
