CONSTANTS
  r1 = r1  r2 = r2  p1 = p1  p2 = p2  p3 = p3
  None = None
  Procs = {p1, p2, p3}
  Setups <- AllSetups
  MaxTime = 3
  Window = 2
  Deadline = 1
  MaxScan = 3
SPECIFICATION Spec
INVARIANTS
  AdmittedIsAuthorized RevokedNeverUsed ConsentIsSound
PROPERTIES ImplementsEffectSlot SettledStays
SYMMETRY Symmetry
CHECK_DEADLOCK FALSE
