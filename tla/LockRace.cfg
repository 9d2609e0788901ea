SPECIFICATION Spec
CONSTANTS
  p1 = p1
  p2 = p2
  p3 = p3
  ForceStale = FALSE
  MaxLocks = 3
  MaxCrashes = 1
  Processes = {p1, p2, p3}
  Faults = {"crash"}
SYMMETRY MCSymmetry
INVARIANT
  LockExclusive
