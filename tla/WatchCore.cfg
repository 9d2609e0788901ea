SPECIFICATION FairSpec
CONSTANTS
  Paths = {a, b}
  MaxWrites = 3
  MaxRival = 1
  MaxFaults = 1
  Faults = {"build", "phase", "release", "read", "stat", "update", "skip", "manifest"}
INVARIANTS
  TypeOK
  IndexCurrentAtRest
  CurrentRootKept
  OtherRootsKept
PROPERTIES
  ChangesIndexed
  ShutdownEnds
