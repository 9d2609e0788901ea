SPECIFICATION FairSpec
CONSTANTS
  Paths = {a, b}
  MaxWrites = 3
  MaxRival = 0
  MaxFaults = 1
  Faults = {"build"}
PROPERTY
  EveryChangeIndexed
