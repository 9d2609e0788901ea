SPECIFICATION FairSpec
CONSTANTS
  p1 = p1
  p2 = p2
  p3 = p3
  ForceStale = FALSE
  MaxLocks = 4
  MaxCrashes = 1
  Processes = {p1, p2}
  Faults = {"crash", "stall", "rm", "read"}
INVARIANTS
  TypeOK
  ExclusiveUnlessRobbed
  NoSilentLeak
PROPERTY
  AbandonedReclaimed
