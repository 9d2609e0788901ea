SPECIFICATION Spec
CONSTANTS
  j1 = j1
  j2 = j2
  w1 = w1
  w2 = w2
  w3 = w3
  Jobs = {j1}
  Workers = {w1, w2, w3}
  MaxRetries <- MCTwo
  Monitored = {j1}
  MaxQueued = 1
  QueueMaxRetries = 1
  MaxFaults = 1
  Faults = {"crash", "stall", "read"}
SYMMETRY MCSymmetry
INVARIANT
  StalledRunsBounded
