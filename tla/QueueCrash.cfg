SPECIFICATION FairSpec
CONSTANTS
  j1 = j1
  j2 = j2
  w1 = w1
  w2 = w2
  w3 = w3
  Jobs = {j1, j2}
  Workers = {w1, w2}
  MaxRetries <- MCRetries
  Monitored = {j1, j2}
  MaxQueued = 1
  QueueMaxRetries = 1
  MaxFaults = 2
  Faults = {"crash", "read"}
INVARIANTS
  TypeOK
  SingleRunner
  AttemptsCountRuns
  RunsWithinBudget
  NewJobsWithinCapacity
PROPERTIES
  SettledStays
  MonitoredSettle
