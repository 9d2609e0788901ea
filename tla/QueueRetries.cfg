SPECIFICATION Spec
CONSTANTS
  j1 = j1
  j2 = j2
  w1 = w1
  w2 = w2
  w3 = w3
  Jobs = {j2}
  Workers = {w1}
  MaxRetries <- MCRetries
  Monitored = {j2}
  MaxQueued = 1
  QueueMaxRetries = 2
  MaxFaults = 0
  Faults = {}
PROPERTY
  ConfiguredRetriesHonoured
