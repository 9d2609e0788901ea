SPECIFICATION FairSpec
CONSTANTS
  Fields = {f, g}
  MaxCalls = 4
  MaxFaults = 0
  Faults = {}
PROPERTY
  EveryCallerAnswered
