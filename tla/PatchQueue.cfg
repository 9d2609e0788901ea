SPECIFICATION FairSpec
CONSTANTS
  Fields = {f, g}
  MaxCalls = 3
  MaxFaults = 2
  Faults = {"lock", "write", "swallow", "vanish"}
INVARIANTS
  TypeOK
  FlushedIsWritten
  LastPatchStored
PROPERTIES
  StoredAdvances
  CallersAnswered
