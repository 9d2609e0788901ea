SPECIFICATION Spec
CONSTANTS
  Seqs <- MCSeqs
  Shards <- MCOneShard
  ResultBytes <- MCBytes
  MaxPending = 1
  MaxPendingBytes = 2
  CommitLagHard = 1
  ResumeNum = 7
  ResumeDen = 10
  BypassWindow = 0
  Outcomes = {"SUCCESS", "SKIP"}
  MaxSubsetRetries = 0
  Faults = {"lease"}
INVARIANT
  NoJournalConflict
