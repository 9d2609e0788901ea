SPECIFICATION Spec
CONSTANTS
  Seqs <- MCSeqs
  Shards <- MCShards
  ResultBytes <- MCBytes
  MaxPending = 1
  MaxPendingBytes = 2
  CommitLagHard = 1
  ResumeNum = 7
  ResumeDen = 10
  BypassWindow = 1
  Outcomes = {"SUCCESS", "SKIP"}
  MaxSubsetRetries = 1
  Faults = {"abort", "apply", "lease", "timeout", "retry"}
INVARIANTS
  TypeOK
  LedgerExact
  CommitOrder
  AppliedMatchesJournal
  FirstOutcomeWins
  BytesExact
  DrainNotLost
  WaitersRightlyHeld
  AbortSettlesEverything
  PromisesHeld
  ReplayRestoresCursor
  BatchStaysTerminal
  AttemptsWithinBudget
PROPERTIES
  OutcomesFinal
  ImplementsPromise
