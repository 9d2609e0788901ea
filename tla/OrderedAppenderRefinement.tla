---------------------- MODULE OrderedAppenderRefinement ----------------------
(* The ordered appender implements OrderedCommit.                          *)
EXTENDS OrderedAppender

(* The commit a journal records for a seq. *)
CommitOf(records, s) ==
  CHOOSE item \in {records[i] : i \in 1..Len(records)} : item.seq = s

(* A committed seq keeps the outcome it was committed with; a terminal seq *)
(* that is not committed yet has the outcome its ledger state names.       *)
OutcomeOf(s) ==
  IF ledger.state[s] = "COMMITTED"
  THEN CommitOf(commitRecords, s).outcome
  ELSE IF ledger.state[s] \in Terminals THEN ledger.state[s] ELSE "OPEN"

Promise == INSTANCE OrderedCommit WITH
  Outcomes <- Terminals,
  outcome  <- [s \in Seqs |-> OutcomeOf(s)],
  log      <- commitRecords,
  written  <- applied,
  halted   <- aborted

(* Every behaviour of the appender, whatever fails, is one the promise     *)
(* allows; under fairness it also ends.                                    *)
ImplementsPromise == Promise!ASpec
PromiseEnds       == Promise!Ends
=============================================================================
