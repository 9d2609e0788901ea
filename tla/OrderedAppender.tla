--------------------------- MODULE OrderedAppender ---------------------------
(***************************************************************************)
(* The Stage1 ordered appender: buildOrderedAppender in                    *)
(* src/index/build/indexer/steps/process-files/ordered.js, together with   *)
(* the callers in process-files.js that drive it.                          *)
(*                                                                         *)
(* Files are processed concurrently and finish in any order; their results *)
(* must reach the index in discovery order.  A worker reports the outcome  *)
(* of its seq (setTerminalEnvelope); drain() walks the ledger from the     *)
(* commit cursor, collects the contiguous run of terminal seqs, writes the *)
(* successful results downstream (handleFileResult, awaited) and commits.  *)
(*                                                                         *)
(* JavaScript runs one turn to completion.  drain() gives up control only  *)
(* while it awaits handleFileResult and between its end and its `finally`  *)
(* handler; its other steps are separate actions here, but while one of    *)
(* them is pending (drain \in {"scan", "collect", "commit"}) nobody else   *)
(* moves: every other action requires Yielded.                             *)
(***************************************************************************)
EXTENDS SeqLedger, Sequences, Sums

CONSTANTS
  ResultBytes,       \* estimateEnvelopeBytes of each seq's result
  MaxPending,        \* maxPendingBeforeBackpressure
  MaxPendingBytes,   \* maxPendingBytes
  CommitLagHard,     \* commitLagHard
  ResumeNum,         \* resumeHysteresisRatio as a fraction,
  ResumeDen,         \*   ResumeNum / ResumeDen
  BypassWindow,      \* dispatchBypassWindow of the caller
  Outcomes,          \* terminal states the workers report
  Shards,            \* the subsets of Seqs that are retried as a whole
  MaxSubsetRetries,  \* maxSubsetRetries
  Faults             \* what goes wrong: a subset of FaultKinds

FaultKinds == {"abort", "apply", "lease", "retry", "timeout"}

ASSUME AppenderAssumption ==
  /\ ResultBytes \in [Seqs -> Nat]
  /\ {MaxPending, MaxPendingBytes, CommitLagHard, ResumeNum, ResumeDen} \subseteq Nat \ {0}
  /\ ResumeNum < ResumeDen
  /\ {BypassWindow, MaxSubsetRetries} \subseteq Nat
  /\ Outcomes \subseteq Terminals
  /\ Shards \subseteq SUBSET Seqs
  /\ \A S, T \in Shards : S = T \/ S \cap T = {}
  /\ Faults \subseteq FaultKinds

VARIABLES
  ledger,            \* seqLedger
  envelopes,         \* envelopeBySeq
  bufferedBytes,
  maxSeenSeq,
  aborted,
  drain,             \* where drain() stands; "idle" is flushing = null
  flushRequested,
  cursor,            \* the collecting loop's cursor
  batch,             \* what drain() has collected and not yet committed
  terminalRecords,   \* commitJournal, records of type terminal, per seq
  commitRecords,     \* commitJournal, records of type commit, in order
  applied,           \* the seqs whose result handleFileResult has written
  worker,            \* per seq, how far its caller has come; "waiting" is
                     \*   a member of capacityWaiters
  done,              \* the promise the last report of a seq returned
  subsetAttempt      \* runShardSubsetsWithRetry's attempt of each shard

drainVars   == <<drain, flushRequested, cursor, batch>>
journalVars == <<terminalRecords, commitRecords>>
callerVars  == <<worker, done, subsetAttempt>>
vars == <<ledger, envelopes, bufferedBytes, maxSeenSeq, aborted, drainVars,
          journalVars, applied, callerVars>>

Envelopes  == [terminal : Terminals \cup {"NONE"}, bytes : Nat]
NoEnvelope == [terminal |-> "NONE", bytes |-> 0]
Items      == [seq : Seqs, outcome : Terminals]

TypeOK ==
  /\ ledger \in Ledgers
  /\ envelopes \in [Seqs -> Envelopes]
  /\ bufferedBytes \in Nat
  /\ maxSeenSeq \in Int
  /\ aborted \in BOOLEAN
  /\ drain \in {"idle", "scan", "collect", "commit", "apply", "finally"}
  /\ flushRequested \in BOOLEAN
  /\ cursor \in Nat
  /\ batch \in Seq(Items)
  /\ terminalRecords \in [Seqs -> Seq(Terminals)]
  /\ commitRecords \in Seq(Items)
  /\ applied \in Seq(Seqs)
  /\ worker \in [Seqs -> {"idle", "waiting", "ready", "running", "settled", "failed"}]
  /\ done \in [Seqs -> {"none", "pending", "resolved", "rejected"}]
  /\ subsetAttempt \in [Shards -> Nat]

Init ==
  /\ ledger = NewLedger
  /\ envelopes = [s \in Seqs |-> NoEnvelope]
  /\ bufferedBytes = 0
  /\ maxSeenSeq = StartSeq - 1
  /\ aborted = FALSE
  /\ drain = "idle"
  /\ flushRequested = FALSE
  /\ cursor = StartSeq
  /\ batch = <<>>
  /\ terminalRecords = [s \in Seqs |-> <<>>]
  /\ commitRecords = <<>>
  /\ applied = <<>>
  /\ worker = [s \in Seqs |-> "idle"]
  /\ done = [s \in Seqs |-> "none"]
  /\ subsetAttempt = [S \in Shards |-> 1]

Yielded == drain \in {"idle", "apply", "finally"}

-----------------------------------------------------------------------------
(* Backpressure: snapshot, waitForCapacity, resolveCapacityWaiters. *)

Pending(env)     == {s \in Seqs : env[s] # NoEnvelope}
Lag(seen, l)     == IF seen > l.nextCommitSeq THEN seen - l.nextCommitSeq ELSE 0
Bypasses(s, l)   == s <= l.nextCommitSeq + BypassWindow
Release(limit)   == IF (limit * ResumeNum) \div ResumeDen >= 1
                    THEN (limit * ResumeNum) \div ResumeDen ELSE 1

Congested ==
  \/ Cardinality(Pending(envelopes)) > MaxPending
  \/ bufferedBytes > MaxPendingBytes
  \/ Lag(maxSeenSeq, ledger) > CommitLagHard

Resumable(env, bytes, seen, l) ==
  /\ Cardinality(Pending(env)) <= Release(MaxPending)
  /\ bytes <= Release(MaxPendingBytes)
  /\ Lag(seen, l) <= Release(CommitLagHard)

\* Mutant: the bypass window is consulted on arrival only.
ResolveWaitersByLimits(w, env, bytes, seen, l) ==
  [s \in Seqs |-> IF w[s] = "waiting" /\ Resumable(env, bytes, seen, l) THEN "ready" ELSE w[s]]

(* resolveCapacityWaiters, looking at the given appender state. *)
ResolveWaiters(w, env, bytes, seen, l) ==
  [s \in Seqs |-> IF /\ w[s] = "waiting"
                     /\ Resumable(env, bytes, seen, l) \/ Bypasses(s, l)
                  THEN "ready" ELSE w[s]]

(* onBeforeDispatch: the caller asks for capacity before it dispatches s. *)
WaitForCapacity(s) ==
  /\ Yielded
  /\ worker[s] = "idle"
  /\ worker' = [worker EXCEPT ![s] = IF aborted THEN "failed"
                                     ELSE IF Bypasses(s, ledger) \/ ~Congested THEN "ready"
                                     ELSE "waiting"]
  /\ UNCHANGED <<ledger, envelopes, bufferedBytes, maxSeenSeq, aborted, drainVars,
                 journalVars, applied, done, subsetAttempt>>

(* The waiter's timer or abort signal fires first: it leaves the queue and *)
(* its shard fails.                                                        *)
CapacityTimeout(s) ==
  /\ Yielded
  /\ "timeout" \in Faults
  /\ worker[s] = "waiting"
  /\ worker' = [worker EXCEPT ![s] = "failed"]
  /\ UNCHANGED <<ledger, envelopes, bufferedBytes, maxSeenSeq, aborted, drainVars,
                 journalVars, applied, done, subsetAttempt>>

-----------------------------------------------------------------------------
(* Ledger notes of a worker. *)

(* An open seq is dispatched and put in flight; any other is left alone. *)
Started(l, s) ==
  LET dispatched == IF l.state[s] = "UNSEEN" THEN Transition(l, s, "DISPATCHED") ELSE l
  IN IF dispatched.state[s] = "DISPATCHED"
     THEN Transition(dispatched, s, "IN_FLIGHT") ELSE dispatched

NoteInFlight(s) ==
  /\ Yielded
  /\ worker[s] = "ready"
  /\ worker' = [worker EXCEPT ![s] = "running"]
  /\ ledger' = Started(ledger, s)
  /\ UNCHANGED <<envelopes, bufferedBytes, maxSeenSeq, aborted, drainVars,
                 journalVars, applied, done, subsetAttempt>>

Heartbeat(s) ==
  /\ Yielded
  /\ "lease" \in Faults
  /\ worker[s] = "running"
  /\ ledger' = Renew(ledger, s)
  /\ UNCHANGED <<envelopes, bufferedBytes, maxSeenSeq, aborted, drainVars,
                 journalVars, applied, callerVars>>

LeaseExpires(s) ==
  /\ Yielded
  /\ "lease" \in Faults
  /\ ledger.lease[s] = "fresh"
  /\ ledger' = Age(ledger, s)
  /\ UNCHANGED <<envelopes, bufferedBytes, maxSeenSeq, aborted, drainVars,
                 journalVars, applied, callerVars>>

-----------------------------------------------------------------------------
(* setTerminalEnvelope: enqueue, skip, fail and cancel. *)

\* Mutant: a request that meets a running drain is forgotten.
RequestDrainOnce ==
  /\ drain' = IF drain = "idle" THEN "scan" ELSE drain
  /\ UNCHANGED <<flushRequested, cursor, batch>>

(* drain(): start, or ask the running one to go round again. *)
RequestDrain ==
  /\ drain' = IF drain = "idle" THEN "scan" ELSE drain
  /\ flushRequested' = (flushRequested \/ drain # "idle")
  /\ UNCHANGED <<cursor, batch>>

\* Mutant: a later report relabels a terminal seq.
ToTerminalAgain(l, s, t) ==
  LET started == Started(l, s)
  IN IF started.state[s] = "IN_FLIGHT" THEN Transition(started, s, t)
     ELSE [started EXCEPT !.state[s] = t]

(* transitionToTerminal; a seq that is terminal already is left alone. *)
ToTerminal(l, s, t) ==
  LET started == Started(l, s)
  IN IF started.state[s] = "IN_FLIGHT" THEN Transition(started, s, t) ELSE started

Contradicts(s, t) == envelopes[s] # NoEnvelope /\ envelopes[s].terminal # t
HeldBytes(s)      == envelopes[s].bytes

(* The report is turned away: aborted, already committed, or the envelope  *)
(* holds another outcome.                                                  *)
TurnedAway(s, t) ==
  /\ aborted \/ ledger.state[s] = "COMMITTED" \/ Contradicts(s, t)
  /\ done' = [done EXCEPT ![s] = IF ~aborted /\ ledger.state[s] = "COMMITTED"
                                 THEN "resolved" ELSE "rejected"]
  /\ maxSeenSeq' = IF ~aborted /\ ledger.state[s] # "COMMITTED" /\ s > maxSeenSeq
                   THEN s ELSE maxSeenSeq
  /\ worker' = [worker EXCEPT ![s] = "settled"]
  /\ UNCHANGED <<ledger, envelopes, bufferedBytes, drainVars, journalVars>>

Accepted(s, t) ==
  /\ ~aborted
  /\ ledger.state[s] # "COMMITTED"
  /\ ~Contradicts(s, t)
  /\ LET bytes == IF t = "SUCCESS" THEN ResultBytes[s] ELSE HeldBytes(s)
     IN /\ envelopes' = [envelopes EXCEPT ![s] = [terminal |-> t, bytes |-> bytes]]
        /\ bufferedBytes' = Dec(bufferedBytes, HeldBytes(s)) + bytes
  /\ maxSeenSeq' = IF s > maxSeenSeq THEN s ELSE maxSeenSeq
  /\ ledger' = ToTerminal(ledger, s, t)
  /\ terminalRecords' = [terminalRecords EXCEPT ![s] = Append(@, t)]
  /\ worker' = ResolveWaiters([worker EXCEPT ![s] = "settled"],
                              envelopes', bufferedBytes', maxSeenSeq', ledger')
  /\ done' = [done EXCEPT ![s] = "pending"]
  /\ RequestDrain
  /\ UNCHANGED commitRecords

SetTerminalEnvelope(s, t) ==
  /\ Yielded
  /\ worker[s] = "running"
  /\ TurnedAway(s, t) \/ Accepted(s, t)
  /\ UNCHANGED <<aborted, applied, subsetAttempt>>

(* reclaimExpiredLeases: called from the stall timers while workers run. *)
ReclaimExpiredLeases ==
  /\ Yielded
  /\ Expired(ledger) # {}
  /\ ledger' = Reclaim(ledger)
  /\ terminalRecords' = [s \in Seqs |-> IF s \in Expired(ledger)
                                        THEN Append(terminalRecords[s], "FAIL")
                                        ELSE terminalRecords[s]]
  /\ RequestDrain
  /\ UNCHANGED <<envelopes, bufferedBytes, maxSeenSeq, aborted, commitRecords, applied,
                 callerVars>>

-----------------------------------------------------------------------------
(* Failure of a shard, and abort. *)

\* Mutant: the buffered bytes survive an abort.
AbortKeepsBytes ==
  /\ aborted' = TRUE
  /\ ledger' = TerminalizeAll(ledger, InState(ledger, {"UNSEEN"} \cup Leased), "CANCEL")
  /\ envelopes' = [s \in Seqs |-> NoEnvelope]
  /\ UNCHANGED bufferedBytes
  /\ worker' = [s \in Seqs |-> IF worker[s] = "waiting" THEN "failed" ELSE worker[s]]
  /\ done' = [s \in Seqs |-> IF done[s] = "pending" THEN "rejected" ELSE done[s]]

\* Mutant: waiters and promises are left unsettled.
AbortSettlesNobody ==
  /\ aborted' = TRUE
  /\ ledger' = TerminalizeAll(ledger, InState(ledger, {"UNSEEN"} \cup Leased), "CANCEL")
  /\ envelopes' = [s \in Seqs |-> NoEnvelope]
  /\ bufferedBytes' = 0
  /\ UNCHANGED <<worker, done>>

(* abort(err): every seq still open is cancelled, waiters and unresolved   *)
(* envelopes are rejected, the buffer is dropped.  A second abort is void. *)
AbortEffect ==
  /\ aborted' = TRUE
  /\ IF aborted
     THEN UNCHANGED <<ledger, envelopes, bufferedBytes, worker, done>>
     ELSE /\ ledger' = TerminalizeAll(ledger, InState(ledger, {"UNSEEN"} \cup Leased), "CANCEL")
          /\ envelopes' = [s \in Seqs |-> NoEnvelope]
          /\ bufferedBytes' = 0
          /\ worker' = [s \in Seqs |-> IF worker[s] = "waiting" THEN "failed" ELSE worker[s]]
          /\ done' = [s \in Seqs |-> IF done[s] = "pending" THEN "rejected" ELSE done[s]]

ShardBroken(S)  == (\E s \in S : worker[s] = "failed") \/ (\E s \in Seqs : done[s] = "rejected")
ShardMayFail(S) == "retry" \in Faults /\ \E s \in S : worker[s] # "settled"

(* A shard fails and is retried: once its tasks have drained, resetForRetry *)
(* reopens its leased seqs and runEntryBatch processes ALL its entries      *)
(* again, the ones already terminal included.                               *)
ResetForRetry(S) ==
  /\ Yielded
  /\ ShardBroken(S) \/ ShardMayFail(S)
  /\ subsetAttempt[S] <= MaxSubsetRetries
  /\ \A s \in S : worker[s] # "waiting"
  /\ subsetAttempt' = [subsetAttempt EXCEPT ![S] = @ + 1]
  /\ ledger' = ResetNonTerminal(ledger, S)
  /\ LET rerun == [s \in Seqs |-> IF s \in S THEN "idle" ELSE worker[s]]
     IN worker' = IF ledger'.state = ledger.state THEN rerun
                  ELSE ResolveWaiters(rerun, envelopes, bufferedBytes, maxSeenSeq, ledger')
  /\ UNCHANGED <<envelopes, bufferedBytes, maxSeenSeq, aborted, drainVars, journalVars,
                 applied, done>>

(* The last attempt of a shard fails, or the stall watchdog gives up. *)
Abort ==
  /\ Yielded
  /\ ~aborted
  /\ \/ "abort" \in Faults
     \/ \E S \in Shards : ShardBroken(S) /\ subsetAttempt[S] > MaxSubsetRetries
  /\ AbortEffect
  /\ UNCHANGED <<maxSeenSeq, drainVars, journalVars, applied, subsetAttempt>>

-----------------------------------------------------------------------------
(* drain() *)

(* The completion wait and its stall timer call drain() once more. *)
CallDrain ==
  /\ Yielded
  /\ \A s \in Seqs : worker[s] = "settled"
  /\ RequestDrain
  /\ UNCHANGED <<ledger, envelopes, bufferedBytes, maxSeenSeq, aborted, journalVars,
                 applied, callerVars>>

ScanHead ==
  /\ drain = "scan"
  /\ drain' = IF aborted \/ ledger.committedCount >= Cardinality(Seqs)
              THEN "finally" ELSE "collect"
  /\ cursor' = ledger.nextCommitSeq
  /\ batch' = <<>>
  /\ UNCHANGED <<ledger, envelopes, bufferedBytes, maxSeenSeq, aborted, flushRequested,
                 journalVars, applied, callerVars>>

(* resolveTerminalStateForDrain: an envelope that outlived its terminal    *)
(* state terminalizes the seq again.                                       *)
DrainedLedger ==
  IF /\ cursor \in Seqs
     /\ ledger.state[cursor] \notin Terminals \cup {"COMMITTED"}
     /\ envelopes[cursor] # NoEnvelope
  THEN ToTerminal(ledger, cursor, envelopes[cursor].terminal)
  ELSE ledger

\* Mutant: a seq that is not terminal yet is skipped.
CollectSkipping ==
  /\ drain = "collect"
  /\ \E s \in Seqs :
       /\ s >= cursor /\ ledger.state[s] \in Terminals
       /\ \A r \in Seqs : r >= cursor /\ ledger.state[r] \in Terminals => s <= r
       /\ batch' = Append(batch, [seq |-> s, outcome |-> ledger.state[s]])
       /\ cursor' = s + 1
  /\ UNCHANGED <<ledger, envelopes, bufferedBytes, maxSeenSeq, aborted, drain, flushRequested,
                 journalVars, applied, callerVars>>

Collect ==
  /\ drain = "collect"
  /\ StateOf(DrainedLedger, cursor) \in Terminals
  /\ LET outcome == DrainedLedger.state[cursor]
     IN /\ batch' = Append(batch, [seq |-> cursor, outcome |-> outcome])
        /\ envelopes' = IF envelopes[cursor] = NoEnvelope
                        THEN [envelopes EXCEPT ![cursor] = [terminal |-> outcome, bytes |-> 0]]
                        ELSE envelopes
  /\ ledger' = DrainedLedger
  /\ cursor' = cursor + 1
  /\ UNCHANGED <<bufferedBytes, maxSeenSeq, aborted, drain, flushRequested, journalVars,
                 applied, callerVars>>

CollectEnds ==
  /\ drain = "collect"
  /\ StateOf(DrainedLedger, cursor) \notin Terminals
  /\ drain' = IF batch = <<>> THEN "finally" ELSE "commit"
  /\ UNCHANGED <<ledger, envelopes, bufferedBytes, maxSeenSeq, aborted, flushRequested,
                 cursor, batch, journalVars, applied, callerVars>>

(* Journal the commit, move the ledger, release the envelope, resolve the  *)
(* promise.  The ledger refuses a seq that was opened again meanwhile; the *)
(* error aborts the appender.                                              *)
CommitItem(item) ==
  /\ commitRecords' = Append(commitRecords, item)
  /\ IF IsLegal(ledger, item.seq, "COMMITTED")
     THEN /\ ledger' = Transition(ledger, item.seq, "COMMITTED")
          /\ envelopes' = [envelopes EXCEPT ![item.seq] = NoEnvelope]
          /\ bufferedBytes' = Dec(bufferedBytes, HeldBytes(item.seq))
          /\ done' = [done EXCEPT ![item.seq] = IF @ = "pending" THEN "resolved" ELSE @]
          /\ batch' = Tail(batch)
          /\ drain' = "commit"
          /\ UNCHANGED <<aborted, worker>>
     ELSE /\ AbortEffect
          /\ batch' = <<>>
          /\ drain' = "finally"
  /\ UNCHANGED <<maxSeenSeq, flushRequested, cursor, terminalRecords, subsetAttempt>>

CommitUnwritten ==
  /\ drain = "commit"
  /\ batch # <<>>
  /\ Head(batch).outcome # "SUCCESS"
  /\ CommitItem(Head(batch))
  /\ UNCHANGED applied

BeginApply ==
  /\ drain = "commit"
  /\ batch # <<>>
  /\ Head(batch).outcome = "SUCCESS"
  /\ drain' = "apply"
  /\ UNCHANGED <<ledger, envelopes, bufferedBytes, maxSeenSeq, aborted, flushRequested,
                 cursor, batch, journalVars, applied, callerVars>>

ApplySucceeds ==
  /\ drain = "apply"
  /\ applied' = Append(applied, Head(batch).seq)
  /\ CommitItem(Head(batch))

\* Mutant: a failed write is tried again.
ApplyAgain ==
  /\ drain = "apply"
  /\ "apply" \in Faults
  /\ applied' \in {applied, Append(applied, Head(batch).seq)}
  /\ drain' = "commit"
  /\ UNCHANGED <<ledger, envelopes, bufferedBytes, maxSeenSeq, aborted, flushRequested,
                 cursor, batch, journalVars, callerVars>>

(* handleFileResult throws or runs into flushTimeoutMs; its write may have *)
(* happened.                                                               *)
ApplyFails ==
  /\ drain = "apply"
  /\ "apply" \in Faults
  /\ applied' \in {applied, Append(applied, Head(batch).seq)}
  /\ AbortEffect
  /\ batch' = <<>>
  /\ drain' = "finally"
  /\ UNCHANGED <<maxSeenSeq, flushRequested, cursor, journalVars, subsetAttempt>>

\* Mutant: the capacity a batch has freed is not offered to the waiters.
EndBatchSilently ==
  /\ drain = "commit"
  /\ batch = <<>>
  /\ drain' = "scan"
  /\ UNCHANGED <<ledger, envelopes, bufferedBytes, maxSeenSeq, aborted, flushRequested,
                 cursor, batch, journalVars, applied, callerVars>>

EndBatch ==
  /\ drain = "commit"
  /\ batch = <<>>
  /\ worker' = ResolveWaiters(worker, envelopes, bufferedBytes, maxSeenSeq, ledger)
  /\ drain' = "scan"
  /\ UNCHANGED <<ledger, envelopes, bufferedBytes, maxSeenSeq, aborted, flushRequested,
                 cursor, batch, journalVars, applied, done, subsetAttempt>>

(* The `finally` handler: go round again when somebody asked meanwhile. *)
Finally ==
  /\ drain = "finally"
  /\ IF flushRequested /\ ~aborted
     THEN drain' = "scan" /\ flushRequested' = FALSE
     ELSE drain' = "idle" /\ UNCHANGED flushRequested
  /\ UNCHANGED <<ledger, envelopes, bufferedBytes, maxSeenSeq, aborted, cursor, batch,
                 journalVars, applied, callerVars>>

-----------------------------------------------------------------------------
Drain ==
  \/ ScanHead \/ Collect \/ CollectEnds \/ CommitUnwritten \/ BeginApply
  \/ ApplySucceeds \/ ApplyFails \/ EndBatch \/ Finally

Complete == ledger.committedCount = Cardinality(Seqs)

Terminated ==
  /\ drain = "idle"
  /\ Complete \/ aborted
  /\ UNCHANGED vars

Next ==
  \/ \E s \in Seqs :
       \/ WaitForCapacity(s) \/ CapacityTimeout(s)
       \/ NoteInFlight(s) \/ Heartbeat(s) \/ LeaseExpires(s)
       \/ \E t \in Outcomes : SetTerminalEnvelope(s, t)
  \/ ReclaimExpiredLeases
  \/ \E S \in Shards : ResetForRetry(S)
  \/ Abort
  \/ CallDrain
  \/ Drain
  \/ Terminated

Spec == Init /\ [][Next]_vars

(* What the code promises to do on its own.  A turn of drain() and its     *)
(* `finally` microtask run to completion; handleFileResult settles (it is  *)
(* bounded by flushTimeoutMs); a file is processed in bounded time (the    *)
(* per-file watchdog); a broken shard is retried or aborts the build.      *)
Fairness ==
  /\ WF_vars(Drain)
  /\ \A s \in Seqs : /\ WF_vars(WaitForCapacity(s))
                     /\ WF_vars(NoteInFlight(s))
                     /\ WF_vars(\E t \in Outcomes : SetTerminalEnvelope(s, t))
  /\ \A S \in Shards : WF_vars(ShardBroken(S) /\ ResetForRetry(S))
  /\ WF_vars((\E S \in Shards : ShardBroken(S)) /\ Abort)

FairSpec == Spec /\ Fairness
-----------------------------------------------------------------------------
(* Safety *)

SeqsOf(items) == {items[i].seq : i \in 1..Len(items)}

(* The O(1) counters and the commit cursor never drift from the states     *)
(* they summarise, whatever mix of retries, reclaims and aborts happened;  *)
(* assertCompletion and the backpressure gate trust them blindly.          *)
LedgerExact == CountersExact(ledger) /\ CursorExact(ledger) /\ LeasesExact(ledger)

(* Commits are journaled once each, in increasing order and without        *)
(* skipping an expected seq: the index is written in discovery order       *)
(* however the workers finish.                                             *)
CommitOrder ==
  \A i \in 1..Len(commitRecords) :
    {s \in Seqs : s < commitRecords[i].seq} = SeqsOf(SubSeq(commitRecords, 1, i - 1))

(* The writes are the successful commits of the records, in their order.   *)
WrittenInOrder(seqs, records) ==
  \E position \in [1..Len(seqs) -> 1..Len(records)] :
    /\ \A i, j \in 1..Len(seqs) : i < j => position[i] < position[j]
    /\ \A i \in 1..Len(seqs) : records[position[i]].seq = seqs[i]
    /\ {position[i] : i \in 1..Len(seqs)}
         = {j \in 1..Len(records) : records[j].outcome = "SUCCESS"}

(* What reached the index downstream is what the journal calls successful, *)
(* in the same order and once each; only an abort may leave one last write *)
(* without its commit.                                                     *)
AppliedMatchesJournal ==
  \/ WrittenInOrder(applied, commitRecords)
  \/ /\ aborted
     /\ applied # <<>>
     /\ WrittenInOrder(SubSeq(applied, 1, Len(applied) - 1), commitRecords)

(* The first outcome journaled for a seq is the one it is committed with:  *)
(* neither a late report after a reclaim nor a second run of the shard     *)
(* changes the fate of a seq.                                              *)
FirstOutcomeWins ==
  \A i \in 1..Len(commitRecords) :
    LET record == commitRecords[i]
    IN IF terminalRecords[record.seq] = <<>>
       THEN aborted /\ record.outcome = "CANCEL"
       ELSE record.outcome = Head(terminalRecords[record.seq])

(* bufferedBytes is the size of the results held in envelopes; a drift     *)
(* upwards would close the capacity gate for good.                         *)
BytesExact == bufferedBytes = Total([s \in Seqs |-> HeldBytes(s)], Seqs)

(* No lost wakeup of drain(): when the head of the ledger is terminal, a   *)
(* drain is running or has been asked to go round again.                   *)
DrainNotLost ==
  ( /\ ~aborted
    /\ StateOf(ledger, ledger.nextCommitSeq) \in Terminals
    /\ Yielded )
  => \/ drain = "apply"
     \/ drain = "finally" /\ flushRequested

(* No lost wakeup of a capacity waiter: whenever drain() rests, a waiter   *)
(* still queued is one the gate would hold back now as well.               *)
WaitersRightlyHeld ==
  (drain \in {"idle", "finally"})
  => \A s \in Seqs : worker[s] = "waiting"
       => /\ ~aborted
          /\ ~Bypasses(s, ledger)
          /\ ~Resumable(envelopes, bufferedBytes, maxSeenSeq, ledger)

(* An abort leaves nothing open: every seq is terminal, no lease survives, *)
(* no envelope, waiter or unsettled promise is left behind.                *)
AbortSettlesEverything ==
  aborted => /\ InState(ledger, {"UNSEEN"} \cup Leased) = {}
             /\ Pending(envelopes) = {}
             /\ \A s \in Seqs : worker[s] # "waiting" /\ done[s] # "pending"

(* An unanswered report has its envelope, from which drain() or an abort   *)
(* will answer it: no envelope is dropped without settling its promise.    *)
PromisesHeld ==
  \A s \in Seqs : done[s] = "pending" => envelopes[s] # NoEnvelope

(* replayCommitJournal refuses a journal that names two outcomes for one   *)
(* seq, and otherwise recomputes the cursor from the commit records.       *)
Conflicting == {s \in Seqs : \E i, j \in 1..Len(terminalRecords[s]) :
                               terminalRecords[s][i] # terminalRecords[s][j]}
ReplayedCursor ==
  LET missing == Seqs \ SeqsOf(commitRecords)
  IN IF missing = {} THEN EndSeq + 1 ELSE Min(missing)

(* Replaying the journal as it stands at any moment, where it is accepted, *)
(* restores the cursor and the set of committed seqs.                      *)
ReplayRestoresCursor ==
  Conflicting = {} => /\ SeqsOf(commitRecords) = InState(ledger, {"COMMITTED"})
                      /\ ReplayedCursor = ledger.nextCommitSeq

(* What drain() captured before it awaits a write is still true when it    *)
(* resumes: nothing reopens, commits or relabels a collected seq meanwhile, *)
(* so its commit is always legal and carries the outcome in the ledger.    *)
BatchStaysTerminal ==
  \A i \in 1..Len(batch) : ledger.state[batch[i].seq] = batch[i].outcome

(* A seq is dispatched at most once per attempt of its shard, whatever was *)
(* reclaimed, reset or cancelled in between.                               *)
Budget(s) == IF \E S \in Shards : s \in S
             THEN subsetAttempt[CHOOSE S \in Shards : s \in S] ELSE 1
AttemptsWithinBudget == \A s \in Seqs : ledger.attempts[s] <= Budget(s)

(* docs/specs/stage1-commit-journal-replay.md: "Conflicting terminal       *)
(* outcomes for same `seq` is fatal corruption."  The appender should      *)
(* therefore never write such a journal.                                   *)
NoJournalConflict == Conflicting = {}

(* Action properties *)

(* A step of the ledger only ever follows legal transitions, possibly      *)
(* several in one turn; a shard retry alone goes back to UNSEEN.           *)
Reaches(a, b) ==
  \/ a = b
  \/ a = "UNSEEN" /\ b \in Leased \cup Terminals
  \/ a = "DISPATCHED" /\ b \in {"IN_FLIGHT"} \cup Terminals
  \/ a = "IN_FLIGHT" /\ b \in Terminals
  \/ a \in Terminals /\ b = "COMMITTED"
  \/ a \in Leased /\ b = "UNSEEN" /\ subsetAttempt' # subsetAttempt

(* Terminal outcomes and commits are final: no step takes a seq out of     *)
(* COMMITTED, or out of a terminal state other than into COMMITTED, and    *)
(* the cursor never moves back, a shard retry included.                    *)
OutcomesFinal ==
  [][/\ \A s \in Seqs : Reaches(ledger.state[s], ledger'.state[s])
     /\ ledger'.nextCommitSeq >= ledger.nextCommitSeq]_vars

(* Liveness *)

(* Every accepted report is answered, every capacity waiter let go. *)
ReportsAnswered ==
  \A s \in Seqs : /\ done[s] = "pending" ~> done[s] # "pending"
                  /\ worker[s] = "waiting" ~> worker[s] # "waiting"
=============================================================================
