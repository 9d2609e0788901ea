------------------------ MODULE OrderedAppenderSafety ------------------------
(* What the ordered appender promises beyond its order: outcomes are final, *)
(* an abort leaves nothing open, no wakeup is lost, a seq is dispatched     *)
(* within its budget, and the writes are the successful commits.  At the    *)
(* end: it implements OrderedCommit, step by step; whatever is retried,     *)
(* reclaimed, aborted or lost, its callers see outcomes that do not change, *)
(* commits in the order of the seqs and their results written.              *)
EXTENDS OrderedAppenderRefinement, OrderedAppenderProofs, SumsProofs

-----------------------------------------------------------------------------
(* What the steps of drain() do to the ledger *)

(* A commit takes the seq at the cursor, whose outcome the batch names. *)
LEMMA CommitIsNext ==
  ASSUME IInv, drain \in {"commit", "apply"}, batch # <<>>, CommitItem(Head(batch))
  PROVE  /\ Head(batch) \in Items
         /\ Head(batch).seq \in Seqs /\ Head(batch).outcome \in Terminals
         /\ Head(batch).seq = ledger.nextCommitSeq
         /\ ledger.state[Head(batch).seq] = Head(batch).outcome
         /\ commitRecords' = Append(commitRecords, Head(batch))
         /\ ledger' = Transition(ledger, Head(batch).seq, "COMMITTED")
         /\ envelopes' = [envelopes EXCEPT ![Head(batch).seq] = NoEnvelope]
         /\ bufferedBytes' = Dec(bufferedBytes, HeldBytes(Head(batch).seq))
         /\ done' = [done EXCEPT ![Head(batch).seq] = IF @ = "pending" THEN "resolved" ELSE @]
         /\ batch' = Tail(batch)
         /\ drain' = "commit"
         /\ UNCHANGED <<aborted, worker, maxSeenSeq, flushRequested, cursor,
                        terminalRecords, subsetAttempt>>
<1> DEFINE item == Head(batch)
           s == item.seq
<1>1. /\ batch \in Seq(Items) /\ Len(batch) \in Nat /\ Len(batch) >= 1
      /\ ledger.nextCommitSeq \in Nat /\ BatchIsRun
  BY DEF IInv, TypeOK, Ledgers
<1>2. item = batch[1] /\ 1 \in 1..Len(batch) /\ batch[1] \in Items
  BY <1>1
<1>3. batch[1].seq = ledger.nextCommitSeq + 1 - 1 /\ ledger.state[batch[1].seq] = batch[1].outcome
  BY <1>1, <1>2 DEF BatchIsRun
<1>4. CommitItem(item)
  OBVIOUS
<1> HIDE DEF item
<1>5. /\ item \in Items /\ s \in Seqs /\ item.outcome \in Terminals
      /\ s = ledger.nextCommitSeq /\ ledger.state[s] = item.outcome
  BY <1>1, <1>2, <1>3 DEF Items
<1>6. IsLegal(ledger, s, "COMMITTED")
  BY <1>5 DEF IsLegal, StateOf, LegalTransitions
<1>7. /\ commitRecords' = Append(commitRecords, item)
      /\ ledger' = Transition(ledger, s, "COMMITTED")
      /\ envelopes' = [envelopes EXCEPT ![s] = NoEnvelope]
      /\ bufferedBytes' = Dec(bufferedBytes, HeldBytes(s))
      /\ done' = [done EXCEPT ![s] = IF @ = "pending" THEN "resolved" ELSE @]
      /\ batch' = Tail(batch)
      /\ drain' = "commit"
      /\ UNCHANGED <<aborted, worker, maxSeenSeq, flushRequested, cursor, terminalRecords,
                     subsetAttempt>>
  BY <1>4, <1>6 DEF CommitItem
<1> QED
  BY <1>5, <1>7 DEF item

(* It moves that seq alone, without another dispatch, and the cursor on. *)
LEMMA CommitMoves ==
  ASSUME IInv, drain \in {"commit", "apply"}, batch # <<>>, CommitItem(Head(batch)),
         NEW s, s = Head(batch).seq
  PROVE  /\ ledger'.state = [ledger.state EXCEPT ![s] = "COMMITTED"]
         /\ ledger'.attempts = ledger.attempts
         /\ ledger'.nextCommitSeq > ledger.nextCommitSeq
<1>1. /\ s \in Seqs /\ s = ledger.nextCommitSeq
      /\ ledger.state[s] \in Terminals
      /\ ledger' = Transition(ledger, s, "COMMITTED")
  BY CommitIsNext
<1>2. /\ LedgerInv(ledger) /\ ledger \in Ledgers /\ "COMMITTED" \in States
      /\ ledger.state \in [Seqs -> States] /\ ledger.nextCommitSeq \in Nat
      /\ ledger.attempts \in [Seqs -> Nat]
  BY DEF IInv, LedgerInv, Ledgers, States
<1>3. ledger'.state = [ledger.state EXCEPT ![s] = "COMMITTED"]
  BY <1>1, <1>2, TransitionType
<1>4. ledger'.attempts = ledger.attempts
  BY <1>1, <1>2 DEF Transition, One
<1>5. LedgerInv(ledger')
  <2>1. IsLegal(ledger, s, "COMMITTED")
    BY <1>1 DEF IsLegal, StateOf, LegalTransitions
  <2> QED
    BY <1>1, <1>2, <2>1, TransitionKeeps
<1>6. ledger'.nextCommitSeq \in Nat /\ s < ledger'.nextCommitSeq
  <2>1. ledger'.nextCommitSeq \in Nat /\ CursorSplits(ledger')
    BY <1>5 DEF LedgerInv, Ledgers
  <2>2. ledger'.state[s] = "COMMITTED"
    BY <1>1, <1>2, <1>3
  <2> QED
    BY <1>1, <2>1, <2>2 DEF CursorSplits
<1> QED
  BY <1>1, <1>2, <1>3, <1>4, <1>6

(* Every committing step is a commit of the head of the batch. *)
LEMMA CommitSteps ==
  ASSUME IInv, CommitUnwritten \/ ApplySucceeds
  PROVE  drain \in {"commit", "apply"} /\ batch # <<>> /\ CommitItem(Head(batch))
BY DEF CommitUnwritten, ApplySucceeds, IInv, BatchIsRun

(* resolveTerminalStateForDrain never has to terminalize a seq again. *)
LEMMA NothingOutlives ==
  ASSUME IInv
  PROVE  DrainedLedger = ledger
BY DEF IInv, EnvelopesTerminal, DrainedLedger

(* Collecting leaves the ledger alone, and what it adds to an envelope is  *)
(* an outcome without bytes.                                               *)
LEMMA CollectLooks ==
  ASSUME IInv, Collect
  PROVE  /\ UNCHANGED ledger
         /\ cursor \in Seqs
         /\ envelopes' = IF envelopes[cursor] = NoEnvelope
                         THEN [envelopes EXCEPT ![cursor] =
                                 [terminal |-> ledger.state[cursor], bytes |-> 0]]
                         ELSE envelopes
<1>1. DrainedLedger = ledger
  BY NothingOutlives
<1> QED
  BY <1>1 DEF Collect, StateOf, Terminals

-----------------------------------------------------------------------------
(* Outcomes are final *)

(* Reports, reclaims and aborts move open seqs forward only. *)
OpenForward(l, n) ==
  /\ n.nextCommitSeq = l.nextCommitSeq
  /\ \A s \in Seqs :
       \/ n.state[s] = l.state[s]
       \/ /\ l.state[s] \in {"UNSEEN"} \cup Leased
          /\ n.state[s] \in {"IN_FLIGHT"} \cup Terminals

(* A reclaim fails the seqs whose lease has expired, and those only. *)
LEMMA ReclaimMoves ==
  ASSUME NEW l, LedgerInv(l)
  PROVE  /\ LedgerInv(Reclaim(l))
         /\ Reclaim(l).nextCommitSeq = l.nextCommitSeq
         /\ Reclaim(l).attempts = l.attempts
         /\ \A s \in Seqs : IF s \in Expired(l)
                          THEN l.state[s] \in Leased /\ Reclaim(l).state[s] = "FAIL"
                          ELSE Reclaim(l).state[s] = l.state[s]
<1>1. Expired(l) \in SUBSET InState(l, {"UNSEEN"} \cup Leased)
  BY DEF Expired, InState
<1>2. "FAIL" \in Terminals
  BY DEF Terminals
<1>3. /\ LedgerInv(TerminalizeAll(l, Expired(l), "FAIL"))
      /\ Settles(l, TerminalizeAll(l, Expired(l), "FAIL"))
      /\ TerminalizeAll(l, Expired(l), "FAIL").state
           = [s \in Seqs |-> IF s \in Expired(l) THEN "FAIL" ELSE l.state[s]]
  BY <1>1, <1>2, TerminalizeSettles
<1>4. \A s \in Expired(l) : l.state[s] \in Leased /\ l.state[s] # "UNSEEN"
  BY DEF Expired, Leased
<1>5. TerminalizeAll(l, Expired(l), "FAIL").attempts = l.attempts
  <2>1. l \in Ledgers /\ l.attempts \in [Seqs -> Nat]
    BY DEF LedgerInv, Ledgers
  <2>2. TerminalizeAll(l, Expired(l), "FAIL").attempts
          = [s \in Seqs |-> l.attempts[s] + One(s \in Expired(l) /\ l.state[s] = "UNSEEN")]
    BY <2>1 DEF TerminalizeAll, Ledgers
  <2> QED
    BY <1>4, <2>1, <2>2 DEF One
<1> QED
  BY <1>3, <1>4, <1>5 DEF Reclaim, Settles

(* Each kind of step is one the ledger's life cycle allows. *)
LEMMA StepReaches ==
  ASSUME IInv, [Next]_vars
  PROVE  /\ \A s \in Seqs : Reaches(ledger.state[s], ledger'.state[s])
         /\ ledger'.nextCommitSeq >= ledger.nextCommitSeq
<1> DEFINE Goal == /\ \A s \in Seqs : Reaches(ledger.state[s], ledger'.state[s])
                   /\ ledger'.nextCommitSeq >= ledger.nextCommitSeq
<1>0. /\ LedgerInv(ledger) /\ ledger.state \in [Seqs -> States] /\ ledger.nextCommitSeq \in Nat
  BY DEF IInv, LedgerInv, Ledgers
<1>1. ASSUME OpenForward(ledger, ledger') PROVE Goal
  BY <1>0, <1>1 DEF OpenForward, Reaches, Leased
<1>2. ASSUME UNCHANGED ledger PROVE Goal
  BY <1>0, <1>2 DEF Reaches
<1>3. ASSUME NEW s \in Seqs, NoteInFlight(s) PROVE Goal
  <2>1. OpenForward(ledger, ledger')
    <3>1. ledger' = Started(ledger, s)
      BY <1>3 DEF NoteInFlight
    <3>2. /\ Settles(ledger, Started(ledger, s))
          /\ Started(ledger, s).state
               = [ledger.state EXCEPT ![s] = IF @ \in {"UNSEEN", "DISPATCHED"} THEN "IN_FLIGHT" ELSE @]
      BY <1>0, StartedKeeps
    <3> QED
      BY <1>0, <3>1, <3>2 DEF OpenForward, Settles, Leased
  <2> QED
    BY <1>1, <2>1
<1>4. ASSUME NEW s \in Seqs, Heartbeat(s) \/ LeaseExpires(s) PROVE Goal
  <2>1. ledger'.state = ledger.state /\ ledger'.nextCommitSeq = ledger.nextCommitSeq
    BY <1>0, <1>4 DEF Heartbeat, LeaseExpires, Renew, Age, LedgerInv, Ledgers
  <2> QED
    BY <1>0, <2>1 DEF Reaches
<1>5. ASSUME NEW s \in Seqs, NEW t \in Outcomes, SetTerminalEnvelope(s, t) PROVE Goal
  <2>1. CASE TurnedAway(s, t)
    BY <1>2, <2>1 DEF TurnedAway
  <2>2. CASE Accepted(s, t)
    <3>1. ledger' = ToTerminal(ledger, s, t) /\ t \in Terminals
      BY <2>2, AppenderAssumption DEF Accepted
    <3>2. /\ Settles(ledger, ToTerminal(ledger, s, t))
          /\ ToTerminal(ledger, s, t).state
               = [ledger.state EXCEPT ![s] = IF @ \in {"UNSEEN"} \cup Leased THEN t ELSE @]
      BY <1>0, <3>1, ToTerminalKeeps
    <3>3. OpenForward(ledger, ledger')
      BY <1>0, <3>1, <3>2 DEF OpenForward, Settles
    <3> QED
      BY <1>1, <3>3
  <2> QED
    BY <1>5, <2>1, <2>2 DEF SetTerminalEnvelope
<1>6. ASSUME ReclaimExpiredLeases PROVE Goal
  <2>1. ledger' = Reclaim(ledger)
    BY <1>6 DEF ReclaimExpiredLeases
  <2>2. OpenForward(ledger, Reclaim(ledger))
    BY <1>0, ReclaimMoves DEF OpenForward, Terminals
  <2>3. OpenForward(ledger, ledger')
    BY <2>1, <2>2
  <2> QED
    BY <1>1, <2>3
<1>7. ASSUME AbortEffect PROVE Goal
  <2>1. OpenForward(ledger, ledger')
    BY <1>7, AbortKeeps DEF OpenForward, Settles, Terminals
  <2> QED
    BY <1>1, <2>1
<1>8. ASSUME NEW S \in Shards, ResetForRetry(S) PROVE Goal
  <2>1. /\ ledger' = ResetNonTerminal(ledger, S) /\ S \in SUBSET Seqs
        /\ subsetAttempt' = [subsetAttempt EXCEPT ![S] = @ + 1]
        /\ subsetAttempt \in [Shards -> Nat]
    BY <1>8, AppenderAssumption DEF ResetForRetry, IInv, TypeOK
  <2>2. subsetAttempt'[S] = subsetAttempt[S] + 1 /\ subsetAttempt[S] \in Nat
    BY <2>1
  <2>3. subsetAttempt' # subsetAttempt
    BY <2>2
  <2>4. /\ ledger'.nextCommitSeq = ledger.nextCommitSeq
        /\ \A s \in Seqs : \/ ledger'.state[s] = ledger.state[s]
                           \/ ledger'.state[s] = "UNSEEN" /\ ledger.state[s] \in Leased
    BY <1>0, <2>1, ResetSettles DEF Settles
  <2> QED
    BY <1>0, <2>3, <2>4 DEF Reaches
<1>9. ASSUME CommitUnwritten \/ ApplySucceeds PROVE Goal
  <2>1. drain \in {"commit", "apply"} /\ batch # <<>> /\ CommitItem(Head(batch))
    BY <1>9, CommitSteps
  <2> DEFINE s == Head(batch).seq
  <2>2. /\ s \in Seqs /\ ledger.state[s] \in Terminals
        /\ ledger'.state = [ledger.state EXCEPT ![s] = "COMMITTED"]
        /\ ledger'.nextCommitSeq > ledger.nextCommitSeq
    BY <2>1, CommitIsNext, CommitMoves
  <2>3. ledger'.nextCommitSeq \in Nat
    <3>1. IInv'
      BY <1>9, CommitUnwrittenKeeps, ApplySucceedsKeeps
    <3> QED
      BY <3>1 DEF IInv, LedgerInv, Ledgers
  <2> HIDE DEF s
  <2> QED
    BY <1>0, <2>2, <2>3 DEF Reaches
<1>10. ASSUME \/ \E s \in Seqs : WaitForCapacity(s) \/ CapacityTimeout(s)
              \/ CallDrain \/ ScanHead \/ Collect \/ CollectEnds \/ BeginApply \/ EndBatch \/ Finally
       PROVE Goal
  <2>1. UNCHANGED ledger
    BY <1>10, CollectLooks
       DEF WaitForCapacity, CapacityTimeout, CallDrain, ScanHead, CollectEnds, BeginApply,
           EndBatch, Finally
  <2> QED
    BY <1>2, <2>1
<1>11. ASSUME Terminated \/ UNCHANGED vars PROVE Goal
  BY <1>2, <1>11 DEF Terminated, vars
<1> HIDE DEF Goal
<1>12. Goal
  BY <1>3, <1>4, <1>5, <1>6, <1>7, <1>8, <1>9, <1>10, <1>11 DEF Next, Drain, Abort, ApplyFails
<1> QED
  BY <1>12 DEF Goal

(* Terminal outcomes and commits are final, and the cursor never moves     *)
(* back: no retry, reclaim or abort takes back what was journaled.         *)
THEOREM OutcomesStayFinal == Spec => OutcomesFinal
<1>1. IInv /\ [Next]_vars
        => [/\ \A s \in Seqs : Reaches(ledger.state[s], ledger'.state[s])
            /\ ledger'.nextCommitSeq >= ledger.nextCommitSeq]_vars
  BY StepReaches
<1> QED
  BY <1>1, Invariant, PTL DEF Spec, OutcomesFinal

-----------------------------------------------------------------------------
(* An abort leaves nothing open, a promise is held by its envelope *)

(* drain() never collects after an abort, so that no envelope comes back.  *)
CollectsLive == drain = "collect" => ~aborted

SettledInv == AbortSettlesEverything /\ PromisesHeld /\ CollectsLive

(* A seq that is not open stays so. *)
LEMMA ClosedStays ==
  ASSUME IInv, [Next]_vars, InState(ledger, {"UNSEEN"} \cup Leased) = {}
  PROVE  InState(ledger', {"UNSEEN"} \cup Leased) = {}
<1>1. \A s \in Seqs : Reaches(ledger.state[s], ledger'.state[s])
  BY StepReaches
<1>2. \A s \in Seqs : ledger.state[s] \notin {"UNSEEN"} \cup Leased
  BY DEF InState
<1> QED
  BY <1>1, <1>2 DEF InState, Reaches, Leased, Terminals

(* An abort settles waiters and promises together with the seqs. *)
LEMMA AbortSettles ==
  ASSUME IInv, SettledInv, AbortEffect
  PROVE  /\ InState(ledger', {"UNSEEN"} \cup Leased) = {}
         /\ \A s \in Seqs : envelopes'[s] = NoEnvelope
         /\ \A s \in Seqs : worker'[s] # "waiting" /\ done'[s] # "pending"
<1>1. CASE aborted
  BY <1>1 DEF AbortEffect, SettledInv, AbortSettlesEverything, Pending
<1>2. CASE ~aborted
  <2> DEFINE open == InState(ledger, {"UNSEEN"} \cup Leased)
  <2>1. /\ ledger' = TerminalizeAll(ledger, open, "CANCEL")
        /\ envelopes' = [s \in Seqs |-> NoEnvelope]
        /\ worker' = [s \in Seqs |-> IF worker[s] = "waiting" THEN "failed" ELSE worker[s]]
        /\ done' = [s \in Seqs |-> IF done[s] = "pending" THEN "rejected" ELSE done[s]]
    BY <1>2 DEF AbortEffect
  <2>2. ledger \in Ledgers
    BY DEF IInv, LedgerInv
  <2>3. ledger'.state = [s \in Seqs |-> IF s \in open THEN "CANCEL" ELSE ledger.state[s]]
    BY <2>1, <2>2 DEF TerminalizeAll, Ledgers
  <2>4. InState(ledger', {"UNSEEN"} \cup Leased) = {}
    BY <2>3 DEF InState, Leased
  <2> QED
    BY <2>1, <2>4
<1> QED
  BY <1>1, <1>2

(* The workers that are woken up were waiting; nobody starts to wait. *)
LEMMA WokenWaited ==
  ASSUME NEW w, NEW env, NEW bytes, NEW seen, NEW l, NEW s \in Seqs,
         ResolveWaiters(w, env, bytes, seen, l)[s] = "waiting"
  PROVE  w[s] = "waiting"
BY DEF ResolveWaiters

(* Every step keeps what an abort has settled, and the promises. *)
LEMMA SettledStep ==
  ASSUME IInv, SettledInv, [Next]_vars
  PROVE  SettledInv'
<1> USE DEF SettledInv, AbortSettlesEverything, PromisesHeld, CollectsLive, Pending
<1>0. /\ envelopes \in [Seqs -> Envelopes]
      /\ worker \in [Seqs -> {"idle", "waiting", "ready", "running", "settled", "failed"}]
      /\ done \in [Seqs -> {"none", "pending", "resolved", "rejected"}]
      /\ aborted \in BOOLEAN
  BY DEF IInv, TypeOK
<1>1. aborted => InState(ledger', {"UNSEEN"} \cup Leased) = {}
  BY ClosedStays
<1>2. ASSUME NEW s \in Seqs, WaitForCapacity(s) \/ CapacityTimeout(s) PROVE SettledInv'
  BY <1>0, <1>1, <1>2 DEF WaitForCapacity, CapacityTimeout, drainVars
<1>3. ASSUME NEW s \in Seqs, NoteInFlight(s) PROVE SettledInv'
  BY <1>0, <1>1, <1>3 DEF NoteInFlight, drainVars
<1>4. ASSUME NEW s \in Seqs, Heartbeat(s) \/ LeaseExpires(s) PROVE SettledInv'
  BY <1>0, <1>1, <1>4 DEF Heartbeat, LeaseExpires, drainVars, callerVars
<1>5. ASSUME NEW s \in Seqs, NEW t \in Outcomes, SetTerminalEnvelope(s, t) PROVE SettledInv'
  <2>1. CASE TurnedAway(s, t)
    BY <1>0, <1>1, <1>5, <2>1 DEF TurnedAway, SetTerminalEnvelope, drainVars
  <2>2. CASE Accepted(s, t)
    <3>1. /\ ~aborted' /\ t \in Terminals /\ drain' # "collect"
          /\ done' = [done EXCEPT ![s] = "pending"]
          /\ \E b : envelopes' = [envelopes EXCEPT ![s] = [terminal |-> t, bytes |-> b]]
      BY <1>5, <2>2, AppenderAssumption
         DEF Accepted, SetTerminalEnvelope, RequestDrain, Yielded
    <3>2. [terminal |-> t] # [terminal |-> "NONE"] /\ t # "NONE"
      BY <3>1 DEF Terminals
    <3>3. \A b : [terminal |-> t, bytes |-> b] # NoEnvelope
      BY <3>2 DEF NoEnvelope
    <3> QED
      BY <1>0, <3>1, <3>3
  <2> QED
    BY <1>5, <2>1, <2>2 DEF SetTerminalEnvelope
<1>6. ASSUME ReclaimExpiredLeases PROVE SettledInv'
  BY <1>0, <1>1, <1>6 DEF ReclaimExpiredLeases, RequestDrain, callerVars, Yielded
<1>7. ASSUME NEW S \in Shards, ResetForRetry(S) PROVE SettledInv'
  <2>1. \A s \in Seqs : worker'[s] = "waiting" => worker[s] = "waiting"
    BY <1>0, <1>7, WokenWaited DEF ResetForRetry
  <2> QED
    BY <1>0, <1>1, <1>7, <2>1 DEF ResetForRetry, drainVars
<1>8. ASSUME Abort \/ ApplyFails PROVE SettledInv'
  <2>1. AbortEffect /\ drain' # "collect"
    BY <1>8 DEF Abort, ApplyFails, Yielded, drainVars
  <2> QED
    BY <2>1, AbortSettles
<1>9. ASSUME CallDrain PROVE SettledInv'
  BY <1>0, <1>1, <1>9 DEF CallDrain, RequestDrain, callerVars, Yielded
<1>10. ASSUME ScanHead \/ CollectEnds \/ BeginApply \/ Finally PROVE SettledInv'
  <2>1. UNCHANGED <<aborted, envelopes, worker, done>> /\ (drain' = "collect" => ~aborted)
    BY <1>10 DEF ScanHead, CollectEnds, BeginApply, Finally, callerVars
  <2> QED
    BY <1>0, <1>1, <2>1
<1>11. ASSUME Collect PROVE SettledInv'
  <2>1. /\ ~aborted /\ UNCHANGED <<aborted, done, drain>>
        /\ \A s \in Seqs : envelopes[s] # NoEnvelope => envelopes'[s] # NoEnvelope
    <3>1. drain = "collect" /\ UNCHANGED <<aborted, done, drain>>
      BY <1>11 DEF Collect, callerVars
    <3> QED
      BY <1>0, <1>11, <3>1, CollectLooks
  <2> QED
    BY <1>0, <2>1
<1>12. ASSUME CommitUnwritten \/ ApplySucceeds PROVE SettledInv'
  <2> DEFINE s == Head(batch).seq
  <2>1. /\ envelopes' = [envelopes EXCEPT ![s] = NoEnvelope]
        /\ done' = [done EXCEPT ![s] = IF @ = "pending" THEN "resolved" ELSE @]
        /\ drain' = "commit" /\ UNCHANGED <<aborted, worker>>
    BY <1>12, CommitSteps, CommitIsNext
  <2> HIDE DEF s
  <2> QED
    BY <1>0, <1>1, <2>1
<1>13. ASSUME EndBatch PROVE SettledInv'
  <2>1. \A s \in Seqs : worker'[s] = "waiting" => worker[s] = "waiting"
    BY <1>13, WokenWaited DEF EndBatch
  <2> QED
    BY <1>0, <1>1, <1>13, <2>1 DEF EndBatch
<1>14. ASSUME UNCHANGED vars PROVE SettledInv'
  BY <1>14 DEF vars, callerVars, drainVars
<1> HIDE DEF SettledInv
<1> QED
  BY <1>2, <1>3, <1>4, <1>5, <1>6, <1>7, <1>8, <1>9, <1>10, <1>11, <1>12, <1>13, <1>14
     DEF Next, Drain, Terminated

(* Both hold initially, hence always. *)
LEMMA SettledAlways == Spec => []SettledInv
<1>1. Init => SettledInv
  BY DEF Init, SettledInv, AbortSettlesEverything, PromisesHeld, CollectsLive
<1>2. IInv /\ SettledInv /\ [Next]_vars => SettledInv'
  BY SettledStep
<1> QED
  BY <1>1, <1>2, Invariant, PTL DEF Spec

(* After an abort no seq is open, no envelope is held, nobody waits.        *)
THEOREM AbortsSettle == Spec => []AbortSettlesEverything
<1>1. SettledInv => AbortSettlesEverything
  BY DEF SettledInv
<1> QED
  BY <1>1, SettledAlways, PTL

(* Every unanswered report has its envelope, from which it will be answered. *)
THEOREM PromisesAreHeld == Spec => []PromisesHeld
<1>1. SettledInv => PromisesHeld
  BY DEF SettledInv
<1> QED
  BY <1>1, SettledAlways, PTL

-----------------------------------------------------------------------------
(* Dispatches stay within the budget *)

(* The dispatches of a seq, counting the one an unseen seq still waits for. *)
Charge(l, s) == l.attempts[s] + One(l.state[s] = "UNSEEN")
DispatchesCharged == \A s \in Seqs : Charge(ledger, s) <= Budget(s)

SameCharges(l, n) == \A s \in Seqs : Charge(n, s) = Charge(l, s)

(* Only a failed seq that is dispatched again would cost a further attempt. *)
LEMMA TransitionCharges ==
  ASSUME NEW l, LedgerInv(l), NEW s \in Seqs, NEW next,
         <<l.state[s], next>> \in LegalTransitions,
         l.state[s] # "FAIL"
  PROVE  SameCharges(l, Transition(l, s, next))
<1>1. /\ l \in Ledgers /\ l.state \in [Seqs -> States] /\ l.attempts \in [Seqs -> Nat]
  BY DEF LedgerInv, Ledgers
<1>2. /\ next \in States /\ next # "UNSEEN"
      /\ next = "DISPATCHED" <=> l.state[s] = "UNSEEN"
  BY DEF LegalTransitions, Terminals, Leased, States
<1>3. Transition(l, s, next).state = [l.state EXCEPT ![s] = next]
  BY <1>1, <1>2, TransitionType
<1>4. Transition(l, s, next).attempts = [l.attempts EXCEPT ![s] = @ + One(next = "DISPATCHED")]
  BY DEF Transition
<1> HIDE DEF Transition
<1>5. ASSUME NEW r \in Seqs PROVE Charge(Transition(l, s, next), r) = Charge(l, r)
  <2>1. CASE r = s
    BY <1>1, <1>2, <1>3, <1>4, <2>1 DEF Charge, One
  <2>2. CASE r # s
    BY <1>1, <1>3, <1>4, <2>2 DEF Charge
  <2> QED
    BY <2>1, <2>2
<1> QED
  BY <1>5 DEF SameCharges

(* Starting a seq and reporting its outcome cost what was set aside. *)
LEMMA StartedCharges ==
  ASSUME NEW l, LedgerInv(l), NEW s \in Seqs
  PROVE  SameCharges(l, Started(l, s))
<1> DEFINE a == IF l.state[s] = "UNSEEN" THEN Transition(l, s, "DISPATCHED") ELSE l
           b == IF a.state[s] = "DISPATCHED" THEN Transition(a, s, "IN_FLIGHT") ELSE a
<1>1. SameCharges(l, a) /\ LedgerInv(a)
  <2>1. CASE l.state[s] = "UNSEEN"
    <3>1. <<l.state[s], "DISPATCHED">> \in LegalTransitions
      BY <2>1 DEF LegalTransitions
    <3> QED
      BY <2>1, <3>1, TransitionCharges, TransitionSettles
  <2>2. CASE l.state[s] # "UNSEEN"
    BY <2>2 DEF SameCharges
  <2> QED
    BY <2>1, <2>2
<1> HIDE DEF a
<1>2. SameCharges(a, b)
  <2>1. CASE a.state[s] = "DISPATCHED"
    <3>1. <<a.state[s], "IN_FLIGHT">> \in LegalTransitions
      BY <2>1 DEF LegalTransitions
    <3> QED
      BY <1>1, <2>1, <3>1, TransitionCharges
  <2>2. CASE a.state[s] # "DISPATCHED"
    BY <2>2 DEF SameCharges
  <2> QED
    BY <2>1, <2>2
<1>3. Started(l, s) = b
  BY Zenon DEF Started, a, b
<1> HIDE DEF b
<1> QED
  BY <1>1, <1>2, <1>3 DEF SameCharges

(* So does the outcome itself. *)
LEMMA ToTerminalCharges ==
  ASSUME NEW l, LedgerInv(l), NEW s \in Seqs, NEW t \in Terminals
  PROVE  SameCharges(l, ToTerminal(l, s, t))
<1> DEFINE b == Started(l, s)
<1>1. SameCharges(l, b) /\ LedgerInv(b)
  BY StartedCharges, StartedKeeps
<1>2. ToTerminal(l, s, t) = IF b.state[s] = "IN_FLIGHT" THEN Transition(b, s, t) ELSE b
  BY Zenon DEF ToTerminal
<1> HIDE DEF b
<1>3. CASE b.state[s] = "IN_FLIGHT"
  <2>1. <<b.state[s], t>> \in LegalTransitions
    BY <1>3 DEF LegalTransitions
  <2>2. SameCharges(b, Transition(b, s, t))
    BY <1>1, <1>3, <2>1, TransitionCharges
  <2> QED
    BY <1>1, <1>2, <1>3, <2>2 DEF SameCharges
<1>4. CASE b.state[s] # "IN_FLIGHT"
  BY <1>1, <1>2, <1>4
<1> QED
  BY <1>3, <1>4

(* A bulk step dispatches the unseen seqs it takes. *)
LEMMA TerminalizeCharges ==
  ASSUME NEW l, LedgerInv(l), NEW S, NEW t \in Terminals
  PROVE  SameCharges(l, TerminalizeAll(l, S, t))
<1>1. /\ l \in Ledgers /\ l.state \in [Seqs -> States] /\ l.attempts \in [Seqs -> Nat]
  BY DEF LedgerInv, Ledgers
<1>2. /\ TerminalizeAll(l, S, t).state = [s \in Seqs |-> IF s \in S THEN t ELSE l.state[s]]
      /\ TerminalizeAll(l, S, t).attempts
           = [s \in Seqs |-> l.attempts[s] + One(s \in S /\ l.state[s] = "UNSEEN")]
  BY <1>1 DEF TerminalizeAll, Ledgers
<1>3. t # "UNSEEN"
  BY DEF Terminals
<1>4. ASSUME NEW s \in Seqs PROVE Charge(TerminalizeAll(l, S, t), s) = Charge(l, s)
  BY <1>1, <1>2, <1>3 DEF Charge, One
<1> QED
  BY <1>4 DEF SameCharges

(* A step either costs nothing or is the retry of a shard. *)
LEMMA StepCharges ==
  ASSUME IInv, [Next]_vars
  PROVE  \/ SameCharges(ledger, ledger') /\ UNCHANGED subsetAttempt
         \/ \E S \in Shards : ResetForRetry(S)
<1> DEFINE Free == SameCharges(ledger, ledger') /\ UNCHANGED subsetAttempt
<1>0. /\ LedgerInv(ledger) /\ ledger \in Ledgers
      /\ ledger.state \in [Seqs -> States] /\ ledger.attempts \in [Seqs -> Nat]
  BY DEF IInv, LedgerInv, Ledgers
<1>1. ASSUME UNCHANGED <<ledger, subsetAttempt>> PROVE Free
  BY <1>1 DEF SameCharges
<1>2. ASSUME NEW s \in Seqs, NoteInFlight(s) PROVE Free
  <2>1. ledger' = Started(ledger, s) /\ UNCHANGED subsetAttempt
    BY <1>2 DEF NoteInFlight
  <2>2. SameCharges(ledger, Started(ledger, s))
    BY <1>0, StartedCharges
  <2> QED
    BY <2>1, <2>2
<1>3. ASSUME NEW s \in Seqs, Heartbeat(s) \/ LeaseExpires(s) PROVE Free
  <2>1. /\ ledger'.state = ledger.state /\ ledger'.attempts = ledger.attempts
        /\ UNCHANGED subsetAttempt
    BY <1>0, <1>3 DEF Heartbeat, LeaseExpires, Renew, Age, Ledgers, callerVars
  <2> QED
    BY <2>1 DEF SameCharges, Charge
<1>4. ASSUME NEW s \in Seqs, NEW t \in Outcomes, SetTerminalEnvelope(s, t) PROVE Free
  <2>1. CASE TurnedAway(s, t)
    BY <1>1, <1>4, <2>1 DEF TurnedAway, SetTerminalEnvelope
  <2>2. CASE Accepted(s, t)
    <3>1. ledger' = ToTerminal(ledger, s, t) /\ t \in Terminals /\ UNCHANGED subsetAttempt
      BY <1>4, <2>2, AppenderAssumption DEF Accepted, SetTerminalEnvelope
    <3>2. SameCharges(ledger, ToTerminal(ledger, s, t))
      BY <1>0, <3>1, ToTerminalCharges
    <3> QED
      BY <3>1, <3>2
  <2> QED
    BY <1>4, <2>1, <2>2 DEF SetTerminalEnvelope
<1>5. ASSUME ReclaimExpiredLeases PROVE Free
  <2>1. /\ ledger' = TerminalizeAll(ledger, Expired(ledger), "FAIL")
        /\ UNCHANGED subsetAttempt
    BY <1>5 DEF ReclaimExpiredLeases, Reclaim, callerVars
  <2>2. SameCharges(ledger, TerminalizeAll(ledger, Expired(ledger), "FAIL"))
    <3>1. "FAIL" \in Terminals
      BY DEF Terminals
    <3> QED
      BY <1>0, <3>1, TerminalizeCharges
  <2> QED
    BY <2>1, <2>2
<1>6. ASSUME Abort \/ ApplyFails PROVE Free
  <2>1. AbortEffect /\ UNCHANGED subsetAttempt
    BY <1>6 DEF Abort, ApplyFails
  <2>2. CASE aborted
    BY <1>1, <2>1, <2>2 DEF AbortEffect
  <2>3. CASE ~aborted
    <3>1. ledger' = TerminalizeAll(ledger, InState(ledger, {"UNSEEN"} \cup Leased), "CANCEL")
      BY <2>1, <2>3 DEF AbortEffect
    <3>2. "CANCEL" \in Terminals
      BY DEF Terminals
    <3>3. SameCharges(ledger, TerminalizeAll(ledger, InState(ledger, {"UNSEEN"} \cup Leased), "CANCEL"))
      BY <1>0, <3>2, TerminalizeCharges
    <3> QED
      BY <2>1, <3>1, <3>3
  <2> QED
    BY <2>2, <2>3
<1>7. ASSUME CommitUnwritten \/ ApplySucceeds PROVE Free
  <2> DEFINE s == Head(batch).seq
  <2>1. /\ s \in Seqs /\ ledger.state[s] \in Terminals /\ UNCHANGED subsetAttempt
        /\ ledger'.state = [ledger.state EXCEPT ![s] = "COMMITTED"]
        /\ ledger'.attempts = ledger.attempts
    BY <1>7, CommitSteps, CommitIsNext, CommitMoves
  <2> HIDE DEF s
  <2>2. \A r \in Seqs : (ledger'.state[r] = "UNSEEN") = (ledger.state[r] = "UNSEEN")
    BY <1>0, <2>1 DEF Terminals
  <2> QED
    BY <2>1, <2>2 DEF SameCharges, Charge
<1>8. ASSUME \/ \E s \in Seqs : WaitForCapacity(s) \/ CapacityTimeout(s)
             \/ CallDrain \/ ScanHead \/ Collect \/ CollectEnds \/ BeginApply \/ EndBatch
             \/ Finally \/ Terminated \/ UNCHANGED vars
      PROVE Free
  <2>1. UNCHANGED <<ledger, subsetAttempt>>
    BY <1>8, CollectLooks
       DEF WaitForCapacity, CapacityTimeout, CallDrain, ScanHead, Collect, CollectEnds, BeginApply,
           EndBatch, Finally, Terminated, vars, callerVars
  <2> QED
    BY <1>1, <2>1
<1> HIDE DEF Free
<1>9. Free \/ \E S \in Shards : ResetForRetry(S)
  BY <1>2, <1>3, <1>4, <1>5, <1>6, <1>7, <1>8 DEF Next, Drain
<1> QED
  BY <1>9 DEF Free

(* A retry gives every seq of its shard one more attempt; a reset needs    *)
(* one.                                                                    *)
LEMMA RetryCharges ==
  ASSUME IInv, DispatchesCharged, NEW S \in Shards, ResetForRetry(S)
  PROVE  DispatchesCharged'
<1>1. /\ ledger' = ResetNonTerminal(ledger, S)
      /\ subsetAttempt' = [subsetAttempt EXCEPT ![S] = @ + 1]
      /\ subsetAttempt \in [Shards -> Nat]
      /\ S \in SUBSET Seqs
  BY AppenderAssumption DEF ResetForRetry, IInv, TypeOK
<1>2. /\ LedgerInv(ledger) /\ ledger \in Ledgers
      /\ ledger.state \in [Seqs -> States] /\ ledger.attempts \in [Seqs -> Nat]
  BY DEF IInv, LedgerInv, Ledgers
<1>3. ledger'.attempts = ledger.attempts
  BY <1>1, <1>2 DEF ResetNonTerminal, Ledgers
<1>4. \A s \in Seqs \ S : ledger'.state[s] = ledger.state[s]
  <2>1. ledger'.state
          = [s \in Seqs |-> IF s \in {r \in S : ledger.state[r] \in Leased} THEN "UNSEEN" ELSE ledger.state[s]]
    BY <1>1, <1>2 DEF ResetNonTerminal, Ledgers
  <2> QED
    BY <2>1
<1>5. ASSUME NEW s \in Seqs PROVE Charge(ledger', s) <= Budget(s)'
  <2>1. CASE s \in S
    <3>1. (CHOOSE T \in Shards : s \in T) = S
      BY <2>1, AppenderAssumption
    <3>2. Budget(s) = subsetAttempt[S] /\ Budget(s)' = subsetAttempt'[S]
      BY <2>1, <3>1 DEF Budget
    <3>3. Budget(s)' = Budget(s) + 1 /\ Budget(s) \in Nat
      BY <1>1, <3>2
    <3>4. Charge(ledger, s) <= Budget(s)
      BY DEF DispatchesCharged
    <3> QED
      BY <1>2, <1>3, <3>3, <3>4 DEF Charge, One
  <2>2. CASE s \notin S
    <3>1. Budget(s)' = Budget(s)
      <4>1. CASE \E T \in Shards : s \in T
        <5> DEFINE T == CHOOSE T \in Shards : s \in T
        <5>1. T \in Shards /\ s \in T
          BY <4>1
        <5>2. T # S
          BY <2>2, <5>1
        <5>3. subsetAttempt'[T] = subsetAttempt[T]
          BY <1>1, <5>1, <5>2
        <5> QED
          BY <4>1, <5>3 DEF Budget
      <4>2. CASE ~ \E T \in Shards : s \in T
        BY <4>2 DEF Budget
      <4> QED
        BY <4>1, <4>2
    <3>2. Charge(ledger', s) = Charge(ledger, s)
      BY <1>3, <1>4, <2>2 DEF Charge
    <3> QED
      BY <3>1, <3>2 DEF DispatchesCharged
  <2> QED
    BY <2>1, <2>2
<1> QED
  BY <1>5 DEF DispatchesCharged

(* A seq is dispatched at most once per attempt of its shard, whatever was *)
(* reclaimed, reset or cancelled in between.                               *)
THEOREM DispatchesWithinBudget == Spec => []AttemptsWithinBudget
<1>1. Init => DispatchesCharged
  <2> SUFFICES ASSUME Init, NEW s \in Seqs PROVE Charge(ledger, s) <= Budget(s)
    BY DEF DispatchesCharged
  <2>1. Charge(ledger, s) = 1
    BY DEF Init, NewLedger, Charge, One
  <2>2. Budget(s) = 1
    <3>1. CASE \E S \in Shards : s \in S
      <4>1. (CHOOSE S \in Shards : s \in S) \in Shards
        BY <3>1
      <4> QED
        BY <3>1, <4>1 DEF Init, Budget
    <3>2. CASE ~ \E S \in Shards : s \in S
      BY <3>2 DEF Budget
    <3> QED
      BY <3>1, <3>2
  <2> QED
    BY <2>1, <2>2
<1>2. IInv /\ DispatchesCharged /\ [Next]_vars => DispatchesCharged'
  <2> SUFFICES ASSUME IInv, DispatchesCharged, [Next]_vars PROVE DispatchesCharged'
    OBVIOUS
  <2>1. CASE SameCharges(ledger, ledger') /\ UNCHANGED subsetAttempt
    BY <2>1 DEF SameCharges, DispatchesCharged, Budget
  <2>2. CASE \E S \in Shards : ResetForRetry(S)
    BY <2>2, RetryCharges
  <2> QED
    BY <2>1, <2>2, StepCharges
<1>3. IInv /\ DispatchesCharged => AttemptsWithinBudget
  <2> SUFFICES ASSUME IInv, DispatchesCharged, NEW s \in Seqs
               PROVE  ledger.attempts[s] <= Budget(s)
    BY DEF AttemptsWithinBudget
  <2>1. ledger.attempts[s] \in Nat
    BY DEF IInv, TypeOK, Ledgers
  <2>2. ledger.attempts[s] + One(ledger.state[s] = "UNSEEN") <= Budget(s)
    BY DEF DispatchesCharged, Charge
  <2>3. Budget(s) \in Nat
    <3>1. CASE \E S \in Shards : s \in S
      <4>1. (CHOOSE S \in Shards : s \in S) \in Shards
        BY <3>1
      <4> QED
        BY <3>1, <4>1 DEF IInv, TypeOK, Budget
    <3>2. CASE ~ \E S \in Shards : s \in S
      BY <3>2 DEF Budget
    <3> QED
      BY <3>1, <3>2
  <2> QED
    BY <2>1, <2>2, <2>3 DEF One
<1> QED
  BY <1>1, <1>2, <1>3, Invariant, PTL DEF Spec

-----------------------------------------------------------------------------
(* No wakeup of drain() is lost *)

HeadTerminal == StateOf(ledger, ledger.nextCommitSeq) \in Terminals

(* When every seq is committed nothing is left at the cursor. *)
LEMMA NothingLeft ==
  ASSUME IInv, ledger.committedCount >= Cardinality(Seqs)
  PROVE  ~HeadTerminal
<1> DEFINE committed == InState(ledger, {"COMMITTED"})
<1>1. /\ LedgerInv(ledger) /\ ledger.committedCount = Cardinality(committed)
  BY DEF IInv, LedgerInv, CountersExact
<1>2. committed \subseteq Seqs
  BY DEF InState
<1>3. committed = Seqs
  <2>1. /\ IsFiniteSet(committed) /\ Cardinality(committed) \in Nat /\ Cardinality(Seqs) \in Nat
        /\ Cardinality(committed) = Cardinality(Seqs) => committed = Seqs
        /\ Cardinality(committed) <= Cardinality(Seqs)
    BY <1>2, SeqsAssumption, FS_Subset, FS_CardinalityType
  <2> QED
    BY <1>1, <2>1
<1>4. \A s \in Seqs : ledger.state[s] = "COMMITTED"
  BY <1>3 DEF InState
<1> QED
  BY <1>4 DEF HeadTerminal, StateOf, Terminals

(* A request to drain is served by a new round or remembered. *)
LEMMA RequestRemembered ==
  ASSUME IInv, RequestDrain, Yielded
  PROVE  \/ drain' = "scan"
         \/ drain' \in {"apply", "finally"} /\ flushRequested'
BY DEF RequestDrain, Yielded, IInv, TypeOK

(* A step that leaves drain() where it is keeps the property if it makes   *)
(* no head terminal.                                                       *)
LEMMA StillNotLost ==
  ASSUME DrainNotLost, UNCHANGED <<drainVars, aborted>>, HeadTerminal' => HeadTerminal
  PROVE  DrainNotLost'
BY DEF DrainNotLost, HeadTerminal, Yielded, drainVars

(* Every step keeps it. *)
LEMMA DrainNotLostStep ==
  ASSUME IInv, DrainNotLost, [Next]_vars
  PROVE  DrainNotLost'
<1>0. /\ LedgerInv(ledger) /\ ledger \in Ledgers /\ ledger.state \in [Seqs -> States]
      /\ drain \in {"idle", "scan", "collect", "commit", "apply", "finally"}
      /\ flushRequested \in BOOLEAN /\ aborted \in BOOLEAN
  BY DEF IInv, TypeOK, LedgerInv, Ledgers
<1>1. ASSUME UNCHANGED <<ledger, drainVars, aborted>> PROVE DrainNotLost'
  BY <1>1, StillNotLost DEF HeadTerminal
<1>2. ASSUME NEW s \in Seqs, NoteInFlight(s) PROVE DrainNotLost'
  <2>1. ledger' = Started(ledger, s) /\ UNCHANGED <<drainVars, aborted>>
    BY <1>2 DEF NoteInFlight
  <2>2. /\ Settles(ledger, Started(ledger, s))
        /\ Started(ledger, s).state
             = [ledger.state EXCEPT ![s] = IF @ \in {"UNSEEN", "DISPATCHED"} THEN "IN_FLIGHT" ELSE @]
    BY <1>0, StartedKeeps
  <2>3. HeadTerminal' => HeadTerminal
    BY <1>0, <2>1, <2>2 DEF HeadTerminal, StateOf, Settles, Terminals
  <2> QED
    BY <2>1, <2>3, StillNotLost
<1>3. ASSUME NEW s \in Seqs, Heartbeat(s) \/ LeaseExpires(s) PROVE DrainNotLost'
  <2>1. /\ ledger'.state = ledger.state /\ ledger'.nextCommitSeq = ledger.nextCommitSeq
        /\ UNCHANGED <<drainVars, aborted>>
    BY <1>0, <1>3 DEF Heartbeat, LeaseExpires, Renew, Age, Ledgers
  <2> QED
    BY <2>1, StillNotLost DEF HeadTerminal, StateOf
<1>4. ASSUME NEW S \in Shards, ResetForRetry(S) PROVE DrainNotLost'
  <2>1. /\ ledger' = ResetNonTerminal(ledger, S) /\ S \in SUBSET Seqs
        /\ UNCHANGED <<drainVars, aborted>>
    BY <1>4, AppenderAssumption DEF ResetForRetry
  <2>2. /\ ledger'.nextCommitSeq = ledger.nextCommitSeq
        /\ \A s \in Seqs : ledger'.state[s] = ledger.state[s] \/ ledger'.state[s] = "UNSEEN"
    BY <1>0, <2>1, ResetSettles DEF Settles
  <2>3. HeadTerminal' => HeadTerminal
    BY <2>2 DEF HeadTerminal, StateOf, Terminals
  <2> QED
    BY <2>1, <2>3, StillNotLost
<1>5. ASSUME RequestDrain, Yielded PROVE DrainNotLost'
  BY <1>5, RequestRemembered DEF DrainNotLost, Yielded
<1>6. ASSUME NEW s \in Seqs, NEW t \in Outcomes, SetTerminalEnvelope(s, t) PROVE DrainNotLost'
  BY <1>1, <1>5, <1>6 DEF SetTerminalEnvelope, TurnedAway, Accepted
<1>7. ASSUME ReclaimExpiredLeases \/ CallDrain PROVE DrainNotLost'
  BY <1>5, <1>7 DEF ReclaimExpiredLeases, CallDrain
<1>8. ASSUME Abort \/ ApplyFails PROVE DrainNotLost'
  <2>1. AbortEffect
    BY <1>8 DEF Abort, ApplyFails
  <2> QED
    BY <2>1 DEF AbortEffect, DrainNotLost
<1>9. ASSUME ScanHead PROVE DrainNotLost'
  BY <1>0, <1>9, NothingLeft DEF ScanHead, DrainNotLost, HeadTerminal, Yielded
<1>10. ASSUME CollectEnds PROVE DrainNotLost'
  <2>1. DrainedLedger = ledger
    BY NothingOutlives
  <2>2. CASE batch = <<>>
    <3>1. cursor = ledger.nextCommitSeq + 0
      BY <1>10, <2>2 DEF CollectEnds, IInv, BatchIsRun
    <3>2. cursor = ledger.nextCommitSeq
      BY <1>0, <3>1 DEF Ledgers
    <3> QED
      BY <1>10, <2>1, <3>2 DEF CollectEnds, DrainNotLost
  <2>3. CASE batch # <<>>
    BY <1>10, <2>3 DEF CollectEnds, DrainNotLost, Yielded
  <2> QED
    BY <2>2, <2>3
<1>11. ASSUME CommitUnwritten \/ ApplySucceeds PROVE DrainNotLost'
  <2>1. drain' = "commit"
    BY <1>11, CommitSteps, CommitIsNext
  <2> QED
    BY <2>1 DEF DrainNotLost, Yielded
<1>12. ASSUME Collect \/ BeginApply \/ EndBatch PROVE DrainNotLost'
  BY <1>12 DEF Collect, BeginApply, EndBatch, DrainNotLost, Yielded
<1>13. ASSUME Finally PROVE DrainNotLost'
  BY <1>0, <1>13 DEF Finally, DrainNotLost, Yielded
<1>14. ASSUME \/ \E s \in Seqs : WaitForCapacity(s) \/ CapacityTimeout(s)
              \/ Terminated \/ UNCHANGED vars
       PROVE DrainNotLost'
  <2>1. UNCHANGED <<ledger, drainVars, aborted>>
    BY <1>14 DEF WaitForCapacity, CapacityTimeout, Terminated, vars
  <2> QED
    BY <1>1, <2>1
<1> QED
  BY <1>2, <1>3, <1>4, <1>6, <1>7, <1>8, <1>9, <1>10, <1>11, <1>12, <1>13, <1>14 DEF Next, Drain

(* Whenever the head of the ledger is terminal, drain() is at work on it   *)
(* or has been asked to go round again.                                    *)
THEOREM DrainIsNotLost == Spec => []DrainNotLost
<1>1. Init => DrainNotLost
  <2> SUFFICES ASSUME Init, StartSeq \in Seqs PROVE ~HeadTerminal
    BY Bounds DEF DrainNotLost, HeadTerminal
  <2> QED
    BY DEF Init, NewLedger, HeadTerminal, StateOf, Terminals
<1>2. IInv /\ DrainNotLost /\ [Next]_vars => DrainNotLost'
  BY DrainNotLostStep
<1> QED
  BY <1>1, <1>2, Invariant, PTL DEF Spec

-----------------------------------------------------------------------------
(* No wakeup of a capacity waiter is lost *)

(* The gate holds a waiter back. *)
Held(s) ==
  /\ ~aborted
  /\ ~Bypasses(s, ledger)
  /\ ~Resumable(envelopes, bufferedBytes, maxSeenSeq, ledger)

(* While drain() rests, or has not found anything to commit yet, whoever   *)
(* waits does so rightly: waiters are let go at the end of each batch.     *)
RestingWaitersHeld ==
  drain \in {"idle", "scan", "finally"} \/ (drain = "collect" /\ batch = <<>>)
  => \A s \in Seqs : worker[s] = "waiting" => Held(s)

(* resumeHysteresisRatio lowers a limit, if it changes it at all. *)
LEMMA ReleaseLower ==
  ASSUME NEW limit \in Nat \ {0}
  PROVE  Release(limit) \in Nat /\ Release(limit) <= limit
<1>1. ResumeNum \in Nat /\ ResumeDen \in Nat /\ ResumeNum < ResumeDen /\ ResumeDen > 0
  BY AppenderAssumption
<1> DEFINE product == limit * ResumeNum
           q == product \div ResumeDen
<1>2. product \in Nat /\ product <= limit * ResumeDen
  BY <1>1
<1>3. q \in Nat /\ q * ResumeDen <= product
  <2> HIDE DEF product
  <2>1. q \in Int /\ ResumeDen * q <= product /\ product < ResumeDen * (q + 1)
    BY <1>1, <1>2
  <2> HIDE DEF q
  <2>2. q >= 0
    BY <1>1, <1>2, <2>1
  <2> QED
    BY <1>1, <2>1, <2>2
<1> HIDE DEF product, q
<1>4. q <= limit
  BY <1>1, <1>2, <1>3
<1> QED
  BY <1>3, <1>4 DEF Release, product, q

(* Whoever the gate stops on arrival would not be let go in the same state. *)
LEMMA CongestedHolds ==
  ASSUME IInv, Congested
  PROVE  ~Resumable(envelopes, bufferedBytes, maxSeenSeq, ledger)
<1>1. /\ {MaxPending, MaxPendingBytes, CommitLagHard} \subseteq Nat \ {0}
  BY AppenderAssumption
<1>2. /\ Release(MaxPending) \in Nat /\ Release(MaxPending) <= MaxPending
      /\ Release(MaxPendingBytes) \in Nat /\ Release(MaxPendingBytes) <= MaxPendingBytes
      /\ Release(CommitLagHard) \in Nat /\ Release(CommitLagHard) <= CommitLagHard
  BY <1>1, ReleaseLower
<1>3. /\ bufferedBytes \in Nat /\ Lag(maxSeenSeq, ledger) \in Int
      /\ Cardinality(Pending(envelopes)) \in Nat
  <2>1. Pending(envelopes) \subseteq Seqs
    BY DEF Pending
  <2>2. Cardinality(Pending(envelopes)) \in Nat
    BY <2>1, SeqsAssumption, FS_Subset, FS_CardinalityType
  <2> QED
    BY <2>2 DEF IInv, TypeOK, Lag, Ledgers
<1>4. MaxPending \in Nat /\ MaxPendingBytes \in Nat /\ CommitLagHard \in Nat
  BY <1>1
<1> QED
  BY <1>2, <1>3, <1>4 DEF Congested, Resumable

(* A step that moves neither the cursor nor the envelopes, and lets the    *)
(* last seq seen only grow, opens the gate for nobody.                     *)
LEMMA StillHeld ==
  ASSUME IInv, UNCHANGED <<envelopes, bufferedBytes, aborted>>,
         ledger'.nextCommitSeq = ledger.nextCommitSeq,
         maxSeenSeq' \in Int, maxSeenSeq' >= maxSeenSeq, NEW s, Held(s)
  PROVE  Held(s)'
<1>1. /\ maxSeenSeq \in Int /\ ledger.nextCommitSeq \in Int
      /\ Release(CommitLagHard) \in Nat
  BY AppenderAssumption, ReleaseLower DEF IInv, TypeOK, Ledgers
<1>2. Lag(maxSeenSeq', ledger') <= Release(CommitLagHard)
        => Lag(maxSeenSeq, ledger) <= Release(CommitLagHard)
  BY <1>1 DEF Lag
<1> QED
  BY <1>2 DEF Held, Bypasses, Resumable

(* Whoever still waits after resolveCapacityWaiters is held back. *)
LEMMA LeftBehind ==
  ASSUME NEW w, NEW env, NEW bytes, NEW seen, NEW l, NEW s \in Seqs,
         ResolveWaiters(w, env, bytes, seen, l)[s] = "waiting"
  PROVE  ~Bypasses(s, l) /\ ~Resumable(env, bytes, seen, l)
BY DEF ResolveWaiters

(* Every step keeps the waiters rightly held. *)
LEMMA WaitersStep ==
  ASSUME IInv, SettledInv, RestingWaitersHeld, [Next]_vars
  PROVE  RestingWaitersHeld'
<1>0. /\ LedgerInv(ledger) /\ ledger \in Ledgers /\ maxSeenSeq \in Int /\ aborted \in BOOLEAN
      /\ drain \in {"idle", "scan", "collect", "commit", "apply", "finally"}
      /\ worker \in [Seqs -> {"idle", "waiting", "ready", "running", "settled", "failed"}]
  BY DEF IInv, TypeOK, LedgerInv
<1>1. ASSUME UNCHANGED <<envelopes, bufferedBytes, aborted>>,
             ledger'.nextCommitSeq = ledger.nextCommitSeq,
             maxSeenSeq' \in Int, maxSeenSeq' >= maxSeenSeq,
             drain' = drain \/ drain = "idle", batch' = batch, Yielded,
             \A s \in Seqs : worker'[s] = "waiting" => worker[s] = "waiting"
      PROVE  RestingWaitersHeld'
  <2>1. \A s \in Seqs : Held(s) => Held(s)'
    BY <1>1, StillHeld
  <2> QED
    BY <1>1, <2>1 DEF RestingWaitersHeld, Yielded
<1>2. ASSUME NEW s \in Seqs, WaitForCapacity(s) PROVE RestingWaitersHeld'
  <2>1. /\ UNCHANGED <<ledger, envelopes, bufferedBytes, maxSeenSeq, aborted, drain, batch>>
        /\ worker' = [worker EXCEPT ![s] = IF aborted THEN "failed"
                                           ELSE IF Bypasses(s, ledger) \/ ~Congested THEN "ready"
                                           ELSE "waiting"]
    BY <1>2 DEF WaitForCapacity, drainVars
  <2>2. \A r \in Seqs : Held(r)' = Held(r)
    BY <2>1 DEF Held
  <2>3. worker'[s] = "waiting" => Held(s)
    BY <1>0, <2>1, CongestedHolds DEF Held
  <2> QED
    BY <1>0, <2>1, <2>2, <2>3 DEF RestingWaitersHeld
<1>3. ASSUME NEW s \in Seqs, CapacityTimeout(s) PROVE RestingWaitersHeld'
  BY <1>0, <1>1, <1>3 DEF CapacityTimeout, drainVars
<1>4. ASSUME NEW s \in Seqs, NoteInFlight(s) PROVE RestingWaitersHeld'
  <2>1. ledger'.nextCommitSeq = ledger.nextCommitSeq
    <3>1. Settles(ledger, Started(ledger, s)) /\ ledger' = Started(ledger, s)
      BY <1>0, <1>4, StartedKeeps DEF NoteInFlight
    <3> QED
      BY <3>1 DEF Settles
  <2> QED
    BY <1>0, <1>1, <1>4, <2>1 DEF NoteInFlight, drainVars
<1>5. ASSUME NEW s \in Seqs, Heartbeat(s) \/ LeaseExpires(s) PROVE RestingWaitersHeld'
  <2>1. ledger'.nextCommitSeq = ledger.nextCommitSeq
    BY <1>0, <1>5 DEF Heartbeat, LeaseExpires, Renew, Age, Ledgers
  <2> QED
    BY <1>0, <1>1, <1>5, <2>1 DEF Heartbeat, LeaseExpires, drainVars, callerVars
<1>6. ASSUME NEW s \in Seqs, NEW t \in Outcomes, SetTerminalEnvelope(s, t) PROVE RestingWaitersHeld'
  <2>1. CASE TurnedAway(s, t)
    <3>1. maxSeenSeq' \in Int /\ maxSeenSeq' >= maxSeenSeq
      BY <1>0, <2>1, SeqsAssumption DEF TurnedAway
    <3> QED
      BY <1>0, <1>1, <1>6, <2>1, <3>1 DEF TurnedAway, SetTerminalEnvelope, drainVars
  <2>2. CASE Accepted(s, t)
    <3>1. ~aborted' /\ worker' = ResolveWaiters([worker EXCEPT ![s] = "settled"],
                              envelopes', bufferedBytes', maxSeenSeq', ledger')
      BY <1>6, <2>2 DEF Accepted, SetTerminalEnvelope
    <3>2. \A r \in Seqs : worker'[r] = "waiting"
            => ~Bypasses(r, ledger') /\ ~Resumable(envelopes', bufferedBytes', maxSeenSeq', ledger')
      BY <3>1, LeftBehind
    <3> QED
      BY <3>1, <3>2 DEF RestingWaitersHeld, Held
  <2> QED
    BY <1>6, <2>1, <2>2 DEF SetTerminalEnvelope
<1>7. ASSUME ReclaimExpiredLeases \/ CallDrain PROVE RestingWaitersHeld'
  <2>1. ledger'.nextCommitSeq = ledger.nextCommitSeq
    BY <1>0, <1>7, ReclaimMoves DEF ReclaimExpiredLeases, CallDrain
  <2>2. (drain' = drain \/ drain = "idle") /\ batch' = batch
    BY <1>7 DEF ReclaimExpiredLeases, CallDrain, RequestDrain
  <2> QED
    BY <1>0, <1>1, <1>7, <2>1, <2>2 DEF ReclaimExpiredLeases, CallDrain, callerVars
<1>8. ASSUME NEW S \in Shards, ResetForRetry(S) PROVE RestingWaitersHeld'
  <2> DEFINE rerun == [s \in Seqs |-> IF s \in S THEN "idle" ELSE worker[s]]
  <2>1. /\ ledger' = ResetNonTerminal(ledger, S) /\ S \in SUBSET Seqs
        /\ worker' = IF ledger'.state = ledger.state THEN rerun
                     ELSE ResolveWaiters(rerun, envelopes, bufferedBytes, maxSeenSeq, ledger')
        /\ UNCHANGED <<envelopes, bufferedBytes, maxSeenSeq, aborted, drain, batch>>
    BY <1>8, AppenderAssumption DEF ResetForRetry, drainVars
  <2>2. ledger'.nextCommitSeq = ledger.nextCommitSeq
    BY <1>0, <2>1, ResetKeeps
  <2>3. \A s \in Seqs : rerun[s] = "waiting" => worker[s] = "waiting"
    BY <1>0
  <2> HIDE DEF rerun
  <2>4. \A s \in Seqs : worker'[s] = "waiting" => worker[s] = "waiting"
    BY <2>1, <2>3, WokenWaited
  <2>5. maxSeenSeq' \in Int /\ maxSeenSeq' >= maxSeenSeq /\ Yielded
    BY <1>0, <1>8, <2>1 DEF ResetForRetry
  <2> QED
    BY <1>1, <2>1, <2>2, <2>4, <2>5
<1>9. ASSUME Abort \/ ApplyFails PROVE RestingWaitersHeld'
  <2>1. AbortEffect
    BY <1>9 DEF Abort, ApplyFails
  <2> QED
    BY <2>1, AbortSettles DEF RestingWaitersHeld
<1>10. ASSUME ScanHead \/ Finally \/ UNCHANGED vars PROVE RestingWaitersHeld'
  <2>1. /\ UNCHANGED <<ledger, envelopes, bufferedBytes, maxSeenSeq, aborted, worker>>
        /\ RestingWaitersHeld =>
             \/ \A s \in Seqs : worker[s] = "waiting" => Held(s)
             \/ UNCHANGED <<drain, batch>>
    BY <1>10 DEF ScanHead, Finally, vars, drainVars, callerVars, RestingWaitersHeld
  <2> QED
    BY <2>1 DEF RestingWaitersHeld, Held
<1>11. ASSUME CollectEnds PROVE RestingWaitersHeld'
  BY <1>11 DEF CollectEnds, callerVars, RestingWaitersHeld, Held
<1>12. ASSUME Collect PROVE RestingWaitersHeld'
  <2>1. drain' = "collect" /\ batch' # <<>>
    <3>1. batch \in Seq(Items) /\ \E item : batch' = Append(batch, item) /\ item \in Items
      <4>1. cursor \in Seqs /\ DrainedLedger = ledger
        BY <1>12, CollectLooks, NothingOutlives
      <4>2. ledger.state[cursor] \in Terminals
        BY <1>12, <4>1 DEF Collect, StateOf
      <4>3. [seq |-> cursor, outcome |-> ledger.state[cursor]] \in Items
        BY <4>1, <4>2 DEF Items
      <4>4. batch' = Append(batch, [seq |-> cursor, outcome |-> ledger.state[cursor]])
        BY <1>12, <4>1 DEF Collect
      <4> QED
        BY <4>3, <4>4 DEF IInv, TypeOK
    <3> QED
      BY <1>12, <3>1 DEF Collect
  <2> QED
    BY <2>1 DEF RestingWaitersHeld
<1>13. ASSUME CommitUnwritten \/ ApplySucceeds \/ BeginApply PROVE RestingWaitersHeld'
  <2>1. drain' \in {"commit", "apply"}
    BY <1>13, CommitSteps, CommitIsNext DEF BeginApply
  <2> QED
    BY <2>1 DEF RestingWaitersHeld
<1>14. ASSUME EndBatch PROVE RestingWaitersHeld'
  <2>1. /\ UNCHANGED <<ledger, envelopes, bufferedBytes, maxSeenSeq, aborted>>
        /\ worker' = ResolveWaiters(worker, envelopes, bufferedBytes, maxSeenSeq, ledger)
    BY <1>14 DEF EndBatch
  <2>2. \A s \in Seqs : worker'[s] = "waiting"
          => /\ worker[s] = "waiting"
             /\ ~Bypasses(s, ledger) /\ ~Resumable(envelopes, bufferedBytes, maxSeenSeq, ledger)
    BY <2>1, LeftBehind, WokenWaited
  <2>3. aborted => \A s \in Seqs : worker[s] # "waiting"
    BY DEF SettledInv, AbortSettlesEverything
  <2> QED
    BY <2>1, <2>2, <2>3 DEF RestingWaitersHeld, Held
<1> QED
  BY <1>2, <1>3, <1>4, <1>5, <1>6, <1>7, <1>8, <1>9, <1>10, <1>11, <1>12, <1>13, <1>14
     DEF Next, Drain, Terminated

(* Whenever drain() rests, a caller who waits for capacity is one the gate *)
(* would hold back now: nobody is forgotten.                               *)
THEOREM WaitersAreRightlyHeld == Spec => []WaitersRightlyHeld
<1>1. Init => RestingWaitersHeld
  BY DEF Init, RestingWaitersHeld
<1>2. IInv /\ SettledInv /\ RestingWaitersHeld /\ [Next]_vars => RestingWaitersHeld'
  BY WaitersStep
<1>3. RestingWaitersHeld => WaitersRightlyHeld
  BY DEF RestingWaitersHeld, WaitersRightlyHeld, Held
<1> QED
  BY <1>1, <1>2, <1>3, Invariant, SettledAlways, PTL DEF Spec

-----------------------------------------------------------------------------
(* The writes are the successful commits *)

(* Nothing is written by a commit of an unsuccessful seq. *)
LEMMA UnwrittenCommit ==
  ASSUME NEW seqs \in Seq(Seqs), NEW records \in Seq(Items), NEW item \in Items,
         WrittenInOrder(seqs, records), item.outcome # "SUCCESS"
  PROVE  WrittenInOrder(seqs, Append(records, item))
<1> DEFINE more == Append(records, item)
<1>1. /\ Len(records) \in Nat /\ Len(more) = Len(records) + 1
      /\ more[Len(records) + 1] = item
      /\ \A i \in 1..Len(records) : more[i] = records[i]
  OBVIOUS
<1>2. PICK position \in [1..Len(seqs) -> 1..Len(records)] :
        /\ \A i, j \in 1..Len(seqs) : i < j => position[i] < position[j]
        /\ \A i \in 1..Len(seqs) : records[position[i]].seq = seqs[i]
        /\ {position[i] : i \in 1..Len(seqs)}
             = {j \in 1..Len(records) : records[j].outcome = "SUCCESS"}
  BY DEF WrittenInOrder
<1> HIDE DEF more
<1>3. position \in [1..Len(seqs) -> 1..Len(more)]
  BY <1>1
<1>4. \A i \in 1..Len(seqs) : more[position[i]].seq = seqs[i]
  BY <1>1, <1>2
<1>5. {j \in 1..Len(more) : more[j].outcome = "SUCCESS"}
        = {j \in 1..Len(records) : records[j].outcome = "SUCCESS"}
  BY <1>1
<1>6. WrittenInOrder(seqs, more)
  BY <1>2, <1>3, <1>4, <1>5 DEF WrittenInOrder
<1> QED
  BY <1>6 DEF more

(* A successful commit writes its seq as the last one. *)
LEMMA WrittenCommit ==
  ASSUME NEW seqs \in Seq(Seqs), NEW records \in Seq(Items), NEW item \in Items,
         WrittenInOrder(seqs, records), item.outcome = "SUCCESS"
  PROVE  WrittenInOrder(Append(seqs, item.seq), Append(records, item))
<1> DEFINE more == Append(records, item)
           then == Append(seqs, item.seq)
<1>1. /\ Len(records) \in Nat /\ Len(more) = Len(records) + 1
      /\ more[Len(records) + 1] = item
      /\ \A i \in 1..Len(records) : more[i] = records[i]
  OBVIOUS
<1>2. /\ Len(seqs) \in Nat /\ Len(then) = Len(seqs) + 1
      /\ then[Len(seqs) + 1] = item.seq
      /\ \A i \in 1..Len(seqs) : then[i] = seqs[i]
  BY DEF Items
<1>3. PICK position \in [1..Len(seqs) -> 1..Len(records)] :
        /\ \A i, j \in 1..Len(seqs) : i < j => position[i] < position[j]
        /\ \A i \in 1..Len(seqs) : records[position[i]].seq = seqs[i]
        /\ {position[i] : i \in 1..Len(seqs)}
             = {j \in 1..Len(records) : records[j].outcome = "SUCCESS"}
  BY DEF WrittenInOrder
<1> DEFINE next == [i \in 1..Len(then) |-> IF i = Len(then) THEN Len(more) ELSE position[i]]
<1> HIDE DEF more, then
<1>4. /\ \A i \in 1..Len(then) : i \in 1..Len(seqs) \/ i = Len(then)
      /\ \A i \in 1..Len(seqs) : i \in 1..Len(then) /\ i # Len(then)
      /\ Len(then) \in 1..Len(then)
  BY <1>2
<1>5. /\ next \in [1..Len(then) -> 1..Len(more)]
      /\ next[Len(then)] = Len(more)
      /\ \A i \in 1..Len(seqs) : next[i] = position[i] /\ position[i] \in 1..Len(records)
  <2>1. \A i \in 1..Len(seqs) : position[i] \in 1..Len(records) /\ position[i] \in 1..Len(more)
    BY <1>1
  <2>2. Len(more) \in 1..Len(more)
    BY <1>1
  <2> QED
    BY <1>4, <2>1, <2>2
<1> HIDE DEF next
<1>6. ASSUME NEW i \in 1..Len(then), NEW j \in 1..Len(then), i < j PROVE next[i] < next[j]
  <2>1. i \in 1..Len(seqs)
    BY <1>2, <1>6
  <2>2. CASE j = Len(then)
    BY <1>1, <1>5, <2>1, <2>2
  <2>3. CASE j \in 1..Len(seqs)
    BY <1>3, <1>5, <1>6, <2>1, <2>3
  <2> QED
    BY <1>4, <2>2, <2>3
<1>7. \A i \in 1..Len(then) : more[next[i]].seq = then[i]
  BY <1>1, <1>2, <1>3, <1>5, <1>4
<1>8. {next[i] : i \in 1..Len(then)} = {position[i] : i \in 1..Len(seqs)} \cup {Len(more)}
  <2>1. \A i \in 1..Len(then) : next[i] \in {position[j] : j \in 1..Len(seqs)} \cup {Len(more)}
    BY <1>5, <1>4
  <2>2. \A i \in 1..Len(seqs) : position[i] \in {next[j] : j \in 1..Len(then)}
    BY <1>5, <1>4
  <2>3. Len(more) \in {next[j] : j \in 1..Len(then)}
    BY <1>5, <1>4
  <2> QED
    BY <2>1, <2>2, <2>3
<1>9. {j \in 1..Len(more) : more[j].outcome = "SUCCESS"}
        = {j \in 1..Len(records) : records[j].outcome = "SUCCESS"} \cup {Len(more)}
  BY <1>1
<1>10. WrittenInOrder(then, more)
  BY <1>3, <1>5, <1>6, <1>7, <1>8, <1>9 DEF WrittenInOrder
<1> QED
  BY <1>10 DEF more, then

(* Until drain() has given up a write, the writes are exactly the          *)
(* successful commits, and only a successful result is being written.      *)
WritesCommitted ==
  /\ AppliedMatchesJournal
  /\ drain \in {"collect", "commit", "apply"} => WrittenInOrder(applied, commitRecords)
  /\ drain = "apply" => Head(batch).outcome = "SUCCESS"

(* Nothing is written and nothing is committed at first. *)
LEMMA WritesInit == Init => WritesCommitted
<1> SUFFICES ASSUME Init PROVE WritesCommitted
  OBVIOUS
<1>1. applied = <<>> /\ commitRecords = <<>> /\ drain = "idle"
  BY DEF Init
<1>2. WrittenInOrder(applied, commitRecords)
  <2> DEFINE none == [i \in 1..0 |-> 1]
  <2>1. Len(applied) = 0 /\ Len(commitRecords) = 0 /\ 1..0 = {}
    BY <1>1
  <2>2. none \in [1..0 -> 1..0]
    BY <2>1
  <2>3. {none[i] : i \in 1..0} = {} /\ {j \in 1..0 : commitRecords[j].outcome = "SUCCESS"} = {}
    BY <2>1
  <2> HIDE DEF none
  <2> QED
    BY <2>1, <2>2, <2>3 DEF WrittenInOrder
<1> QED
  BY <1>1, <1>2 DEF WritesCommitted, AppliedMatchesJournal

(* Every step keeps the writes in step with the journal. *)
LEMMA WritesStep ==
  ASSUME IInv, SettledInv, WritesCommitted, [Next]_vars
  PROVE  WritesCommitted'
<1>0. /\ applied \in Seq(Seqs) /\ commitRecords \in Seq(Items) /\ batch \in Seq(Items)
      /\ drain \in {"idle", "scan", "collect", "commit", "apply", "finally"}
      /\ aborted \in BOOLEAN
  BY DEF IInv, TypeOK
<1>1. ASSUME UNCHANGED <<applied, commitRecords, batch>>, aborted => aborted',
             drain' = drain \/ drain' \in {"idle", "scan", "finally"}
      PROVE  WritesCommitted'
  BY <1>1 DEF WritesCommitted, AppliedMatchesJournal
<1>2. ASSUME NEW s \in Seqs,
             \/ WaitForCapacity(s) \/ CapacityTimeout(s) \/ NoteInFlight(s)
             \/ Heartbeat(s) \/ LeaseExpires(s)
      PROVE  WritesCommitted'
  BY <1>1, <1>2
     DEF WaitForCapacity, CapacityTimeout, NoteInFlight, Heartbeat, LeaseExpires, drainVars,
         journalVars
<1>3. ASSUME NEW s \in Seqs, NEW t \in Outcomes, SetTerminalEnvelope(s, t)
      PROVE  WritesCommitted'
  BY <1>1, <1>3 DEF SetTerminalEnvelope, TurnedAway, Accepted, RequestDrain, drainVars, journalVars
<1>4. ASSUME ReclaimExpiredLeases \/ CallDrain PROVE WritesCommitted'
  BY <1>1, <1>4 DEF ReclaimExpiredLeases, CallDrain, RequestDrain, journalVars
<1>5. ASSUME NEW S \in Shards, ResetForRetry(S) PROVE WritesCommitted'
  BY <1>1, <1>5 DEF ResetForRetry, drainVars, journalVars
<1>6. ASSUME Abort PROVE WritesCommitted'
  BY <1>1, <1>6 DEF Abort, AbortEffect, drainVars, journalVars
<1>7. ASSUME ScanHead PROVE WritesCommitted'
  <2>1. /\ UNCHANGED <<applied, commitRecords, aborted>>
        /\ drain' = IF aborted \/ ledger.committedCount >= Cardinality(Seqs)
                    THEN "finally" ELSE "collect"
    BY <1>7 DEF ScanHead, journalVars
  <2>2. ~aborted => WrittenInOrder(applied, commitRecords)
    BY DEF WritesCommitted, AppliedMatchesJournal
  <2> QED
    BY <2>1, <2>2 DEF WritesCommitted, AppliedMatchesJournal
<1>8. ASSUME Collect \/ CollectEnds \/ EndBatch \/ Finally PROVE WritesCommitted'
  <2>1. /\ UNCHANGED <<applied, commitRecords, aborted>>
        /\ drain' \in {"collect", "commit"} => drain \in {"collect", "commit"}
        /\ drain' # "apply"
    BY <1>8 DEF Collect, CollectEnds, EndBatch, Finally, journalVars
  <2> QED
    BY <1>0, <2>1 DEF WritesCommitted, AppliedMatchesJournal
<1>9. ASSUME BeginApply PROVE WritesCommitted'
  BY <1>9 DEF BeginApply, journalVars, WritesCommitted, AppliedMatchesJournal
<1>10. ASSUME CommitUnwritten \/ ApplySucceeds PROVE WritesCommitted'
  <2> DEFINE item == Head(batch)
  <2>1. /\ item \in Items
        /\ commitRecords' = Append(commitRecords, item)
        /\ drain' = "commit"
        /\ drain \in {"commit", "apply"}
    BY <1>10, CommitSteps, CommitIsNext
  <2>2. WrittenInOrder(applied, commitRecords)
    BY <2>1 DEF WritesCommitted
  <2>3. \/ applied' = applied /\ item.outcome # "SUCCESS"
        \/ applied' = Append(applied, item.seq) /\ item.outcome = "SUCCESS"
    BY <1>10 DEF CommitUnwritten, ApplySucceeds, WritesCommitted
  <2> HIDE DEF item
  <2>4. WrittenInOrder(applied', commitRecords')
    BY <1>0, <2>1, <2>2, <2>3, UnwrittenCommit, WrittenCommit
  <2>5. WrittenInOrder(applied, commitRecords)'
    BY <2>4 DEF WrittenInOrder
  <2> QED
    BY <2>1, <2>5 DEF WritesCommitted, AppliedMatchesJournal
<1>11. ASSUME ApplyFails PROVE WritesCommitted'
  <2> DEFINE s == Head(batch).seq
  <2>1. /\ drain = "apply" /\ drain' = "finally" /\ aborted' = TRUE
        /\ applied' \in {applied, Append(applied, s)}
        /\ commitRecords' = commitRecords
        /\ WrittenInOrder(applied, commitRecords)
    BY <1>11 DEF ApplyFails, AbortEffect, journalVars, WritesCommitted
  <2>2. s \in Seqs
    <3>1. batch # <<>>
      BY <2>1 DEF IInv, BatchIsRun
    <3>2. Head(batch) \in Items
      BY <1>0, <3>1
    <3> QED
      BY <3>2 DEF Items
  <2> HIDE DEF s
  <2>3. CASE applied' = applied
    BY <2>1, <2>3 DEF WritesCommitted, AppliedMatchesJournal
  <2>4. CASE applied' = Append(applied, s)
    <3>1. /\ Append(applied, s) # <<>>
          /\ Len(Append(applied, s)) - 1 = Len(applied)
          /\ SubSeq(Append(applied, s), 1, Len(applied)) = applied
      BY <1>0, <2>2
    <3>2. applied' # <<>> /\ SubSeq(applied', 1, Len(applied') - 1) = applied
      BY <2>4, <3>1
    <3>3. WrittenInOrder(SubSeq(applied, 1, Len(applied) - 1), commitRecords)'
      BY <2>1, <3>2 DEF WrittenInOrder
    <3> QED
      BY <2>1, <3>2, <3>3 DEF WritesCommitted, AppliedMatchesJournal
  <2> QED
    BY <2>1, <2>3, <2>4
<1>12. ASSUME Terminated \/ UNCHANGED vars PROVE WritesCommitted'
  BY <1>1, <1>12 DEF Terminated, vars, drainVars, journalVars
<1> QED
  BY <1>2, <1>3, <1>4, <1>5, <1>6, <1>7, <1>8, <1>9, <1>10, <1>11, <1>12 DEF Next, Drain

(* The writes stay in step with the journal in every behaviour. *)
LEMMA WritesAlways == Spec => []WritesCommitted
<1>1. IInv /\ SettledInv /\ WritesCommitted /\ [Next]_vars => WritesCommitted'
  BY WritesStep
<1> QED
  BY <1>1, WritesInit, Invariant, SettledAlways, PTL DEF Spec

(* What reaches the index is the journal's successful commits, in their    *)
(* order and once each; only an abort may leave one write uncommitted.     *)
THEOREM WritesMatchJournal == Spec => []AppliedMatchesJournal
<1>1. WritesCommitted => AppliedMatchesJournal
  BY DEF WritesCommitted
<1> QED
  BY <1>1, WritesAlways, PTL

-----------------------------------------------------------------------------
(* The buffered bytes *)

(* The size of the result held for each seq. *)
HeldSizes == [s \in Seqs |-> HeldBytes(s)]

(* Taking a result in, or letting one go, counts as much as it changes. *)
LEMMA HeldChange ==
  ASSUME IInv, BytesExact, NEW s \in Seqs, NEW env \in Envelopes,
         envelopes' = [envelopes EXCEPT ![s] = env],
         bufferedBytes' = Dec(bufferedBytes, HeldBytes(s)) + env.bytes
  PROVE  BytesExact'
<1>1. /\ envelopes \in [Seqs -> Envelopes] /\ envelopes' \in [Seqs -> Envelopes]
      /\ IsFiniteSet(Seqs) /\ env.bytes \in Nat
  BY SeqsAssumption DEF IInv, TypeOK, Envelopes
<1>2. HeldSizes \in [Seqs -> Nat] /\ HeldSizes' \in [Seqs -> Nat]
  BY <1>1 DEF HeldSizes, HeldBytes, Envelopes
<1>3. /\ \A r \in Seqs \ {s} : HeldSizes'[r] = HeldSizes[r]
      /\ HeldSizes'[s] = env.bytes /\ HeldSizes[s] = HeldBytes(s)
  BY <1>1 DEF HeldSizes, HeldBytes
<1>4. /\ Total(HeldSizes, Seqs) \in Nat /\ Total(HeldSizes, Seqs) >= HeldSizes[s]
      /\ Total(HeldSizes', Seqs) = Total(HeldSizes, Seqs) - HeldSizes[s] + HeldSizes'[s]
  BY <1>1, <1>2, <1>3, TotalChange
<1>5. bufferedBytes = Total(HeldSizes, Seqs)
  BY DEF BytesExact, HeldSizes
<1>6. HeldSizes[s] \in Nat
  BY <1>2
<1>7. bufferedBytes' = Total(HeldSizes', Seqs)
  BY <1>1, <1>3, <1>4, <1>5, <1>6 DEF Dec
<1> QED
  BY <1>7 DEF BytesExact, HeldSizes

(* What leaves every size as it is keeps the count. *)
LEMMA HeldSame ==
  ASSUME BytesExact, UNCHANGED bufferedBytes,
         \A s \in Seqs : envelopes'[s].bytes = envelopes[s].bytes
  PROVE  BytesExact'
<1>1. HeldSizes' = HeldSizes
  BY DEF HeldSizes, HeldBytes
<1>2. bufferedBytes = Total(HeldSizes, Seqs)
  BY DEF BytesExact, HeldSizes
<1>3. bufferedBytes' = Total(HeldSizes', Seqs)
  BY <1>1, <1>2
<1> QED
  BY <1>3 DEF BytesExact, HeldSizes

(* Empty envelopes hold nothing. *)
LEMMA HeldNothing ==
  envelopes = [s \in Seqs |-> NoEnvelope] /\ bufferedBytes = 0 => BytesExact
<1> SUFFICES ASSUME envelopes = [s \in Seqs |-> NoEnvelope], bufferedBytes = 0
             PROVE  BytesExact
  OBVIOUS
<1>1. \A s \in Seqs : HeldSizes[s] = 0
  BY DEF HeldSizes, HeldBytes, NoEnvelope
<1>2. Total(HeldSizes, Seqs) = 0
  BY <1>1, SeqsAssumption, TotalZero
<1> QED
  BY <1>2 DEF BytesExact, HeldSizes

(* Every step keeps the count. *)
LEMMA BytesStep ==
  ASSUME IInv, BytesExact, [Next]_vars
  PROVE  BytesExact'
<1>1. ASSUME UNCHANGED <<envelopes, bufferedBytes>> PROVE BytesExact'
  BY <1>1, HeldSame
<1>2. ASSUME NEW s \in Seqs,
             \/ WaitForCapacity(s) \/ CapacityTimeout(s) \/ NoteInFlight(s)
             \/ Heartbeat(s) \/ LeaseExpires(s)
      PROVE  BytesExact'
  BY <1>1, <1>2 DEF WaitForCapacity, CapacityTimeout, NoteInFlight, Heartbeat, LeaseExpires
<1>3. ASSUME NEW s \in Seqs, NEW t \in Outcomes, SetTerminalEnvelope(s, t) PROVE BytesExact'
  <2>1. CASE TurnedAway(s, t)
    BY <1>1, <2>1 DEF TurnedAway
  <2>2. CASE Accepted(s, t)
    <3> DEFINE bytes == IF t = "SUCCESS" THEN ResultBytes[s] ELSE HeldBytes(s)
               env == [terminal |-> t, bytes |-> bytes]
    <3>1. bytes \in Nat /\ t \in Terminals
      BY AppenderAssumption DEF IInv, TypeOK, Envelopes, HeldBytes
    <3>2. /\ envelopes' = [envelopes EXCEPT ![s] = env]
          /\ bufferedBytes' = Dec(bufferedBytes, HeldBytes(s)) + bytes
      BY <2>2 DEF Accepted
    <3> HIDE DEF bytes
    <3>3. env \in Envelopes /\ env.bytes = bytes
      BY <3>1 DEF Envelopes
    <3> HIDE DEF env
    <3> QED
      BY <3>2, <3>3, HeldChange
  <2> QED
    BY <1>3, <2>1, <2>2 DEF SetTerminalEnvelope
<1>4. ASSUME \/ ReclaimExpiredLeases \/ CallDrain \/ ScanHead \/ CollectEnds \/ BeginApply
             \/ EndBatch \/ Finally \/ Terminated \/ UNCHANGED vars
             \/ \E S \in Shards : ResetForRetry(S)
      PROVE  BytesExact'
  BY <1>1, <1>4 DEF ReclaimExpiredLeases, CallDrain, ScanHead, CollectEnds, BeginApply, EndBatch,
                    Finally, Terminated, vars, ResetForRetry
<1>5. ASSUME Abort \/ ApplyFails PROVE BytesExact'
  <2>1. AbortEffect
    BY <1>5 DEF Abort, ApplyFails
  <2>2. CASE aborted
    BY <1>1, <2>1, <2>2 DEF AbortEffect
  <2>3. CASE ~aborted
    <3>1. (envelopes = [s \in Seqs |-> NoEnvelope] /\ bufferedBytes = 0)'
      BY <2>1, <2>3 DEF AbortEffect
    <3>2. (envelopes = [s \in Seqs |-> NoEnvelope] /\ bufferedBytes = 0)' => BytesExact'
      BY HeldNothing, PTL
    <3> QED
      BY <3>1, <3>2
  <2> QED
    BY <2>2, <2>3
<1>6. ASSUME Collect PROVE BytesExact'
  <2>1. \A s \in Seqs : envelopes'[s].bytes = envelopes[s].bytes
    <3>1. /\ cursor \in Seqs /\ envelopes \in [Seqs -> Envelopes]
          /\ envelopes' = IF envelopes[cursor] = NoEnvelope
                          THEN [envelopes EXCEPT ![cursor] =
                                  [terminal |-> ledger.state[cursor], bytes |-> 0]]
                          ELSE envelopes
      BY <1>6, CollectLooks DEF IInv, TypeOK
    <3>2. CASE envelopes[cursor] = NoEnvelope
      BY <3>1, <3>2 DEF NoEnvelope
    <3>3. CASE envelopes[cursor] # NoEnvelope
      BY <3>1, <3>3
    <3> QED
      BY <3>2, <3>3
  <2> QED
    BY <1>6, <2>1, HeldSame DEF Collect
<1>7. ASSUME CommitUnwritten \/ ApplySucceeds PROVE BytesExact'
  <2> DEFINE s == Head(batch).seq
  <2>1. /\ s \in Seqs
        /\ envelopes' = [envelopes EXCEPT ![s] = NoEnvelope]
        /\ bufferedBytes' = Dec(bufferedBytes, HeldBytes(s))
    BY <1>7, CommitSteps, CommitIsNext
  <2> HIDE DEF s
  <2>2. NoEnvelope \in Envelopes /\ NoEnvelope.bytes = 0
    BY DEF NoEnvelope, Envelopes
  <2>3. bufferedBytes' = Dec(bufferedBytes, HeldBytes(s)) + NoEnvelope.bytes
    <3>1. bufferedBytes \in Nat /\ HeldBytes(s) \in Nat
      BY <2>1 DEF IInv, TypeOK, HeldBytes, Envelopes
    <3> QED
      BY <2>1, <2>2, <3>1 DEF Dec
  <2> QED
    BY <2>1, <2>2, <2>3, HeldChange
<1> QED
  BY <1>2, <1>3, <1>4, <1>5, <1>6, <1>7 DEF Next, Drain

(* bufferedBytes never drifts from the results that are held, so that the  *)
(* capacity gate never closes, or opens, on bytes nobody holds.            *)
THEOREM BytesStayExact == Spec => []BytesExact
<1>1. Init => BytesExact
  BY HeldNothing DEF Init
<1>2. IInv /\ BytesExact /\ [Next]_vars => BytesExact'
  BY BytesStep
<1> QED
  BY <1>1, <1>2, Invariant, PTL DEF Spec

-----------------------------------------------------------------------------
(* The journal as a log of commits *)

(* What CommitOrder says of a sequence of commits. *)
Ordered(records) ==
  \A i \in 1..Len(records) :
    {s \in Seqs : s < records[i].seq} = SeqsOf(SubSeq(records, 1, i - 1))

(* No seq is committed twice. *)
LEMMA CommittedOnce ==
  ASSUME NEW records \in Seq(Items), Ordered(records),
         NEW i \in 1..Len(records), NEW j \in 1..Len(records), i < j
  PROVE  records[i].seq # records[j].seq
<1> DEFINE before == SubSeq(records, 1, j - 1)
<1>1. /\ Len(before) = j - 1 /\ i \in 1..(j - 1) /\ before[i] = records[i]
  OBVIOUS
<1>2. records[j] \in Items /\ records[i] \in Items
  OBVIOUS
<1> HIDE DEF before
<1>3. records[i].seq \in SeqsOf(before)
  BY <1>1 DEF SeqsOf
<1>4. SeqsOf(before) = {s \in Seqs : s < records[j].seq}
  BY DEF Ordered, before
<1>5. records[i].seq < records[j].seq /\ records[j].seq \in Nat
  BY <1>2, <1>3, <1>4, SeqsAssumption DEF Items
<1> QED
  BY <1>5

(* So the journal's commit of a seq is the one record of it. *)
LEMMA RecordFound ==
  ASSUME NEW records \in Seq(Items), Ordered(records), NEW i \in 1..Len(records)
  PROVE  CommitOf(records, records[i].seq) = records[i]
<1> DEFINE item == CommitOf(records, records[i].seq)
<1>1. item \in {records[j] : j \in 1..Len(records)} /\ item.seq = records[i].seq
  BY DEF CommitOf
<1> HIDE DEF item
<1>2. PICK j \in 1..Len(records) : item = records[j]
  BY <1>1
<1>3. ~(i < j) /\ ~(j < i)
  BY <1>1, <1>2, CommittedOnce
<1>4. i = j
  BY <1>3
<1> QED
  BY <1>2, <1>4 DEF item

(* A journal that grows remembers its commits. *)
LEMMA RecordKept ==
  ASSUME NEW records \in Seq(Items), Ordered(records), NEW item \in Items,
         Ordered(Append(records, item))
  PROVE  /\ \A s \in SeqsOf(records) : CommitOf(Append(records, item), s) = CommitOf(records, s)
         /\ CommitOf(Append(records, item), item.seq) = item
<1> DEFINE more == Append(records, item)
<1>1. /\ more \in Seq(Items) /\ Len(more) = Len(records) + 1 /\ Len(records) \in Nat
      /\ \A i \in 1..Len(records) : more[i] = records[i]
      /\ more[Len(records) + 1] = item
      /\ Ordered(more)
  OBVIOUS
<1> HIDE DEF more
<1>2. ASSUME NEW s \in SeqsOf(records) PROVE CommitOf(more, s) = CommitOf(records, s)
  <2>1. PICK i \in 1..Len(records) : s = records[i].seq
    BY <1>2 DEF SeqsOf
  <2>2. i \in 1..Len(more) /\ more[i] = records[i]
    BY <1>1
  <2>3. CommitOf(more, more[i].seq) = more[i]
    BY <1>1, <2>2, RecordFound
  <2>4. CommitOf(records, records[i].seq) = records[i]
    BY RecordFound
  <2> QED
    BY <2>1, <2>2, <2>3, <2>4
<1>3. CommitOf(more, item.seq) = item
  <2>1. Len(more) \in 1..Len(more) /\ more[Len(more)] = item
    BY <1>1
  <2> QED
    BY <1>1, <2>1, RecordFound
<1> QED
  BY <1>2, <1>3 DEF more

-----------------------------------------------------------------------------
(* The outcomes the callers see *)

Seen == [s \in Seqs |-> OutcomeOf(s)]

(* What the invariant says of the journal and the outcomes. *)
JournalFacts ==
  /\ commitRecords \in Seq(Items) /\ Ordered(commitRecords)
  /\ ledger.state \in [Seqs -> States]
  /\ \A s \in Seqs : ledger.state[s] = "COMMITTED" <=> s \in SeqsOf(commitRecords)
  /\ SeqsOf(commitRecords) \subseteq Seqs
  /\ \A s \in Seqs : s \in SeqsOf(commitRecords) <=> s < ledger.nextCommitSeq
  /\ ledger.nextCommitSeq \in Nat

(* They follow from the invariant. *)
LEMMA JournalFactsHold == IInv => JournalFacts
<1> SUFFICES ASSUME IInv PROVE JournalFacts
  OBVIOUS
<1>1. /\ commitRecords \in Seq(Items) /\ ledger \in Ledgers
      /\ SeqsOf(commitRecords) = InState(ledger, {"COMMITTED"})
      /\ CommitOrder /\ CursorSplits(ledger)
  BY DEF IInv, TypeOK, JournalIsPrefix, LedgerInv
<1>2. Ordered(commitRecords)
  BY <1>1 DEF CommitOrder, Ordered
<1>3. \A s \in Seqs : ledger.state[s] = "COMMITTED" <=> s \in SeqsOf(commitRecords)
  BY <1>1 DEF InState
<1>4. \A s \in Seqs : ledger.state[s] = "COMMITTED" <=> s < ledger.nextCommitSeq
  BY <1>1 DEF CursorSplits
<1> QED
  BY <1>1, <1>2, <1>3, <1>4 DEF JournalFacts, InState, Ledgers

(* They also hold after a step. *)
LEMMA JournalFactsAfter == IInv /\ [Next]_vars => JournalFacts'
BY NextInv, JournalFactsHold, PTL

(* An outcome is one the ledger or the journal names. *)
LEMMA OutcomeType == JournalFacts => \A s \in Seqs : OutcomeOf(s) \in Terminals \cup {"OPEN"}
<1> SUFFICES ASSUME JournalFacts, NEW s \in Seqs PROVE OutcomeOf(s) \in Terminals \cup {"OPEN"}
  OBVIOUS
<1>1. CASE ledger.state[s] = "COMMITTED"
  <2>1. PICK i \in 1..Len(commitRecords) : s = commitRecords[i].seq
    BY <1>1 DEF JournalFacts, SeqsOf
  <2>2. commitRecords[i] \in Items /\ CommitOf(commitRecords, s) = commitRecords[i]
    BY <2>1, RecordFound DEF JournalFacts
  <2> QED
    BY <1>1, <2>2 DEF OutcomeOf, Items
<1>2. CASE ledger.state[s] # "COMMITTED"
  BY <1>2 DEF OutcomeOf
<1> QED
  BY <1>1, <1>2

(* The type of the outcomes a step leads to. *)
LEMMA OutcomeTypeAfter ==
  IInv /\ [Next]_vars => \A s \in Seqs : OutcomeOf(s)' \in Terminals \cup {"OPEN"}
<1>1. JournalFacts' => (\A s \in Seqs : OutcomeOf(s) \in Terminals \cup {"OPEN"})'
  BY OutcomeType, PTL
<1> QED
  BY <1>1, JournalFactsAfter

(* A step that commits nothing only decides what was open. *)
LEMMA OutcomesKept ==
  ASSUME IInv, [Next]_vars, UNCHANGED commitRecords
  PROVE  Promise!Decides
<1>1. JournalFacts /\ JournalFacts'
  BY JournalFactsHold, JournalFactsAfter
<1>2. ASSUME NEW s \in Seqs, OutcomeOf(s) # "OPEN" PROVE OutcomeOf(s)' = OutcomeOf(s)
  <2>1. Reaches(ledger.state[s], ledger'.state[s])
    BY StepReaches
  <2>2. ledger'.state[s] = "COMMITTED" <=> ledger.state[s] = "COMMITTED"
    BY <1>1 DEF JournalFacts, SeqsOf
  <2>3. ledger.state[s] \in Terminals \cup {"COMMITTED"}
    BY <1>2 DEF OutcomeOf
  <2>4. ledger'.state[s] = ledger.state[s]
    BY <2>1, <2>2, <2>3 DEF Reaches, Terminals, Leased
  <2> QED
    BY <2>4 DEF OutcomeOf
<1>3. \A s \in Seqs : OutcomeOf(s)' \in Terminals \cup {"OPEN"}
  BY OutcomeTypeAfter
<1>4. Seen' \in [Seqs -> Terminals \cup {"OPEN"}]
  BY <1>3 DEF Seen
<1>5. \A s \in Seqs : Seen[s] # "OPEN" => Seen'[s] = Seen[s]
  BY <1>2 DEF Seen
<1> QED
  BY <1>4, <1>5 DEF Promise!Decides, Promise!Open, Seen

(* While drain() commits, the seq at the cursor is the next to commit, and *)
(* nothing of it was written before.                                       *)
LEMMA HeadIsNext ==
  ASSUME IInv, WritesCommitted, drain \in {"commit", "apply"}, batch # <<>>
  PROVE  /\ Head(batch) \in Items /\ Head(batch).seq \in Seqs
         /\ Head(batch).outcome \in Terminals
         /\ ledger.state[Head(batch).seq] = Head(batch).outcome
         /\ Promise!IsNext(Head(batch).seq)
         /\ Seen[Head(batch).seq] = Head(batch).outcome
         /\ Head(batch).seq \notin Promise!Written
<1> DEFINE item == Head(batch)
           s == item.seq
<1>1. /\ batch \in Seq(Items) /\ Len(batch) \in Nat /\ Len(batch) >= 1
      /\ ledger.nextCommitSeq \in Nat /\ BatchIsRun
  BY DEF IInv, TypeOK, Ledgers
<1>2. item = batch[1] /\ 1 \in 1..Len(batch) /\ batch[1] \in Items
  BY <1>1
<1>3. batch[1].seq = ledger.nextCommitSeq + 1 - 1 /\ ledger.state[batch[1].seq] = batch[1].outcome
  BY <1>1, <1>2 DEF BatchIsRun
<1> HIDE DEF item
<1>4. /\ item \in Items /\ s \in Seqs /\ item.outcome \in Terminals
      /\ s = ledger.nextCommitSeq /\ ledger.state[s] = item.outcome
  BY <1>1, <1>2, <1>3 DEF Items
<1>5. JournalFacts
  BY JournalFactsHold
<1>6. Promise!Committed = SeqsOf(commitRecords)
  BY DEF Promise!Committed, SeqsOf
<1>7. Promise!IsNext(s)
  <2>1. s \notin SeqsOf(commitRecords) /\ \A r \in Seqs : r < s => r \in SeqsOf(commitRecords)
    BY <1>4, <1>5 DEF JournalFacts
  <2> QED
    BY <1>6, <2>1 DEF Promise!IsNext
<1>8. Seen[s] = item.outcome
  <2>1. item.outcome # "COMMITTED"
    BY <1>4 DEF Terminals
  <2> QED
    BY <1>4, <2>1 DEF Seen, OutcomeOf
<1>9. s \notin Promise!Written
  <2>1. PICK position \in [1..Len(applied) -> 1..Len(commitRecords)] :
          \A i \in 1..Len(applied) : commitRecords[position[i]].seq = applied[i]
    BY DEF WritesCommitted, WrittenInOrder
  <2>2. ASSUME NEW i \in 1..Len(applied) PROVE applied[i] \in SeqsOf(commitRecords)
    BY <2>1, <2>2 DEF SeqsOf
  <2> QED
    BY <1>6, <1>7, <2>2 DEF Promise!Written, Promise!IsNext
<1> QED
  BY <1>4, <1>7, <1>8, <1>9 DEF item

(* A commit of drain() is a commit of the promise. *)
LEMMA CommitImplements ==
  ASSUME IInv, WritesCommitted, [Next]_vars, CommitUnwritten \/ ApplySucceeds
  PROVE  Promise!Commit(Head(batch).seq) /\ Head(batch).seq \in Seqs
<1> DEFINE item == Head(batch)
           s == item.seq
<1>1. drain \in {"commit", "apply"} /\ batch # <<>> /\ CommitItem(Head(batch))
  BY CommitSteps
<1>2. /\ item \in Items /\ s \in Seqs /\ item.outcome \in Terminals
      /\ commitRecords' = Append(commitRecords, item)
      /\ ledger.state[s] = item.outcome
      /\ aborted' = aborted
      /\ ledger'.state = [ledger.state EXCEPT ![s] = "COMMITTED"]
  BY <1>1, CommitIsNext, CommitMoves
<1>3. Promise!IsNext(s) /\ Seen[s] = item.outcome /\ s \notin Promise!Written
  BY <1>1, HeadIsNext
<1>4. \/ applied' = applied /\ item.outcome # "SUCCESS"
      \/ applied' = Append(applied, s) /\ item.outcome = "SUCCESS"
  BY DEF CommitUnwritten, ApplySucceeds, WritesCommitted
<1>5. JournalFacts /\ JournalFacts'
  BY JournalFactsHold, JournalFactsAfter
<1> HIDE DEF item
<1>6. /\ \A r \in SeqsOf(commitRecords) : CommitOf(commitRecords', r) = CommitOf(commitRecords, r)
      /\ CommitOf(commitRecords', s) = item
  <2>1. Ordered(commitRecords) /\ Ordered(commitRecords')
    BY <1>5 DEF JournalFacts, Ordered
  <2>2. Ordered(Append(commitRecords, item))
    BY <1>2, <2>1
  <2> QED
    BY <1>2, <1>5, <2>1, <2>2, RecordKept DEF JournalFacts
<1>7. ASSUME NEW r \in Seqs PROVE OutcomeOf(r)' = OutcomeOf(r)
  <2>1. CASE r = s
    <3>1. ledger'.state[r] = "COMMITTED" /\ ledger.state[r] \in Terminals
      BY <1>2, <1>5, <2>1 DEF JournalFacts
    <3>2. OutcomeOf(r) = item.outcome
      BY <1>2, <2>1, <3>1 DEF OutcomeOf, Terminals
    <3>3. OutcomeOf(r)' = item.outcome
      BY <1>6, <2>1, <3>1 DEF OutcomeOf
    <3> QED
      BY <3>2, <3>3
  <2>2. CASE r # s
    <3>1. ledger'.state[r] = ledger.state[r]
      BY <1>2, <1>5, <2>2 DEF JournalFacts
    <3>2. ledger.state[r] = "COMMITTED" => CommitOf(commitRecords', r) = CommitOf(commitRecords, r)
      BY <1>5, <1>6 DEF JournalFacts
    <3> QED
      BY <3>1, <3>2 DEF OutcomeOf
  <2> QED
    BY <2>1, <2>2
<1>8. Seen' = Seen
  BY <1>7 DEF Seen
<1>9. item = [seq |-> s, outcome |-> Seen[s]]
  BY <1>2, <1>3 DEF Items
<1>10. Seen[s] # "OPEN"
  BY <1>2, <1>3 DEF Terminals
<1>11. Promise!Commit(s)
  BY <1>2, <1>3, <1>4, <1>8, <1>9, <1>10 DEF Promise!Commit, Promise!Open, Seen
<1> QED
  BY <1>2, <1>11 DEF item

(* An abort, and a write that fails, halt the stage. *)
LEMMA HaltImplements ==
  ASSUME IInv, WritesCommitted, [Next]_vars, Abort \/ ApplyFails
  PROVE  Promise!Halt
<1>1. aborted' = TRUE /\ UNCHANGED commitRecords
  BY DEF Abort, ApplyFails, AbortEffect, journalVars
<1>2. Promise!Decides
  BY <1>1, OutcomesKept
<1>3. CASE Abort
  BY <1>1, <1>2, <1>3 DEF Abort, Promise!Halt
<1>4. CASE ApplyFails
  <2> DEFINE s == Head(batch).seq
  <2>1. drain = "apply" /\ applied' \in {applied, Append(applied, s)}
    BY <1>4 DEF ApplyFails
  <2>2. batch # <<>> /\ Head(batch).outcome = "SUCCESS"
    BY <2>1 DEF IInv, BatchIsRun, WritesCommitted
  <2>3. /\ s \in Seqs /\ Promise!IsNext(s) /\ Seen[s] = "SUCCESS" /\ s \notin Promise!Written
    BY <2>1, <2>2, HeadIsNext
  <2> HIDE DEF s
  <2> QED
    BY <1>1, <1>2, <2>1, <2>3 DEF Promise!Halt, Seen
<1> QED
  BY <1>3, <1>4

(* Every other step decides some outcomes, or nothing the callers see. *)
LEMMA QuietImplements ==
  ASSUME IInv, [Next]_vars, UNCHANGED <<commitRecords, applied, aborted>>
  PROVE  Promise!Decide
BY OutcomesKept DEF Promise!Decide

(* Every step of the appender is one the promise allows. *)
LEMMA StepImplements ==
  ASSUME IInv, WritesCommitted, [Next]_vars
  PROVE  Promise!ANext
<1>1. CASE CommitUnwritten \/ ApplySucceeds
  BY <1>1, CommitImplements DEF Promise!ANext
<1>2. CASE Abort \/ ApplyFails
  BY <1>2, HaltImplements DEF Promise!ANext
<1>3. ASSUME UNCHANGED <<commitRecords, applied, aborted>> PROVE Promise!ANext
  BY <1>3, QuietImplements DEF Promise!ANext
<1>4. ASSUME NEW s \in Seqs, \/ WaitForCapacity(s) \/ CapacityTimeout(s) \/ NoteInFlight(s)
                             \/ Heartbeat(s) \/ LeaseExpires(s)
      PROVE  Promise!ANext
  BY <1>3, <1>4
     DEF WaitForCapacity, CapacityTimeout, NoteInFlight, Heartbeat, LeaseExpires, journalVars
<1>5. ASSUME NEW s \in Seqs, NEW t \in Outcomes, SetTerminalEnvelope(s, t) PROVE Promise!ANext
  BY <1>3, <1>5 DEF SetTerminalEnvelope, TurnedAway, Accepted, journalVars
<1>6. CASE ReclaimExpiredLeases \/ CallDrain \/ \E S \in Shards : ResetForRetry(S)
  BY <1>3, <1>6 DEF ReclaimExpiredLeases, CallDrain, ResetForRetry, journalVars
<1>7. CASE ScanHead \/ Collect \/ CollectEnds \/ BeginApply \/ EndBatch \/ Finally
  BY <1>3, <1>7 DEF ScanHead, Collect, CollectEnds, BeginApply, EndBatch, Finally, journalVars
<1>8. CASE Terminated \/ UNCHANGED vars
  BY <1>3, <1>8 DEF Terminated, vars, journalVars
<1> QED
  BY <1>1, <1>2, <1>4, <1>5, <1>6, <1>7, <1>8 DEF Next, Drain

(* A fresh appender promises a fresh log. *)
LEMMA InitImplements == Init => Promise!AInit
<1> SUFFICES ASSUME Init PROVE Promise!AInit
  OBVIOUS
<1>1. \A s \in Seqs : OutcomeOf(s) = "OPEN"
  BY DEF Init, NewLedger, OutcomeOf, Terminals
<1>2. Seen = [s \in Seqs |-> "OPEN"]
  BY <1>1 DEF Seen
<1> QED
  BY <1>2 DEF Init, Promise!AInit, Promise!Open, Seen

(* The ordered appender implements the promise of OrderedCommit, for every *)
(* set of seqs, every limit and every combination of faults: outcomes do   *)
(* not change, commits follow the order of the seqs, what is written       *)
(* downstream are the successful commits, and an abort takes nothing back. *)
THEOREM AppenderImplementsPromise == Spec => ImplementsPromise
<1>1. IInv /\ WritesCommitted /\ [Next]_vars => [Promise!ANext]_(Promise!avars)
  BY StepImplements
<1> QED
  BY <1>1, InitImplements, Invariant, WritesAlways, PTL DEF Spec, ImplementsPromise, Promise!ASpec
-----------------------------------------------------------------------------
(* The journal names one outcome per seq, unless a lease expires.  Late    *)
(* reports after a reclaim are the only source of a conflict: reports of a *)
(* retried shard are turned away when they contradict an earlier one.      *)

LeasesNeverExpire == "lease" \notin Faults

LeasesFresh == \A s \in Seqs : ledger.lease[s] # "stale"

(* Until a seq is committed or an abort turns its reports away, every      *)
(* record of it agrees with its envelope.                                  *)
RecordsAgree(s)    == \A i, j \in 1..Len(terminalRecords[s]) :
                        terminalRecords[s][i] = terminalRecords[s][j]
EnvelopeRecorded(s) ==
  \/ aborted
  \/ ledger.state[s] = "COMMITTED"
  \/ \A i \in 1..Len(terminalRecords[s]) : terminalRecords[s][i] = envelopes[s].terminal

JournalInv ==
  /\ LeasesFresh
  /\ \A s \in Seqs : RecordsAgree(s) /\ EnvelopeRecorded(s)

NoneStale(l) == \A s \in Seqs : l.lease[s] # "stale"

(* No operation but the passing of time makes a lease stale.               *)
LEMMA TransitionFresh ==
  ASSUME NEW l, LedgerInv(l), NoneStale(l), NEW s \in Seqs, NEW next
  PROVE  NoneStale(Transition(l, s, next))
<1>1. l.lease \in [Seqs -> {"none", "fresh", "stale"}]
  BY DEF LedgerInv, Ledgers
<1>2. Transition(l, s, next).lease
        = [l.lease EXCEPT ![s] = IF next \in Leased THEN "fresh" ELSE "none"]
  BY DEF Transition
<1> HIDE DEF Transition
<1> QED
  BY <1>1, <1>2 DEF NoneStale

(* Starting a seq gives it a fresh lease. *)
LEMMA StartedFresh ==
  ASSUME NEW l, LedgerInv(l), NoneStale(l), NEW s \in Seqs
  PROVE  NoneStale(Started(l, s))
<1> DEFINE a == IF l.state[s] = "UNSEEN" THEN Transition(l, s, "DISPATCHED") ELSE l
           b == IF a.state[s] = "DISPATCHED" THEN Transition(a, s, "IN_FLIGHT") ELSE a
<1>1. NoneStale(a) /\ LedgerInv(a)
  <2>1. CASE l.state[s] = "UNSEEN"
    <3>1. <<l.state[s], "DISPATCHED">> \in LegalTransitions
      BY <2>1 DEF LegalTransitions
    <3> QED
      BY <2>1, <3>1, TransitionFresh, TransitionSettles
  <2>2. CASE l.state[s] # "UNSEEN"
    BY <2>2
  <2> QED
    BY <2>1, <2>2
<1> HIDE DEF a
<1>2. NoneStale(b)
  BY <1>1, TransitionFresh
<1>3. Started(l, s) = b
  BY Zenon DEF Started, a, b
<1> HIDE DEF b
<1> QED
  BY <1>2, <1>3

(* A report ends the lease. *)
LEMMA ToTerminalFresh ==
  ASSUME NEW l, LedgerInv(l), NoneStale(l), NEW s \in Seqs, NEW t
  PROVE  NoneStale(ToTerminal(l, s, t))
<1> DEFINE b == Started(l, s)
<1>1. NoneStale(b) /\ LedgerInv(b)
  BY StartedFresh, StartedKeeps
<1>2. ToTerminal(l, s, t) = IF b.state[s] = "IN_FLIGHT" THEN Transition(b, s, t) ELSE b
  BY Zenon DEF ToTerminal
<1> HIDE DEF b
<1> QED
  BY <1>1, <1>2, TransitionFresh

(* Every step leaves the leases fresh, as long as time does not reach them. *)
LEMMA LeasesFreshStep ==
  ASSUME IInv, LeasesNeverExpire, LeasesFresh, [Next]_vars
  PROVE  LeasesFresh'
<1>0. /\ LedgerInv(ledger) /\ ledger \in Ledgers /\ NoneStale(ledger)
      /\ NoneStale(ledger') => LeasesFresh'
  BY DEF IInv, LedgerInv, LeasesFresh, NoneStale
<1>1. ASSUME NEW s \in Seqs, NoteInFlight(s) PROVE LeasesFresh'
  <2>1. ledger' = Started(ledger, s)
    BY <1>1 DEF NoteInFlight
  <2>2. NoneStale(Started(ledger, s))
    BY <1>0, StartedFresh
  <2> QED
    BY <1>0, <2>1, <2>2
<1>2. ASSUME NEW s \in Seqs, Heartbeat(s) \/ LeaseExpires(s) PROVE LeasesFresh'
  BY <1>2 DEF Heartbeat, LeaseExpires, LeasesNeverExpire
<1>3. ASSUME NEW s \in Seqs, NEW t \in Outcomes, SetTerminalEnvelope(s, t) PROVE LeasesFresh'
  <2>1. UNCHANGED ledger \/ ledger' = ToTerminal(ledger, s, t)
    BY <1>3 DEF SetTerminalEnvelope, TurnedAway, Accepted
  <2>2. NoneStale(ToTerminal(ledger, s, t))
    BY <1>0, ToTerminalFresh
  <2> QED
    BY <1>0, <2>1, <2>2
<1>4. ASSUME ReclaimExpiredLeases PROVE LeasesFresh'
  BY <1>4 DEF ReclaimExpiredLeases, Expired, LeasesFresh
<1>5. ASSUME AbortEffect PROVE LeasesFresh'
  <2>1. CASE aborted
    BY <1>0, <1>5, <2>1 DEF AbortEffect
  <2>2. CASE ~aborted
    <3> DEFINE open == InState(ledger, {"UNSEEN"} \cup Leased)
    <3>1. ledger' = TerminalizeAll(ledger, open, "CANCEL")
      BY <1>5, <2>2 DEF AbortEffect
    <3> HIDE DEF open
    <3>2. ledger'.lease = [s \in Seqs |-> IF s \in open THEN "none" ELSE ledger.lease[s]]
      BY <1>0, <3>1 DEF TerminalizeAll, Ledgers
    <3> QED
      BY <1>0, <3>2 DEF NoneStale
  <2> QED
    BY <2>1, <2>2
<1>6. ASSUME NEW S \in Shards, ResetForRetry(S) PROVE LeasesFresh'
  <2> DEFINE reset == {s \in S : ledger.state[s] \in Leased}
  <2>1. ledger' = ResetNonTerminal(ledger, S)
    BY <1>6 DEF ResetForRetry
  <2>2. ledger'.lease = [s \in Seqs |-> IF s \in reset THEN "none" ELSE ledger.lease[s]]
    BY <1>0, <2>1 DEF ResetNonTerminal, Ledgers
  <2> QED
    BY <1>0, <2>2 DEF NoneStale
<1>7. ASSUME CommitUnwritten \/ ApplySucceeds PROVE LeasesFresh'
  <2> DEFINE s == Head(batch).seq
  <2>1. s \in Seqs /\ ledger' = Transition(ledger, s, "COMMITTED")
    BY <1>7, CommitSteps, CommitIsNext
  <2> HIDE DEF s
  <2>2. NoneStale(Transition(ledger, s, "COMMITTED"))
    BY <1>0, <2>1, TransitionFresh
  <2> QED
    BY <1>0, <2>1, <2>2
<1>8. ASSUME \/ \E s \in Seqs : WaitForCapacity(s) \/ CapacityTimeout(s)
             \/ CallDrain \/ ScanHead \/ Collect \/ CollectEnds \/ BeginApply \/ EndBatch \/ Finally
             \/ Terminated \/ UNCHANGED vars
      PROVE LeasesFresh'
  <2>1. UNCHANGED ledger
    BY <1>8, CollectLooks
       DEF WaitForCapacity, CapacityTimeout, CallDrain, ScanHead, CollectEnds, BeginApply,
           EndBatch, Finally, Terminated, vars
  <2> QED
    BY <1>0, <2>1
<1> QED
  BY <1>1, <1>2, <1>3, <1>4, <1>5, <1>6, <1>7, <1>8 DEF Next, Drain, Abort, ApplyFails

(* What is on record stays on record: a step that changes neither a seq's  *)
(* records nor what its envelope says keeps their agreement.               *)
LEMMA RecordsUntouched ==
  ASSUME IInv, JournalInv, [Next]_vars, NEW s \in Seqs,
         terminalRecords'[s] = terminalRecords[s],
         \/ envelopes'[s].terminal = envelopes[s].terminal
         \/ terminalRecords[s] = <<>>
         \/ ledger'.state[s] = "COMMITTED"
         \/ aborted',
         aborted => aborted'
  PROVE  RecordsAgree(s)' /\ EnvelopeRecorded(s)'
<1>1. RecordsAgree(s) /\ EnvelopeRecorded(s)
  BY DEF JournalInv
<1>2. ledger.state[s] = "COMMITTED" => ledger'.state[s] = "COMMITTED"
  BY StepReaches DEF Reaches, Leased, Terminals
<1>3. RecordsAgree(s)'
  BY <1>1 DEF RecordsAgree
<1>4. EnvelopeRecorded(s)'
  <2>1. CASE aborted \/ ledger.state[s] = "COMMITTED" \/ aborted' \/ ledger'.state[s] = "COMMITTED"
    BY <1>2, <2>1 DEF EnvelopeRecorded
  <2>2. CASE terminalRecords[s] = <<>>
    BY <2>2 DEF EnvelopeRecorded
  <2>3. CASE /\ \A i \in 1..Len(terminalRecords[s]) : terminalRecords[s][i] = envelopes[s].terminal
             /\ envelopes'[s].terminal = envelopes[s].terminal
    BY <2>3 DEF EnvelopeRecorded
  <2> QED
    BY <1>1, <2>1, <2>2, <2>3 DEF EnvelopeRecorded
<1> QED
  BY <1>3, <1>4

(* A report is recorded only when it says what the envelope says, or when  *)
(* there is no envelope, and then no record either.                        *)
LEMMA AcceptedAgrees ==
  ASSUME IInv, JournalInv, NEW s \in Seqs, NEW t \in Terminals, Accepted(s, t)
  PROVE  RecordsAgree(s)' /\ EnvelopeRecorded(s)'
<1>1. /\ terminalRecords \in [Seqs -> Seq(Terminals)] /\ envelopes \in [Seqs -> Envelopes]
      /\ terminalRecords[s] \in Seq(Terminals) /\ Len(terminalRecords[s]) \in Nat
  BY DEF IInv, TypeOK
<1>2. /\ terminalRecords'[s] = Append(terminalRecords[s], t)
      /\ envelopes'[s].terminal = t
  BY <1>1 DEF Accepted
<1>3. \A i \in 1..Len(terminalRecords[s]) : terminalRecords[s][i] = t
  <2> SUFFICES ASSUME NEW i \in 1..Len(terminalRecords[s]) PROVE terminalRecords[s][i] = t
    OBVIOUS
  <2>1. terminalRecords[s][i] = envelopes[s].terminal
    BY DEF Accepted, JournalInv, EnvelopeRecorded
  <2>2. terminalRecords[s][i] \in Terminals
    BY <1>1
  <2>3. envelopes[s] # NoEnvelope
    BY <2>1, <2>2 DEF NoEnvelope, Terminals
  <2> QED
    BY <2>1, <2>3 DEF Accepted, Contradicts
<1>4. \A i \in 1..Len(terminalRecords'[s]) : terminalRecords'[s][i] = t
  BY <1>1, <1>2, <1>3
<1> QED
  BY <1>2, <1>4 DEF RecordsAgree, EnvelopeRecorded

(* Every step keeps the agreement. *)
LEMMA JournalStep ==
  ASSUME IInv, LeasesNeverExpire, JournalInv, [Next]_vars
  PROVE  JournalInv'
<1> DEFINE Goal == \A s \in Seqs : RecordsAgree(s)' /\ EnvelopeRecorded(s)'
<1>0. /\ envelopes \in [Seqs -> Envelopes] /\ aborted \in BOOLEAN
      /\ terminalRecords \in [Seqs -> Seq(Terminals)]
  BY DEF IInv, TypeOK
<1>1. ASSUME UNCHANGED <<envelopes, terminalRecords, aborted>> PROVE Goal
  BY <1>1, RecordsUntouched
<1>2. ASSUME NEW s \in Seqs,
             \/ WaitForCapacity(s) \/ CapacityTimeout(s) \/ NoteInFlight(s)
             \/ Heartbeat(s) \/ LeaseExpires(s)
      PROVE  Goal
  BY <1>1, <1>2
     DEF WaitForCapacity, CapacityTimeout, NoteInFlight, Heartbeat, LeaseExpires, journalVars
<1>3. ASSUME NEW s \in Seqs, NEW t \in Outcomes, SetTerminalEnvelope(s, t) PROVE Goal
  <2>1. CASE TurnedAway(s, t)
    BY <1>1, <1>3, <2>1 DEF SetTerminalEnvelope, TurnedAway, journalVars
  <2>2. CASE Accepted(s, t)
    <3>1. /\ t \in Terminals /\ UNCHANGED aborted
          /\ \A r \in Seqs : r # s => /\ terminalRecords'[r] = terminalRecords[r]
                                      /\ envelopes'[r] = envelopes[r]
      BY <1>0, <1>3, <2>2, AppenderAssumption DEF SetTerminalEnvelope, Accepted
    <3>2. RecordsAgree(s)' /\ EnvelopeRecorded(s)'
      BY <2>2, <3>1, AcceptedAgrees
    <3>3. \A r \in Seqs \ {s} : RecordsAgree(r)' /\ EnvelopeRecorded(r)'
      BY <3>1, RecordsUntouched
    <3> QED
      BY <3>2, <3>3
  <2> QED
    BY <1>3, <2>1, <2>2 DEF SetTerminalEnvelope
<1>4. ASSUME ReclaimExpiredLeases PROVE Goal
  BY <1>4 DEF ReclaimExpiredLeases, Expired, JournalInv, LeasesFresh
<1>5. ASSUME \/ CallDrain \/ ScanHead \/ CollectEnds \/ BeginApply
             \/ EndBatch \/ Finally \/ Terminated \/ UNCHANGED vars
             \/ \E S \in Shards : ResetForRetry(S)
      PROVE  Goal
  BY <1>1, <1>5 DEF CallDrain, ScanHead, CollectEnds, BeginApply, EndBatch, Finally, Terminated,
                    vars, ResetForRetry, journalVars
<1>6. ASSUME Abort \/ ApplyFails PROVE Goal
  <2>1. aborted' /\ UNCHANGED terminalRecords
    BY <1>6 DEF Abort, ApplyFails, AbortEffect, journalVars
  <2> QED
    BY <2>1, RecordsUntouched
<1>7. ASSUME Collect PROVE Goal
  <2>1. UNCHANGED <<terminalRecords, aborted>>
    BY <1>7 DEF Collect, journalVars
  <2>2. ASSUME NEW s \in Seqs
        PROVE  \/ envelopes'[s].terminal = envelopes[s].terminal
               \/ terminalRecords[s] = <<>> \/ ledger'.state[s] = "COMMITTED" \/ aborted'
    <3>1. CASE envelopes'[s] = envelopes[s]
      BY <3>1
    <3>2. CASE envelopes'[s] # envelopes[s]
      <4>1. s = cursor /\ envelopes[s] = NoEnvelope /\ UNCHANGED ledger
        BY <1>0, <1>7, <3>2, CollectLooks
      <4>2. \/ aborted \/ ledger.state[s] = "COMMITTED"
            \/ \A i \in 1..Len(terminalRecords[s]) : terminalRecords[s][i] = "NONE"
        BY <4>1 DEF JournalInv, EnvelopeRecorded, NoEnvelope
      <4>3. (\A i \in 1..Len(terminalRecords[s]) : terminalRecords[s][i] = "NONE")
              => terminalRecords[s] = <<>>
        <5>1. terminalRecords[s] \in Seq(Terminals) /\ "NONE" \notin Terminals
          BY <1>0 DEF Terminals
        <5>2. \A i \in 1..Len(terminalRecords[s]) : terminalRecords[s][i] \in Terminals
          BY <5>1
        <5>3. Len(terminalRecords[s]) \in Nat
          BY <5>1
        <5> QED
          BY <5>1, <5>2, <5>3
      <4> QED
        BY <2>1, <4>1, <4>2, <4>3
    <3> QED
      BY <3>1, <3>2
  <2> QED
    BY <2>1, <2>2, RecordsUntouched
<1>8. ASSUME CommitUnwritten \/ ApplySucceeds PROVE Goal
  <2> DEFINE s == Head(batch).seq
  <2>1. /\ s \in Seqs /\ ledger'.state[s] = "COMMITTED"
        /\ envelopes' = [envelopes EXCEPT ![s] = NoEnvelope]
        /\ UNCHANGED <<terminalRecords, aborted>>
    <3>1. drain \in {"commit", "apply"} /\ batch # <<>> /\ CommitItem(Head(batch))
      BY <1>8, CommitSteps
    <3>2. ledger.state \in [Seqs -> States]
      BY DEF IInv, LedgerInv, Ledgers
    <3> QED
      BY <3>1, <3>2, CommitIsNext, CommitMoves
  <2> HIDE DEF s
  <2>2. \A r \in Seqs : envelopes'[r] = envelopes[r] \/ ledger'.state[r] = "COMMITTED"
    BY <1>0, <2>1
  <2> QED
    BY <2>1, <2>2, RecordsUntouched
<1> HIDE DEF Goal
<1>9. Goal
  BY <1>2, <1>3, <1>4, <1>5, <1>6, <1>7, <1>8 DEF Next, Drain
<1>10. LeasesFresh'
  BY LeasesFreshStep DEF JournalInv
<1> QED
  BY <1>9, <1>10 DEF Goal, JournalInv

(* No journal of a stage whose leases do not expire is in conflict, so     *)
(* that a replay accepts it, whatever else fails.                          *)
THEOREM JournalNeverConflicts == LeasesNeverExpire => (Spec => []NoJournalConflict)
<1> SUFFICES ASSUME LeasesNeverExpire PROVE Spec => []NoJournalConflict
  OBVIOUS
<1>1. Init => JournalInv
  BY DEF Init, NewLedger, JournalInv, LeasesFresh, RecordsAgree, EnvelopeRecorded
<1>2. IInv /\ JournalInv /\ [Next]_vars => JournalInv'
  BY JournalStep
<1>3. JournalInv => NoJournalConflict
  BY DEF JournalInv, RecordsAgree, NoJournalConflict, Conflicting
<1> QED
  BY <1>1, <1>2, <1>3, Invariant, PTL DEF Spec
=============================================================================
