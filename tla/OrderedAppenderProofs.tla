------------------------ MODULE OrderedAppenderProofs ------------------------
(* The ordered appender keeps its ledger, its journal and what drain() has *)
(* collected in step: proved for every set of seqs, every limit and every  *)
(* combination of faults.                                                  *)
EXTENDS OrderedAppender, SeqLedgerProofs

-----------------------------------------------------------------------------
(* The inductive invariant *)

(* An envelope is held only for a seq that has reached its outcome and is  *)
(* not committed yet.                                                      *)
EnvelopesTerminal ==
  \A s \in Seqs : envelopes[s] # NoEnvelope
                  => envelopes[s].terminal \in Terminals /\ ledger.state[s] \in Terminals

(* What drain() has collected is the run of terminal seqs that starts at   *)
(* the commit cursor.                                                      *)
BatchIsRun ==
  /\ drain \in {"idle", "scan", "finally"} => batch = <<>>
  /\ drain = "collect" => cursor = ledger.nextCommitSeq + Len(batch)
  /\ drain = "apply" => batch # <<>>
  /\ \A i \in 1..Len(batch) : /\ batch[i].seq = ledger.nextCommitSeq + i - 1
                              /\ ledger.state[batch[i].seq] = batch[i].outcome

(* The committed seqs of the ledger are those of the journal. *)
JournalIsPrefix ==
  /\ SeqsOf(commitRecords) = InState(ledger, {"COMMITTED"})
  /\ CommitOrder

(* The fate of a seq: its first journaled outcome or, if it has none, the  *)
(* cancellation by an abort.                                               *)
Fate(s, t) == IF terminalRecords[s] = <<>> THEN aborted /\ t = "CANCEL"
                                           ELSE t = Head(terminalRecords[s])

FatesSealed ==
  /\ \A s \in Seqs :
       /\ ledger.state[s] \in {"UNSEEN"} \cup Leased => terminalRecords[s] = <<>>
       /\ ledger.state[s] \in Terminals => Fate(s, ledger.state[s])
  /\ \A i \in 1..Len(commitRecords) : Fate(commitRecords[i].seq, commitRecords[i].outcome)

IInv ==
  /\ TypeOK
  /\ LedgerInv(ledger)
  /\ EnvelopesTerminal
  /\ BatchIsRun
  /\ JournalIsPrefix
  /\ FatesSealed

-----------------------------------------------------------------------------
(* Ledger steps other than a commit: they leave the cursor and every seq   *)
(* that has an outcome alone.                                              *)
Settles(l, n) ==
  /\ n.nextCommitSeq = l.nextCommitSeq
  /\ \A s \in Seqs : /\ l.state[s] \in Terminals \cup {"COMMITTED"} => n.state[s] = l.state[s]
                     /\ n.state[s] = "COMMITTED" => l.state[s] = "COMMITTED"

(* A legal transition of an open seq settles nothing else. *)
LEMMA TransitionSettles ==
  ASSUME NEW l, LedgerInv(l), NEW s \in Seqs, NEW next,
         <<l.state[s], next>> \in LegalTransitions,
         l.state[s] \in {"UNSEEN"} \cup Leased
  PROVE  /\ LedgerInv(Transition(l, s, next))
         /\ Transition(l, s, next).state = [l.state EXCEPT ![s] = next]
         /\ Settles(l, Transition(l, s, next))
<1>1. l \in Ledgers /\ l.state \in [Seqs -> States]
  BY DEF LedgerInv, Ledgers
<1>2. next \in States /\ next # "COMMITTED" /\ IsLegal(l, s, next)
  BY DEF LegalTransitions, Terminals, Leased, States, IsLegal, StateOf
<1>3. LedgerInv(Transition(l, s, next))
  BY <1>2, TransitionKeeps
<1>4. Transition(l, s, next).state = [l.state EXCEPT ![s] = next]
  BY <1>1, <1>2, TransitionType
<1>5. Transition(l, s, next).nextCommitSeq = l.nextCommitSeq
  BY <1>2 DEF Transition
<1> HIDE DEF Transition
<1>6. Settles(l, Transition(l, s, next))
  BY <1>1, <1>2, <1>4, <1>5 DEF Settles, Terminals, Leased
<1> QED
  BY <1>3, <1>4, <1>6

(* Settling steps compose. *)
LEMMA SettlesTransitive ==
  ASSUME NEW l, NEW m, NEW n, Settles(l, m), Settles(m, n)
  PROVE  Settles(l, n)
BY DEF Settles

(* Doing nothing settles nothing. *)
LEMMA SettlesReflexive == ASSUME NEW l PROVE Settles(l, l)
BY DEF Settles

(* Starting a seq, and reporting its outcome. *)
LEMMA StartedKeeps ==
  ASSUME NEW l, LedgerInv(l), NEW s \in Seqs
  PROVE  /\ LedgerInv(Started(l, s)) /\ Settles(l, Started(l, s))
         /\ Started(l, s).state
              = [l.state EXCEPT ![s] = IF @ \in {"UNSEEN", "DISPATCHED"} THEN "IN_FLIGHT" ELSE @]
<1> DEFINE a == IF l.state[s] = "UNSEEN" THEN Transition(l, s, "DISPATCHED") ELSE l
           b == IF a.state[s] = "DISPATCHED" THEN Transition(a, s, "IN_FLIGHT") ELSE a
<1>1. l.state \in [Seqs -> States]
  BY DEF LedgerInv, Ledgers
<1>2. /\ LedgerInv(a) /\ Settles(l, a)
      /\ a.state = [l.state EXCEPT ![s] = IF @ = "UNSEEN" THEN "DISPATCHED" ELSE @]
  <2>1. CASE l.state[s] = "UNSEEN"
    BY <1>1, <2>1, TransitionSettles DEF LegalTransitions
  <2>2. CASE l.state[s] # "UNSEEN"
    BY <1>1, <2>2, SettlesReflexive
  <2> QED
    BY <2>1, <2>2
<1>3. a.state \in [Seqs -> States]
  BY <1>1, <1>2 DEF States, Leased
<1> HIDE DEF a
<1>4. /\ LedgerInv(b) /\ Settles(a, b)
      /\ b.state = [a.state EXCEPT ![s] = IF @ = "DISPATCHED" THEN "IN_FLIGHT" ELSE @]
  <2>1. CASE a.state[s] = "DISPATCHED"
    BY <1>2, <1>3, <2>1, TransitionSettles DEF LegalTransitions, Leased
  <2>2. CASE a.state[s] # "DISPATCHED"
    BY <1>2, <1>3, <2>2, SettlesReflexive
  <2> QED
    BY <2>1, <2>2
<1>5. Settles(l, b)
  BY <1>2, <1>4, SettlesTransitive
<1>6. b.state = [l.state EXCEPT ![s] = IF @ \in {"UNSEEN", "DISPATCHED"} THEN "IN_FLIGHT" ELSE @]
  BY <1>1, <1>2, <1>3, <1>4
<1>7. Started(l, s) = b
  BY Zenon DEF Started, a, b
<1> HIDE DEF b
<1> QED
  BY <1>4, <1>5, <1>6, <1>7

(* transitionToTerminal ends in the reported outcome unless the seq had    *)
(* one, keeps the ledger exact and leaves the rest alone.                  *)
LEMMA ToTerminalKeeps ==
  ASSUME NEW l, LedgerInv(l), NEW s \in Seqs, NEW t \in Terminals
  PROVE  /\ LedgerInv(ToTerminal(l, s, t)) /\ Settles(l, ToTerminal(l, s, t))
         /\ ToTerminal(l, s, t).state
              = [l.state EXCEPT ![s] = IF @ \in {"UNSEEN"} \cup Leased THEN t ELSE @]
<1> DEFINE b == Started(l, s)
           c == IF b.state[s] = "IN_FLIGHT" THEN Transition(b, s, t) ELSE b
<1>1. l.state \in [Seqs -> States]
  BY DEF LedgerInv, Ledgers
<1>2. /\ LedgerInv(b) /\ Settles(l, b)
      /\ b.state = [l.state EXCEPT ![s] = IF @ \in {"UNSEEN", "DISPATCHED"} THEN "IN_FLIGHT" ELSE @]
  BY StartedKeeps
<1>3. b.state \in [Seqs -> States]
  BY <1>1, <1>2 DEF States, Leased
<1> HIDE DEF b
<1>4. /\ LedgerInv(c) /\ Settles(b, c)
      /\ c.state = [b.state EXCEPT ![s] = IF @ = "IN_FLIGHT" THEN t ELSE @]
  <2>1. CASE b.state[s] = "IN_FLIGHT"
    <3>1. <<b.state[s], t>> \in LegalTransitions /\ b.state[s] \in {"UNSEEN"} \cup Leased
      BY <2>1 DEF LegalTransitions, Leased
    <3> QED
      BY <1>2, <1>3, <2>1, <3>1, TransitionSettles
  <2>2. CASE b.state[s] # "IN_FLIGHT"
    BY <1>2, <1>3, <2>2, SettlesReflexive
  <2> QED
    BY <2>1, <2>2
<1>5. Settles(l, c)
  BY <1>2, <1>4, SettlesTransitive
<1>6. c.state = [l.state EXCEPT ![s] = IF @ \in {"UNSEEN"} \cup Leased THEN t ELSE @]
  BY <1>1, <1>2, <1>3, <1>4 DEF Leased, Terminals
<1>7. ToTerminal(l, s, t) = c
  BY Zenon DEF ToTerminal, b, c
<1> HIDE DEF c
<1> QED
  BY <1>4, <1>5, <1>6, <1>7

(* The bulk step of a reclaim or an abort touches no seq with an outcome. *)
LEMMA TerminalizeSettles ==
  ASSUME NEW l, LedgerInv(l), NEW S \in SUBSET InState(l, {"UNSEEN"} \cup Leased),
         NEW t \in Terminals
  PROVE  /\ LedgerInv(TerminalizeAll(l, S, t))
         /\ Settles(l, TerminalizeAll(l, S, t))
         /\ TerminalizeAll(l, S, t).state = [s \in Seqs |-> IF s \in S THEN t ELSE l.state[s]]
<1>1. /\ TerminalizeAll(l, S, t).state = [s \in Seqs |-> IF s \in S THEN t ELSE l.state[s]]
      /\ TerminalizeAll(l, S, t).nextCommitSeq = l.nextCommitSeq
  BY DEF TerminalizeAll, LedgerInv, Ledgers
<1>2. LedgerInv(TerminalizeAll(l, S, t))
  BY TerminalizeKeeps
<1>3. \A s \in S : l.state[s] \in {"UNSEEN", "DISPATCHED", "IN_FLIGHT"}
  BY DEF InState, Leased
<1> QED
  BY <1>1, <1>2, <1>3 DEF Settles, Terminals

(* resetNonTerminal touches no seq with an outcome, nor the cursor. *)
LEMMA ResetSettles ==
  ASSUME NEW l, LedgerInv(l), NEW S \in SUBSET Seqs
  PROVE  /\ LedgerInv(ResetNonTerminal(l, S))
         /\ Settles(l, ResetNonTerminal(l, S))
         /\ \A s \in Seqs : \/ ResetNonTerminal(l, S).state[s] = l.state[s]
                            \/ /\ ResetNonTerminal(l, S).state[s] = "UNSEEN"
                               /\ l.state[s] \in Leased
<1>1. LedgerInv(ResetNonTerminal(l, S)) /\ ResetNonTerminal(l, S).nextCommitSeq = l.nextCommitSeq
  BY ResetKeeps
<1>2. \A s \in Seqs : \/ ResetNonTerminal(l, S).state[s] = l.state[s]
                      \/ /\ ResetNonTerminal(l, S).state[s] = "UNSEEN"
                         /\ l.state[s] \in Leased
  <2>1. ResetNonTerminal(l, S).state
          = [s \in Seqs |-> IF s \in {r \in S : l.state[r] \in Leased} THEN "UNSEEN" ELSE l.state[s]]
    BY DEF ResetNonTerminal, LedgerInv, Ledgers
  <2> QED
    BY <2>1
<1> QED
  BY <1>1, <1>2 DEF Settles, Terminals, Leased

-----------------------------------------------------------------------------
(* What the actions share *)

(* Steps of the ledger that only settle seqs disturb neither the batch nor *)
(* the journal of commits.                                                 *)
LEMMA SettlesKeepsRun ==
  ASSUME IInv, LedgerInv(ledger'), Settles(ledger, ledger'),
         UNCHANGED <<batch, cursor, commitRecords>>,
         \/ drain' = drain
         \/ {drain, drain'} \subseteq {"idle", "scan", "finally"}
  PROVE  BatchIsRun' /\ JournalIsPrefix'
<1>1. /\ ledger \in Ledgers /\ ledger.state \in [Seqs -> States]
      /\ batch \in Seq(Items)
      /\ Len(batch) \in Nat /\ \A i \in 1..Len(batch) : batch[i] \in Items
  BY DEF IInv, TypeOK, Ledgers
<1>2. \A i \in 1..Len(batch) : batch[i].seq \in Seqs /\ batch[i].outcome \in Terminals
  BY <1>1 DEF Items
<1>3. BatchIsRun'
  <2>1. BatchIsRun
    BY DEF IInv
  <2>2. \A i \in 1..Len(batch) : /\ batch[i].seq = ledger'.nextCommitSeq + i - 1
                                 /\ ledger'.state[batch[i].seq] = batch[i].outcome
    BY <1>2, <2>1 DEF BatchIsRun, Settles
  <2>3. ledger'.nextCommitSeq = ledger.nextCommitSeq
    BY DEF Settles
  <2> QED
    BY <2>1, <2>2, <2>3 DEF BatchIsRun
<1>4. JournalIsPrefix'
  <2>1. InState(ledger', {"COMMITTED"}) = InState(ledger, {"COMMITTED"})
    BY DEF InState, Settles
  <2>2. CommitOrder'
    BY DEF CommitOrder, IInv, JournalIsPrefix
  <2> QED
    BY <2>1, <2>2 DEF IInv, JournalIsPrefix
<1> QED
  BY <1>3, <1>4

(* So does a step that leaves the ledger, the envelopes and the journal    *)
(* alone, whatever drain() does meanwhile.                                 *)
LEMMA QuietKeeps ==
  ASSUME IInv, UNCHANGED <<ledger, envelopes, aborted, journalVars>>
  PROVE  /\ LedgerInv(ledger') /\ EnvelopesTerminal' /\ JournalIsPrefix' /\ FatesSealed'
<1>1. LedgerInv(ledger')
  BY DEF IInv
<1>2. EnvelopesTerminal'
  BY DEF IInv, EnvelopesTerminal
<1>3. JournalIsPrefix'
  BY DEF IInv, JournalIsPrefix, CommitOrder, journalVars
<1>4. FatesSealed'
  BY DEF IInv, FatesSealed, Fate, journalVars
<1> QED
  BY <1>1, <1>2, <1>3, <1>4

(* A step that opens no outcome and journals nothing keeps the fates. *)
LEMMA FatesKept ==
  ASSUME IInv, UNCHANGED journalVars, aborted => aborted',
         \A s \in Seqs : \/ ledger'.state[s] = ledger.state[s]
                         \/ /\ ledger.state[s] \in {"UNSEEN"} \cup Leased
                            /\ \/ ledger'.state[s] \in {"UNSEEN"} \cup Leased
                               \/ ledger'.state[s] = "CANCEL" /\ aborted'
  PROVE  FatesSealed'
<1>1. commitRecords' = commitRecords /\ terminalRecords' = terminalRecords
  BY DEF journalVars
<1>2. FatesSealed
  BY DEF IInv
<1>3. \A s \in Seqs : ledger'.state[s] \in {"UNSEEN"} \cup Leased => terminalRecords'[s] = <<>>
  BY <1>1, <1>2 DEF FatesSealed, Leased, Terminals
<1>4. ASSUME NEW s \in Seqs, ledger'.state[s] \in Terminals
      PROVE  Fate(s, ledger.state[s])'
  <2>1. CASE ledger'.state[s] = ledger.state[s]
    BY <1>1, <1>2, <1>4, <2>1 DEF FatesSealed, Fate
  <2>2. CASE ledger.state[s] \in {"UNSEEN"} \cup Leased /\ ledger'.state[s] = "CANCEL" /\ aborted'
    BY <1>1, <1>2, <2>2 DEF FatesSealed, Fate
  <2> QED
    BY <1>4, <2>1, <2>2 DEF Leased, Terminals
<1>5. \A i \in 1..Len(commitRecords') : Fate(commitRecords[i].seq, commitRecords[i].outcome)'
  BY <1>1, <1>2 DEF FatesSealed, Fate
<1> QED
  BY <1>1, <1>3, <1>4, <1>5 DEF FatesSealed

(* resolveCapacityWaiters maps worker stages to worker stages. *)
LEMMA ResolveWaitersType ==
  ASSUME NEW W, {"ready", "waiting"} \subseteq W, NEW w \in [Seqs -> W],
         NEW env, NEW bytes, NEW seen, NEW l
  PROVE  ResolveWaiters(w, env, bytes, seen, l) \in [Seqs -> W]
BY DEF ResolveWaiters

(* An abort cancels what is open and drops every envelope. *)
LEMMA AbortKeeps ==
  ASSUME IInv, AbortEffect
  PROVE  /\ aborted' = TRUE
         /\ LedgerInv(ledger') /\ Settles(ledger, ledger')
         /\ \A s \in Seqs : \/ ledger'.state[s] = ledger.state[s]
                            \/ /\ ledger.state[s] \in {"UNSEEN"} \cup Leased
                               /\ ledger'.state[s] = "CANCEL"
         /\ envelopes' \in [Seqs -> Envelopes]
         /\ \A s \in Seqs : envelopes'[s] # NoEnvelope => envelopes'[s] = envelopes[s]
         /\ bufferedBytes' \in Nat
         /\ worker' \in [Seqs -> {"idle", "waiting", "ready", "running", "settled", "failed"}]
         /\ done' \in [Seqs -> {"none", "pending", "resolved", "rejected"}]
<1>1. TypeOK /\ LedgerInv(ledger)
  BY DEF IInv
<1>2. CASE aborted
  BY <1>1, <1>2, SettlesReflexive DEF AbortEffect, TypeOK
<1>3. CASE ~aborted
  <2> DEFINE open == InState(ledger, {"UNSEEN"} \cup Leased)
  <2>1. /\ aborted' = TRUE
        /\ ledger' = TerminalizeAll(ledger, open, "CANCEL")
        /\ envelopes' = [s \in Seqs |-> NoEnvelope]
        /\ bufferedBytes' = 0
        /\ worker' = [s \in Seqs |-> IF worker[s] = "waiting" THEN "failed" ELSE worker[s]]
        /\ done' = [s \in Seqs |-> IF done[s] = "pending" THEN "rejected" ELSE done[s]]
    BY <1>3 DEF AbortEffect
  <2>2. /\ LedgerInv(ledger') /\ Settles(ledger, ledger')
        /\ ledger'.state = [s \in Seqs |-> IF s \in open THEN "CANCEL" ELSE ledger.state[s]]
    <3>1. open \in SUBSET open /\ "CANCEL" \in Terminals
      BY DEF Terminals
    <3> HIDE DEF open
    <3> QED
      BY <1>1, <2>1, <3>1, TerminalizeSettles DEF open
  <2>3. \A s \in open : ledger.state[s] \in {"UNSEEN"} \cup Leased
    BY DEF InState
  <2>4. /\ envelopes' \in [Seqs -> Envelopes]
        /\ \A s \in Seqs : envelopes'[s] = NoEnvelope
    BY <2>1 DEF NoEnvelope, Envelopes
  <2>5. /\ worker' \in [Seqs -> {"idle", "waiting", "ready", "running", "settled", "failed"}]
        /\ done' \in [Seqs -> {"none", "pending", "resolved", "rejected"}]
    BY <1>1, <2>1 DEF TypeOK
  <2> QED
    BY <2>1, <2>2, <2>3, <2>4, <2>5
<1> QED
  BY <1>2, <1>3

-----------------------------------------------------------------------------
(* The actions of the callers *)

(* waitForCapacity and its timeout keep the invariant. *)
LEMMA WaitingKeeps ==
  ASSUME IInv, NEW s \in Seqs, WaitForCapacity(s) \/ CapacityTimeout(s)
  PROVE  IInv'
<1>1. /\ UNCHANGED <<ledger, envelopes, bufferedBytes, maxSeenSeq, aborted, drainVars,
                     journalVars, applied, done, subsetAttempt>>
      /\ worker' \in [Seqs -> {"idle", "waiting", "ready", "running", "settled", "failed"}]
  BY DEF WaitForCapacity, CapacityTimeout, IInv, TypeOK
<1>2. TypeOK' /\ BatchIsRun'
  BY <1>1 DEF IInv, TypeOK, BatchIsRun, drainVars, journalVars
<1> QED
  BY <1>1, <1>2, QuietKeeps DEF IInv

(* noteInFlight keeps the invariant. *)
LEMMA NoteInFlightKeeps ==
  ASSUME IInv, NEW s \in Seqs, NoteInFlight(s)
  PROVE  IInv'
<1>1. /\ ledger' = Started(ledger, s)
      /\ worker' = [worker EXCEPT ![s] = "running"]
      /\ UNCHANGED <<envelopes, bufferedBytes, maxSeenSeq, aborted, drainVars,
                     journalVars, applied, done, subsetAttempt>>
  BY DEF NoteInFlight
<1>2. LedgerInv(ledger) /\ ledger.state \in [Seqs -> States]
  BY DEF IInv, LedgerInv, Ledgers
<1>3. /\ LedgerInv(ledger') /\ Settles(ledger, ledger')
      /\ ledger'.state
           = [ledger.state EXCEPT ![s] = IF @ \in {"UNSEEN", "DISPATCHED"} THEN "IN_FLIGHT" ELSE @]
  BY <1>1, <1>2, StartedKeeps
<1>4. BatchIsRun' /\ JournalIsPrefix'
  BY <1>1, <1>3, SettlesKeepsRun DEF drainVars, journalVars
<1>5. FatesSealed'
  BY <1>1, <1>2, <1>3, FatesKept DEF Leased
<1>6. EnvelopesTerminal'
  BY <1>1, <1>3 DEF IInv, EnvelopesTerminal, Settles
<1>7. TypeOK'
  BY <1>1, <1>3 DEF IInv, TypeOK, LedgerInv, drainVars, journalVars
<1> QED
  BY <1>3, <1>4, <1>5, <1>6, <1>7 DEF IInv

(* A heartbeat and the expiry of a lease keep the invariant. *)
LEMMA LeaseActionsKeep ==
  ASSUME IInv, NEW s \in Seqs, Heartbeat(s) \/ LeaseExpires(s)
  PROVE  IInv'
<1>1. UNCHANGED <<envelopes, bufferedBytes, maxSeenSeq, aborted, drainVars,
                  journalVars, applied, callerVars>>
  BY DEF Heartbeat, LeaseExpires
<1>2. LedgerInv(ledger) /\ ledger \in Ledgers
  BY DEF IInv, LedgerInv
<1>3. /\ LedgerInv(ledger')
      /\ ledger'.state = ledger.state /\ ledger'.nextCommitSeq = ledger.nextCommitSeq
  <2>1. CASE Heartbeat(s)
    BY <1>2, <2>1, RenewKeeps DEF Heartbeat, Renew, Ledgers
  <2>2. CASE LeaseExpires(s)
    BY <1>2, <2>2, LeaseKeeps DEF LeaseExpires, Age, Ledgers
  <2> QED
    BY <2>1, <2>2
<1>4. Settles(ledger, ledger')
  BY <1>3 DEF Settles
<1>5. BatchIsRun' /\ JournalIsPrefix'
  BY <1>1, <1>3, <1>4, SettlesKeepsRun DEF drainVars, journalVars
<1>6. FatesSealed'
  BY <1>1, <1>3, FatesKept
<1>7. EnvelopesTerminal'
  BY <1>1, <1>3 DEF IInv, EnvelopesTerminal
<1>8. TypeOK'
  BY <1>1, <1>3 DEF IInv, TypeOK, LedgerInv, drainVars, journalVars, callerVars
<1> QED
  BY <1>3, <1>5, <1>6, <1>7, <1>8 DEF IInv

(* A report turned away keeps the invariant. *)
LEMMA TurnedAwayKeeps ==
  ASSUME IInv, NEW s \in Seqs, NEW t \in Terminals, TurnedAway(s, t),
         UNCHANGED <<aborted, applied, subsetAttempt>>
  PROVE  IInv'
<1>1. /\ UNCHANGED <<ledger, envelopes, bufferedBytes, drainVars, journalVars,
                     aborted, applied, subsetAttempt>>
      /\ done' \in [Seqs -> {"none", "pending", "resolved", "rejected"}]
      /\ worker' \in [Seqs -> {"idle", "waiting", "ready", "running", "settled", "failed"}]
      /\ maxSeenSeq' \in Int
  BY SeqsAssumption DEF TurnedAway, IInv, TypeOK
<1>2. TypeOK' /\ BatchIsRun'
  BY <1>1 DEF IInv, TypeOK, BatchIsRun, drainVars, journalVars
<1> QED
  BY <1>1, <1>2, QuietKeeps DEF IInv

(* A request to drain starts a scan or leaves the running drain() alone. *)
LEMMA RequestDrainKeeps ==
  ASSUME IInv, RequestDrain
  PROVE  /\ UNCHANGED <<cursor, batch>>
         /\ drain' = drain \/ {drain, drain'} \subseteq {"idle", "scan", "finally"}
         /\ drain' \in {"idle", "scan", "collect", "commit", "apply", "finally"}
         /\ flushRequested' \in BOOLEAN
BY DEF RequestDrain, IInv, TypeOK

(* Journaling another outcome does not change the first one. *)
LEMMA HeadOfAppend ==
  ASSUME NEW S, NEW q \in Seq(S), NEW x \in S
  PROVE  /\ Append(q, x) # <<>>
         /\ Head(Append(q, x)) = IF q = <<>> THEN x ELSE Head(q)
<1>1. Len(Append(q, x)) = Len(q) + 1 /\ Len(q) \in Nat
  OBVIOUS
<1>2. Append(q, x) # <<>>
  BY <1>1
<1>3. CASE q = <<>>
  BY <1>3
<1>4. CASE q # <<>>
  <2>1. Len(q) >= 1
    BY <1>4
  <2>2. Append(q, x)[1] = q[1]
    BY <2>1
  <2> QED
    BY <1>2, <1>4, <2>2
<1> QED
  BY <1>2, <1>3, <1>4

(* An accepted report keeps the invariant. *)
LEMMA AcceptedKeeps ==
  ASSUME IInv, NEW s \in Seqs, NEW t \in Terminals, Accepted(s, t),
         UNCHANGED <<aborted, applied, subsetAttempt>>
  PROVE  IInv'
<1> DEFINE bytes == IF t = "SUCCESS" THEN ResultBytes[s] ELSE HeldBytes(s)
<1>1. /\ ~aborted /\ ledger.state[s] # "COMMITTED"
      /\ envelopes' = [envelopes EXCEPT ![s] = [terminal |-> t, bytes |-> bytes]]
      /\ bufferedBytes' = Dec(bufferedBytes, HeldBytes(s)) + bytes
      /\ maxSeenSeq' = IF s > maxSeenSeq THEN s ELSE maxSeenSeq
      /\ ledger' = ToTerminal(ledger, s, t)
      /\ terminalRecords' = [terminalRecords EXCEPT ![s] = Append(@, t)]
      /\ worker' = ResolveWaiters([worker EXCEPT ![s] = "settled"],
                                  envelopes', bufferedBytes', maxSeenSeq', ledger')
      /\ done' = [done EXCEPT ![s] = "pending"]
      /\ RequestDrain
      /\ UNCHANGED commitRecords
  BY DEF Accepted
<1>2. /\ TypeOK /\ LedgerInv(ledger)
      /\ ledger.state \in [Seqs -> States] /\ ledger.state[s] \in {"UNSEEN"} \cup Leased \cup Terminals
  BY <1>1 DEF IInv, LedgerInv, Ledgers, States
<1>3. /\ LedgerInv(ledger') /\ Settles(ledger, ledger')
      /\ ledger'.state
           = [ledger.state EXCEPT ![s] = IF @ \in {"UNSEEN"} \cup Leased THEN t ELSE @]
  BY <1>1, <1>2, ToTerminalKeeps
<1>4. BatchIsRun' /\ JournalIsPrefix'
  BY <1>1, <1>3, SettlesKeepsRun, RequestDrainKeeps
<1>5. EnvelopesTerminal'
  BY <1>1, <1>2, <1>3 DEF IInv, EnvelopesTerminal, TypeOK
<1>6. FatesSealed'
  <2>1. FatesSealed /\ terminalRecords \in [Seqs -> Seq(Terminals)]
    BY DEF IInv, TypeOK
  <2>2. ASSUME NEW r \in Seqs, r # s PROVE /\ terminalRecords'[r] = terminalRecords[r]
                                           /\ ledger'.state[r] = ledger.state[r]
    BY <1>1, <1>2, <1>3, <2>1, <2>2
  <2>3. /\ terminalRecords'[s] = Append(terminalRecords[s], t) /\ terminalRecords'[s] # <<>>
        /\ terminalRecords[s] = <<>> => Head(terminalRecords'[s]) = t
        /\ terminalRecords[s] # <<>> => Head(terminalRecords'[s]) = Head(terminalRecords[s])
    <3>1. terminalRecords'[s] = Append(terminalRecords[s], t) /\ terminalRecords[s] \in Seq(Terminals)
      BY <1>1, <2>1
    <3> QED
      BY <3>1, HeadOfAppend
  <2>4. ledger'.state[s] \in Terminals /\ ledger'.state[s] = Head(terminalRecords'[s])
    <3>1. CASE ledger.state[s] \in Terminals
      <4>1. Fate(s, ledger.state[s])
        BY <2>1, <3>1 DEF FatesSealed
      <4>2. ledger'.state[s] = ledger.state[s]
        BY <1>3, <3>1 DEF Settles
      <4> QED
        BY <1>1, <2>3, <3>1, <4>1, <4>2 DEF Fate
    <3>2. CASE ledger.state[s] \in {"UNSEEN"} \cup Leased
      BY <1>2, <1>3, <2>1, <2>3, <3>2 DEF FatesSealed
    <3> QED
      BY <1>2, <3>1, <3>2
  <2>5. \A i \in 1..Len(commitRecords) : commitRecords[i].seq # s /\ commitRecords[i].seq \in Seqs
    <3>1. \A i \in 1..Len(commitRecords) : commitRecords[i].seq \in InState(ledger, {"COMMITTED"})
      BY DEF IInv, JournalIsPrefix, SeqsOf
    <3> QED
      BY <1>1, <3>1 DEF InState
  <2>6. ASSUME NEW r \in Seqs
        PROVE  /\ ledger'.state[r] \in {"UNSEEN"} \cup Leased => terminalRecords'[r] = <<>>
               /\ ledger'.state[r] \in Terminals => Fate(r, ledger.state[r])'
    <3>1. CASE r = s
      BY <2>3, <2>4, <3>1 DEF Fate, Terminals, Leased
    <3>2. CASE r # s
      BY <1>1, <2>1, <2>2, <3>2 DEF FatesSealed, Fate
    <3> QED
      BY <3>1, <3>2
  <2>7. \A i \in 1..Len(commitRecords') : Fate(commitRecords[i].seq, commitRecords[i].outcome)'
    BY <1>1, <2>1, <2>2, <2>5 DEF FatesSealed, Fate
  <2> QED
    BY <2>6, <2>7 DEF FatesSealed
<1>7. TypeOK'
  <2>1. bytes \in Nat /\ HeldBytes(s) \in Nat
    BY <1>2, AppenderAssumption DEF TypeOK, Envelopes, HeldBytes
  <2>2. envelopes' \in [Seqs -> Envelopes] /\ bufferedBytes' \in Nat /\ maxSeenSeq' \in Int
    BY <1>1, <1>2, <2>1, SeqsAssumption DEF TypeOK, Envelopes, Dec
  <2>3. worker' \in [Seqs -> {"idle", "waiting", "ready", "running", "settled", "failed"}]
    <3>1. [worker EXCEPT ![s] = "settled"]
            \in [Seqs -> {"idle", "waiting", "ready", "running", "settled", "failed"}]
      BY <1>2 DEF TypeOK
    <3> QED
      BY <1>1, <3>1, ResolveWaitersType
  <2>4. /\ terminalRecords' \in [Seqs -> Seq(Terminals)]
        /\ done' \in [Seqs -> {"none", "pending", "resolved", "rejected"}]
    BY <1>1, <1>2 DEF TypeOK
  <2>5. ledger' \in Ledgers
    BY <1>3 DEF LedgerInv
  <2> QED
    BY <1>1, <1>2, <2>2, <2>3, <2>4, <2>5, RequestDrainKeeps DEF TypeOK
<1> QED
  BY <1>3, <1>4, <1>5, <1>6, <1>7 DEF IInv

(* reclaimExpiredLeases keeps the invariant. *)
LEMMA ReclaimKeeps ==
  ASSUME IInv, ReclaimExpiredLeases
  PROVE  IInv'
<1>1. /\ ledger' = TerminalizeAll(ledger, Expired(ledger), "FAIL")
      /\ terminalRecords' = [s \in Seqs |-> IF s \in Expired(ledger) THEN Append(terminalRecords[s], "FAIL")
                                                          ELSE terminalRecords[s]]
      /\ RequestDrain
      /\ UNCHANGED <<envelopes, bufferedBytes, maxSeenSeq, aborted, commitRecords, applied,
                     callerVars>>
  BY DEF ReclaimExpiredLeases, Reclaim
<1>2. /\ TypeOK /\ LedgerInv(ledger) /\ FatesSealed
      /\ Expired(ledger) \in SUBSET InState(ledger, {"UNSEEN"} \cup Leased)
      /\ \A s \in Expired(ledger) : s \in Seqs /\ ledger.state[s] \in Leased
      /\ "FAIL" \in Terminals
  BY DEF IInv, Expired, InState, Terminals
<1>3. /\ LedgerInv(ledger') /\ Settles(ledger, ledger')
      /\ ledger'.state = [s \in Seqs |-> IF s \in Expired(ledger) THEN "FAIL" ELSE ledger.state[s]]
  <2>1. LedgerInv(ledger) /\ Expired(ledger) \in SUBSET InState(ledger, {"UNSEEN"} \cup Leased)
    BY <1>2
  <2>2. "FAIL" \in Terminals
    BY DEF Terminals
  <2> QED
    <3>1. /\ LedgerInv(TerminalizeAll(ledger, Expired(ledger), "FAIL"))
          /\ Settles(ledger, TerminalizeAll(ledger, Expired(ledger), "FAIL"))
          /\ TerminalizeAll(ledger, Expired(ledger), "FAIL").state
               = [s \in Seqs |-> IF s \in Expired(ledger) THEN "FAIL" ELSE ledger.state[s]]
      BY <2>1, <2>2, TerminalizeSettles
    <3> QED
      BY <1>1, <3>1
<1>4. BatchIsRun' /\ JournalIsPrefix'
  BY <1>1, <1>3, SettlesKeepsRun, RequestDrainKeeps
<1>5. EnvelopesTerminal'
  BY <1>1, <1>3 DEF IInv, EnvelopesTerminal, Settles
<1>6. FatesSealed'
  <2>1. ASSUME NEW s \in Expired(ledger)
        PROVE  terminalRecords'[s] # <<>> /\ Head(terminalRecords'[s]) = "FAIL"
    <3>1. terminalRecords[s] = <<>>
      BY <1>2 DEF FatesSealed
    <3>2. s \in Seqs /\ "FAIL" \in Terminals /\ <<>> \in Seq(Terminals)
      BY <1>2
    <3>3. terminalRecords'[s] = Append(terminalRecords[s], "FAIL")
      BY <1>1, <3>2, Zenon
    <3> QED
      BY <3>1, <3>2, <3>3, HeadOfAppend
  <2>2. ASSUME NEW s \in Seqs
        PROVE  /\ ledger'.state[s] \in {"UNSEEN"} \cup Leased => terminalRecords'[s] = <<>>
               /\ ledger'.state[s] \in Terminals => Fate(s, ledger.state[s])'
    <3>1. CASE s \in Expired(ledger)
      BY <1>3, <2>1, <3>1 DEF Fate, Leased
    <3>2. CASE s \notin Expired(ledger)
      <4>1. terminalRecords'[s] = terminalRecords[s] /\ ledger'.state[s] = ledger.state[s]
        BY <1>1, <1>3, <3>2
      <4> QED
        BY <1>1, <1>2, <4>1 DEF FatesSealed, Fate
    <3> QED
      BY <3>1, <3>2
  <2>3. \A i \in 1..Len(commitRecords) : commitRecords[i].seq \notin Expired(ledger) /\ commitRecords[i].seq \in Seqs
    <3>1. \A i \in 1..Len(commitRecords) : commitRecords[i].seq \in InState(ledger, {"COMMITTED"})
      BY DEF IInv, JournalIsPrefix, SeqsOf
    <3> QED
      BY <1>2, <3>1 DEF InState, Leased
  <2>4. \A i \in 1..Len(commitRecords') : Fate(commitRecords[i].seq, commitRecords[i].outcome)'
    BY <1>1, <1>2, <2>3 DEF FatesSealed, Fate
  <2> QED
    BY <2>2, <2>4 DEF FatesSealed
<1>7. TypeOK'
  <2>1. terminalRecords' \in [Seqs -> Seq(Terminals)]
    BY <1>1, <1>2 DEF TypeOK
  <2>2. ledger' \in Ledgers
    BY <1>3 DEF LedgerInv
  <2> QED
    BY <1>1, <1>2, <2>1, <2>2, RequestDrainKeeps DEF TypeOK, callerVars
<1> QED
  BY <1>3, <1>4, <1>5, <1>6, <1>7 DEF IInv

(* resetForRetry keeps the invariant. *)
LEMMA ResetForRetryKeeps ==
  ASSUME IInv, NEW S \in Shards, ResetForRetry(S)
  PROVE  IInv'
<1> DEFINE rerun == [s \in Seqs |-> IF s \in S THEN "idle" ELSE worker[s]]
<1>1. /\ subsetAttempt' = [subsetAttempt EXCEPT ![S] = @ + 1]
      /\ ledger' = ResetNonTerminal(ledger, S)
      /\ worker' = IF ledger'.state = ledger.state THEN rerun
                   ELSE ResolveWaiters(rerun, envelopes, bufferedBytes, maxSeenSeq, ledger')
      /\ UNCHANGED <<envelopes, bufferedBytes, maxSeenSeq, aborted, drainVars, journalVars,
                     applied, done>>
  BY DEF ResetForRetry
<1>2. TypeOK /\ LedgerInv(ledger) /\ S \in SUBSET Seqs
  BY AppenderAssumption DEF IInv
<1>3. /\ LedgerInv(ledger') /\ Settles(ledger, ledger')
      /\ \A s \in Seqs : \/ ledger'.state[s] = ledger.state[s]
                         \/ ledger'.state[s] = "UNSEEN" /\ ledger.state[s] \in Leased
  BY <1>1, <1>2, ResetSettles
<1>4. BatchIsRun' /\ JournalIsPrefix'
  BY <1>1, <1>3, SettlesKeepsRun DEF drainVars, journalVars
<1>5. FatesSealed'
  BY <1>1, <1>3, FatesKept
<1>6. EnvelopesTerminal'
  BY <1>1, <1>3 DEF IInv, EnvelopesTerminal, Settles
<1>7. TypeOK'
  <2>1. rerun \in [Seqs -> {"idle", "waiting", "ready", "running", "settled", "failed"}]
    BY <1>2 DEF TypeOK
  <2>2. worker' \in [Seqs -> {"idle", "waiting", "ready", "running", "settled", "failed"}]
    BY <1>1, <2>1, ResolveWaitersType
  <2>3. subsetAttempt' \in [Shards -> Nat] /\ ledger' \in Ledgers
    BY <1>1, <1>2, <1>3 DEF TypeOK, LedgerInv
  <2> QED
    BY <1>1, <1>2, <2>2, <2>3 DEF TypeOK, drainVars, journalVars
<1> QED
  BY <1>3, <1>4, <1>5, <1>6, <1>7 DEF IInv

(* abort keeps the invariant. *)
LEMMA AbortActionKeeps ==
  ASSUME IInv, Abort
  PROVE  IInv'
<1>1. AbortEffect /\ UNCHANGED <<maxSeenSeq, drainVars, journalVars, applied, subsetAttempt>>
  BY DEF Abort
<1>2. BatchIsRun' /\ JournalIsPrefix'
  BY <1>1, AbortKeeps, SettlesKeepsRun DEF drainVars, journalVars
<1>3. FatesSealed'
  BY <1>1, AbortKeeps, FatesKept
<1>4. EnvelopesTerminal'
  BY <1>1, AbortKeeps DEF IInv, EnvelopesTerminal, Settles
<1>5. TypeOK'
  BY <1>1, AbortKeeps DEF IInv, TypeOK, LedgerInv, drainVars, journalVars
<1> QED
  BY <1>1, <1>2, <1>3, <1>4, <1>5, AbortKeeps DEF IInv

(* A further call of drain() keeps the invariant. *)
LEMMA CallDrainKeeps ==
  ASSUME IInv, CallDrain
  PROVE  IInv'
<1>1. RequestDrain /\ UNCHANGED <<ledger, envelopes, bufferedBytes, maxSeenSeq, aborted,
                                  journalVars, applied, callerVars>>
  BY DEF CallDrain
<1>2. TypeOK' /\ BatchIsRun'
  BY <1>1, RequestDrainKeeps DEF IInv, TypeOK, BatchIsRun, journalVars, callerVars
<1> QED
  BY <1>1, <1>2, QuietKeeps DEF IInv

-----------------------------------------------------------------------------
(* The steps of drain() *)

(* Those that neither move the ledger nor commit. *)
LEMMA QuietDrainKeeps ==
  ASSUME IInv, ScanHead \/ CollectEnds \/ BeginApply \/ EndBatch \/ Finally
  PROVE  IInv'
<1>1. /\ UNCHANGED <<ledger, envelopes, bufferedBytes, maxSeenSeq, aborted, journalVars,
                     applied, done, subsetAttempt>>
      /\ worker' = worker \/ worker' = ResolveWaiters(worker, envelopes, bufferedBytes, maxSeenSeq, ledger)
  BY DEF ScanHead, CollectEnds, BeginApply, EndBatch, Finally, callerVars
<1>2. TypeOK /\ BatchIsRun /\ ledger.nextCommitSeq \in Nat
  BY DEF IInv, TypeOK, Ledgers
<1>3. /\ drain' \in {"idle", "scan", "collect", "commit", "apply", "finally"}
      /\ cursor' \in Nat /\ batch' \in Seq(Items) /\ flushRequested' \in BOOLEAN
      /\ worker' \in [Seqs -> {"idle", "waiting", "ready", "running", "settled", "failed"}]
  <2>1. worker' \in [Seqs -> {"idle", "waiting", "ready", "running", "settled", "failed"}]
    <3>1. worker \in [Seqs -> {"idle", "waiting", "ready", "running", "settled", "failed"}]
      BY <1>2 DEF TypeOK
    <3>2. ResolveWaiters(worker, envelopes, bufferedBytes, maxSeenSeq, ledger)
            \in [Seqs -> {"idle", "waiting", "ready", "running", "settled", "failed"}]
      BY <3>1, ResolveWaitersType
    <3> QED
      BY <1>1, <3>1, <3>2
  <2>2. CASE ScanHead
    BY <1>2, <2>1, <2>2 DEF ScanHead, TypeOK
  <2>3. CASE CollectEnds \/ BeginApply \/ EndBatch \/ Finally
    BY <1>2, <2>1, <2>3 DEF CollectEnds, BeginApply, EndBatch, Finally, TypeOK
  <2> QED
    BY <2>2, <2>3
<1>4. BatchIsRun'
  <2>1. CASE ScanHead
    BY <1>2, <2>1 DEF ScanHead, BatchIsRun
  <2>2. CASE CollectEnds
    BY <1>2, <2>2 DEF CollectEnds, BatchIsRun
  <2>3. CASE BeginApply
    BY <1>2, <2>3 DEF BeginApply, BatchIsRun
  <2>4. CASE EndBatch
    BY <1>2, <2>4 DEF EndBatch, BatchIsRun
  <2>5. CASE Finally
    BY <1>2, <2>5 DEF Finally, BatchIsRun
  <2> QED
    BY <2>1, <2>2, <2>3, <2>4, <2>5
<1>5. TypeOK'
  BY <1>1, <1>2, <1>3 DEF TypeOK, journalVars
<1> QED
  BY <1>1, <1>4, <1>5, QuietKeeps DEF IInv

(* Collecting extends the run by the seq at the cursor. *)
LEMMA CollectKeeps ==
  ASSUME IInv, Collect
  PROVE  IInv'
<1>1. TypeOK /\ LedgerInv(ledger) /\ BatchIsRun /\ EnvelopesTerminal /\ cursor \in Nat
  BY DEF IInv, TypeOK
<1>2. DrainedLedger = ledger
  BY <1>1 DEF DrainedLedger, EnvelopesTerminal
<1>3. cursor \in Seqs /\ ledger.state[cursor] \in Terminals
  BY <1>2 DEF Collect, StateOf, Terminals
<1> DEFINE item == [seq |-> cursor, outcome |-> ledger.state[cursor]]
<1>4. /\ drain = "collect" /\ batch' = Append(batch, item) /\ cursor' = cursor + 1
      /\ ledger' = ledger
      /\ envelopes' = IF envelopes[cursor] = NoEnvelope
                      THEN [envelopes EXCEPT ![cursor] = [terminal |-> ledger.state[cursor], bytes |-> 0]]
                      ELSE envelopes
      /\ UNCHANGED <<bufferedBytes, maxSeenSeq, aborted, drain, flushRequested, journalVars,
                     applied, callerVars>>
  BY <1>2 DEF Collect
<1>5. TypeOK'
  <2>1. item \in Items /\ batch \in Seq(Items)
    BY <1>1, <1>3 DEF Items, TypeOK
  <2>2. batch' \in Seq(Items) /\ cursor' \in Nat
    BY <1>1, <1>4, <2>1
  <2>3. envelopes' \in [Seqs -> Envelopes]
    BY <1>1, <1>3, <1>4 DEF TypeOK, Envelopes
  <2> QED
    BY <1>1, <1>4, <2>2, <2>3 DEF TypeOK, journalVars, callerVars
<1>6. BatchIsRun'
  <2>1. batch \in Seq(Items) /\ item \in Items /\ Len(batch) \in Nat
    BY <1>1, <1>3 DEF Items, TypeOK
  <2>2. cursor = ledger.nextCommitSeq + Len(batch) /\ ledger.nextCommitSeq \in Nat
    BY <1>1, <1>4 DEF BatchIsRun, TypeOK, Ledgers
  <2>3. /\ Len(batch') = Len(batch) + 1
        /\ \A i \in 1..Len(batch) : batch'[i] = batch[i]
        /\ batch'[Len(batch) + 1] = item
    BY <1>4, <2>1
  <2>4. ASSUME NEW i \in 1..Len(batch')
        PROVE  /\ batch'[i].seq = ledger.nextCommitSeq + i - 1
               /\ ledger.state[batch'[i].seq] = batch'[i].outcome
    <3>1. CASE i \in 1..Len(batch)
      BY <1>1, <2>3, <3>1 DEF BatchIsRun
    <3>2. CASE i = Len(batch) + 1
      BY <2>1, <2>2, <2>3, <3>2
    <3> QED
      BY <2>1, <2>3, <3>1, <3>2
  <2>5. drain' = "collect" /\ cursor' = ledger'.nextCommitSeq + Len(batch')
    BY <1>4, <2>1, <2>2, <2>3
  <2> QED
    BY <1>4, <2>4, <2>5 DEF BatchIsRun
<1>7. EnvelopesTerminal'
  BY <1>1, <1>3, <1>4 DEF EnvelopesTerminal, TypeOK
<1>8. LedgerInv(ledger') /\ JournalIsPrefix' /\ FatesSealed'
  <2>1. JournalIsPrefix'
    BY <1>4 DEF IInv, JournalIsPrefix, CommitOrder, journalVars
  <2>2. FatesSealed'
    BY <1>4, FatesKept DEF IInv
  <2> QED
    BY <1>1, <1>4, <2>1, <2>2
<1> QED
  BY <1>5, <1>6, <1>7, <1>8 DEF IInv

(* The seqs of a longer journal are those of its prefix and the new one. *)
LEMMA SeqsOfPrefix ==
  ASSUME NEW q \in Seq(Items), NEW item \in Items
  PROVE  /\ SeqsOf(Append(q, item)) = SeqsOf(q) \cup {item.seq}
         /\ SubSeq(Append(q, item), 1, Len(q)) = q
         /\ \A i \in 1..Len(q) : SubSeq(Append(q, item), 1, i - 1) = SubSeq(q, 1, i - 1)
<1>1. /\ Len(q) \in Nat /\ Len(Append(q, item)) = Len(q) + 1
      /\ Append(q, item)[Len(q) + 1] = item
      /\ \A i \in 1..Len(q) : Append(q, item)[i] = q[i]
  OBVIOUS
<1>2. SeqsOf(Append(q, item)) = SeqsOf(q) \cup {item.seq}
  <2>1. SeqsOf(Append(q, item)) = {Append(q, item)[i].seq : i \in 1..Len(q) + 1}
    BY <1>1 DEF SeqsOf
  <2>2. \A i \in 1..Len(q) + 1 : i \in 1..Len(q) \/ i = Len(q) + 1
    BY <1>1
  <2>3. Len(q) + 1 \in 1..Len(q) + 1 /\ \A i \in 1..Len(q) : i \in 1..Len(q) + 1
    BY <1>1
  <2> QED
    BY <1>1, <2>1, <2>2, <2>3 DEF SeqsOf
<1>3. SubSeq(Append(q, item), 1, Len(q)) = q
  BY <1>1
<1>4. ASSUME NEW i \in 1..Len(q)
      PROVE  SubSeq(Append(q, item), 1, i - 1) = SubSeq(q, 1, i - 1)
  BY <1>1
<1> QED
  BY <1>2, <1>3, <1>4

(* A commit is always of the seq at the cursor, and always legal. *)
LEMMA CommitItemKeeps ==
  ASSUME IInv, drain \in {"commit", "apply"}, batch # <<>>, CommitItem(Head(batch)),
         applied' \in Seq(Seqs)
  PROVE  IInv'
<1> DEFINE item == Head(batch)
           s == item.seq
<1>1. /\ TypeOK /\ LedgerInv(ledger) /\ BatchIsRun /\ EnvelopesTerminal
      /\ JournalIsPrefix /\ FatesSealed
      /\ batch \in Seq(Items) /\ Len(batch) \in Nat /\ Len(batch) >= 1
      /\ ledger \in Ledgers /\ ledger.state \in [Seqs -> States] /\ ledger.nextCommitSeq \in Nat
  BY DEF IInv, TypeOK, Ledgers
<1>2. /\ item \in Items /\ s \in Seqs /\ item.outcome \in Terminals
      /\ s = ledger.nextCommitSeq
      /\ ledger.state[s] = item.outcome
  <2>1. item = batch[1] /\ 1 \in 1..Len(batch) /\ batch[1] \in Items
    BY <1>1
  <2>2. batch[1].seq = ledger.nextCommitSeq + 1 - 1 /\ ledger.state[batch[1].seq] = batch[1].outcome
    BY <1>1, <2>1 DEF BatchIsRun
  <2> HIDE DEF item
  <2> QED
    BY <1>1, <2>1, <2>2 DEF Items
<1>3. IsLegal(ledger, s, "COMMITTED")
  BY <1>2 DEF IsLegal, StateOf, LegalTransitions
<1>4. /\ commitRecords' = Append(commitRecords, item)
      /\ ledger' = Transition(ledger, s, "COMMITTED")
      /\ envelopes' = [envelopes EXCEPT ![s] = NoEnvelope]
      /\ bufferedBytes' = Dec(bufferedBytes, HeldBytes(s))
      /\ done' = [done EXCEPT ![s] = IF @ = "pending" THEN "resolved" ELSE @]
      /\ batch' = Tail(batch)
      /\ drain' = "commit"
      /\ UNCHANGED <<aborted, worker, maxSeenSeq, flushRequested, cursor, terminalRecords,
                     subsetAttempt>>
  BY <1>3 DEF CommitItem
<1> HIDE DEF item
<1>5. /\ LedgerInv(ledger')
      /\ ledger'.state = [ledger.state EXCEPT ![s] = "COMMITTED"]
  <2>1. "COMMITTED" \in States
    BY DEF States
  <2>2. LedgerInv(Transition(ledger, s, "COMMITTED"))
    BY <1>1, <1>2, <1>3, <2>1, TransitionKeeps
  <2>3. Transition(ledger, s, "COMMITTED").state = [ledger.state EXCEPT ![s] = "COMMITTED"]
    BY <1>1, <1>2, <2>1, TransitionType
  <2> QED
    BY <1>4, <2>2, <2>3
<1>6. BatchIsRun'
  <2>1. /\ Len(batch') = Len(batch) - 1
        /\ \A i \in 1..Len(batch') : batch'[i] = batch[i + 1] /\ i + 1 \in 1..Len(batch)
    BY <1>1, <1>4
  <2>2. CASE ~(Len(batch) > 1)
    <3>1. 1..Len(batch') = {}
      BY <1>1, <2>1, <2>2
    <3> QED
      BY <1>4, <3>1 DEF BatchIsRun
  <2>3. CASE Len(batch) > 1
    <3>1. batch[2].seq = s + 1 /\ s + 1 \in Seqs /\ s \in Nat /\ ledger.state[s + 1] \in Terminals
      <4>1. 2 \in 1..Len(batch) /\ batch[2] \in Items
        BY <1>1, <2>3
      <4>2. batch[2].seq = ledger.nextCommitSeq + 2 - 1 /\ ledger.state[batch[2].seq] = batch[2].outcome
        BY <1>1, <4>1 DEF BatchIsRun
      <4> QED
        BY <1>1, <1>2, <4>1, <4>2 DEF Items
    <3>2. /\ ledger'.nextCommitSeq \in Nat
          /\ \A r \in Seqs : ledger'.state[r] = "COMMITTED" <=> r < ledger'.nextCommitSeq
      BY <1>5 DEF LedgerInv, Ledgers, CursorSplits
    <3>3. ledger'.state[s] = "COMMITTED" /\ ledger'.state[s + 1] # "COMMITTED"
      BY <1>1, <1>2, <1>5, <3>1 DEF Terminals
    <3>4. ledger'.nextCommitSeq = s + 1
      BY <1>2, <3>1, <3>2, <3>3
    <3>5. ASSUME NEW i \in 1..Len(batch')
          PROVE  /\ batch'[i].seq = ledger'.nextCommitSeq + i - 1
                 /\ ledger'.state[batch'[i].seq] = batch'[i].outcome
      <4>1. /\ batch'[i] = batch[i + 1] /\ i + 1 \in 1..Len(batch)
            /\ batch[i + 1] \in Items
        BY <1>1, <2>1
      <4>2. batch[i + 1].seq = s + i /\ ledger.state[s + i] = batch[i + 1].outcome
        BY <1>1, <1>2, <3>1, <4>1 DEF BatchIsRun
      <4>3. s + i \in Seqs /\ s + i # s
        BY <3>1, <4>1, <4>2 DEF Items
      <4> QED
        BY <1>1, <1>5, <3>1, <3>4, <4>1, <4>2, <4>3
    <3> QED
      BY <1>4, <3>5 DEF BatchIsRun
  <2> QED
    BY <2>2, <2>3
<1>7. JournalIsPrefix'
  <2>1. commitRecords \in Seq(Items) /\ Len(commitRecords) \in Nat
        /\ Len(commitRecords') = Len(commitRecords) + 1
        /\ commitRecords'[Len(commitRecords) + 1] = item
        /\ \A i \in 1..Len(commitRecords) : commitRecords'[i] = commitRecords[i]
    BY <1>1, <1>2, <1>4 DEF TypeOK
  <2>2. /\ SeqsOf(commitRecords') = SeqsOf(commitRecords) \cup {s}
        /\ SubSeq(commitRecords', 1, Len(commitRecords)) = commitRecords
        /\ \A i \in 1..Len(commitRecords) :
             SubSeq(commitRecords', 1, i - 1) = SubSeq(commitRecords, 1, i - 1)
    BY <1>2, <1>4, <2>1, SeqsOfPrefix
  <2>3. InState(ledger', {"COMMITTED"}) = InState(ledger, {"COMMITTED"}) \cup {s}
    BY <1>1, <1>2, <1>5 DEF InState
  <2>4. {r \in Seqs : r < s} = InState(ledger, {"COMMITTED"})
    BY <1>1, <1>2 DEF InState, LedgerInv, CursorSplits
  <2>5. ASSUME NEW i \in 1..Len(commitRecords')
        PROVE  {r \in Seqs : r < commitRecords'[i].seq} = SeqsOf(SubSeq(commitRecords', 1, i - 1))
    <3>1. CASE i \in 1..Len(commitRecords)
      BY <1>1, <2>1, <2>2, <3>1 DEF JournalIsPrefix, CommitOrder
    <3>2. CASE i = Len(commitRecords) + 1
      <4>1. i - 1 = Len(commitRecords)
        BY <2>1, <3>2
      <4> QED
        BY <1>1, <2>1, <2>2, <2>4, <3>2, <4>1 DEF JournalIsPrefix
    <3> QED
      BY <2>1, <3>1, <3>2
  <2> QED
    BY <1>1, <2>2, <2>3, <2>5 DEF JournalIsPrefix, CommitOrder
<1>8. FatesSealed'
  <2>1. ASSUME NEW r \in Seqs
        PROVE  /\ ledger'.state[r] \in {"UNSEEN"} \cup Leased => terminalRecords'[r] = <<>>
               /\ ledger'.state[r] \in Terminals => Fate(r, ledger.state[r])'
    <3>1. CASE r = s
      BY <1>1, <1>2, <1>5, <3>1 DEF Terminals, Leased
    <3>2. CASE r # s
      <4>1. ledger'.state[r] = ledger.state[r]
        BY <1>1, <1>5, <3>2
      <4> QED
        BY <1>1, <1>4, <4>1 DEF FatesSealed, Fate
    <3> QED
      BY <3>1, <3>2
  <2>2. Len(commitRecords') = Len(commitRecords) + 1 /\ Len(commitRecords) \in Nat
        /\ commitRecords'[Len(commitRecords) + 1] = item
        /\ \A i \in 1..Len(commitRecords) : commitRecords'[i] = commitRecords[i]
    BY <1>1, <1>2, <1>4 DEF TypeOK
  <2>3. Fate(s, item.outcome)
    BY <1>1, <1>2 DEF FatesSealed
  <2>4. ASSUME NEW i \in 1..Len(commitRecords')
        PROVE  Fate(commitRecords[i].seq, commitRecords[i].outcome)'
    <3>1. CASE i \in 1..Len(commitRecords)
      BY <1>1, <1>4, <2>2, <3>1 DEF FatesSealed, Fate
    <3>2. CASE i = Len(commitRecords) + 1
      BY <1>4, <2>2, <2>3, <3>2 DEF Fate
    <3> QED
      BY <2>2, <3>1, <3>2
  <2> QED
    BY <2>1, <2>4 DEF FatesSealed
<1>9. EnvelopesTerminal'
  BY <1>1, <1>2, <1>4, <1>5 DEF EnvelopesTerminal, TypeOK
<1>10. TypeOK'
  <2>1. HeldBytes(s) \in Nat /\ envelopes' \in [Seqs -> Envelopes]
    BY <1>1, <1>2, <1>4 DEF TypeOK, HeldBytes, Envelopes, NoEnvelope
  <2>2. bufferedBytes' \in Nat
    BY <1>1, <1>4, <2>1 DEF TypeOK, Dec
  <2>3. done' \in [Seqs -> {"none", "pending", "resolved", "rejected"}]
    BY <1>1, <1>4 DEF TypeOK
  <2>4. batch' \in Seq(Items) /\ commitRecords' \in Seq(Items)
    BY <1>1, <1>2, <1>4 DEF TypeOK
  <2>5. ledger' \in Ledgers
    BY <1>5 DEF LedgerInv
  <2> QED
    BY <1>1, <1>4, <2>1, <2>2, <2>3, <2>4, <2>5 DEF TypeOK
<1> QED
  BY <1>5, <1>6, <1>7, <1>8, <1>9, <1>10 DEF IInv

(* Committing an outcome other than SUCCESS keeps the invariant. *)
LEMMA CommitUnwrittenKeeps ==
  ASSUME IInv, CommitUnwritten
  PROVE  IInv'
BY CommitItemKeeps DEF CommitUnwritten, IInv, TypeOK

(* A successful write and its commit keep the invariant. *)
LEMMA ApplySucceedsKeeps ==
  ASSUME IInv, ApplySucceeds
  PROVE  IInv'
<1>1. drain = "apply" /\ applied' = Append(applied, Head(batch).seq) /\ CommitItem(Head(batch))
  BY DEF ApplySucceeds
<1>2. batch # <<>> /\ Head(batch) \in Items /\ applied \in Seq(Seqs)
  BY <1>1 DEF IInv, TypeOK, BatchIsRun
<1>3. applied' \in Seq(Seqs)
  BY <1>1, <1>2 DEF Items
<1> QED
  BY <1>1, <1>2, <1>3, CommitItemKeeps

(* A failed write, which aborts, keeps the invariant. *)
LEMMA ApplyFailsKeeps ==
  ASSUME IInv, ApplyFails
  PROVE  IInv'
<1>1. /\ drain = "apply"
      /\ applied' \in {applied, Append(applied, Head(batch).seq)}
      /\ AbortEffect
      /\ batch' = <<>> /\ drain' = "finally"
      /\ UNCHANGED <<maxSeenSeq, flushRequested, cursor, journalVars, subsetAttempt>>
  BY DEF ApplyFails
<1>2. batch # <<>> /\ Head(batch) \in Items /\ applied \in Seq(Seqs)
  BY <1>1 DEF IInv, TypeOK, BatchIsRun
<1>3. BatchIsRun'
  BY <1>1 DEF BatchIsRun
<1>4. JournalIsPrefix'
  <2>1. InState(ledger', {"COMMITTED"}) = InState(ledger, {"COMMITTED"})
    BY <1>1, AbortKeeps DEF InState, Settles
  <2> QED
    BY <1>1, <2>1 DEF IInv, JournalIsPrefix, CommitOrder, journalVars
<1>5. FatesSealed'
  BY <1>1, AbortKeeps, FatesKept
<1>6. EnvelopesTerminal'
  BY <1>1, AbortKeeps DEF IInv, EnvelopesTerminal, Settles
<1>7. TypeOK'
  <2>1. applied' \in Seq(Seqs)
    BY <1>1, <1>2 DEF Items
  <2>2. /\ ledger' \in Ledgers /\ aborted' \in BOOLEAN /\ envelopes' \in [Seqs -> Envelopes]
        /\ bufferedBytes' \in Nat
        /\ worker' \in [Seqs -> {"idle", "waiting", "ready", "running", "settled", "failed"}]
        /\ done' \in [Seqs -> {"none", "pending", "resolved", "rejected"}]
    BY <1>1, AbortKeeps DEF LedgerInv
  <2>3. TypeOK /\ batch' \in Seq(Items)
    BY <1>1 DEF IInv
  <2> QED
    BY <1>1, <2>1, <2>2, <2>3 DEF TypeOK, journalVars
<1> QED
  BY <1>1, <1>3, <1>4, <1>5, <1>6, <1>7, AbortKeeps DEF IInv

-----------------------------------------------------------------------------
(* The theorems *)

(* The invariant holds before the first file is dispatched. *)
LEMMA InitInv == Init => IInv
<1> SUFFICES ASSUME Init PROVE IInv
  OBVIOUS
<1>1. LedgerInv(ledger) /\ ledger \in Ledgers
  BY NewLedgerInv DEF Init, LedgerInv
<1>2. StartSeq \in Nat
  BY Bounds, SeqsAssumption
<1>3. TypeOK
  <2>1. /\ envelopes \in [Seqs -> Envelopes]
        /\ terminalRecords \in [Seqs -> Seq(Terminals)]
        /\ worker \in [Seqs -> {"idle", "waiting", "ready", "running", "settled", "failed"}]
        /\ done \in [Seqs -> {"none", "pending", "resolved", "rejected"}]
        /\ subsetAttempt \in [Shards -> Nat]
    BY DEF Init, Envelopes, NoEnvelope
  <2>2. batch \in Seq(Items) /\ commitRecords \in Seq(Items) /\ applied \in Seq(Seqs)
    BY DEF Init
  <2>3. bufferedBytes \in Nat /\ maxSeenSeq \in Int /\ cursor \in Nat
    BY <1>2 DEF Init
  <2> QED
    BY <1>1, <2>1, <2>2, <2>3 DEF Init, TypeOK
<1>4. EnvelopesTerminal
  BY DEF Init, EnvelopesTerminal
<1>5. BatchIsRun
  BY DEF Init, BatchIsRun
<1>6. ledger.state = [s \in Seqs |-> "UNSEEN"]
  BY DEF Init, NewLedger
<1>7. JournalIsPrefix
  BY <1>6 DEF Init, JournalIsPrefix, CommitOrder, SeqsOf, InState
<1>8. FatesSealed
  BY <1>6 DEF Init, FatesSealed, Terminals
<1> QED
  BY <1>1, <1>3, <1>4, <1>5, <1>7, <1>8 DEF IInv

(* Every step of the appender and its callers keeps the invariant. *)
LEMMA NextInv == IInv /\ [Next]_vars => IInv'
<1> SUFFICES ASSUME IInv, [Next]_vars PROVE IInv'
  OBVIOUS
<1>1. ASSUME NEW s \in Seqs, WaitForCapacity(s) \/ CapacityTimeout(s) PROVE IInv'
  BY <1>1, WaitingKeeps
<1>2. ASSUME NEW s \in Seqs, NoteInFlight(s) PROVE IInv'
  BY <1>2, NoteInFlightKeeps
<1>3. ASSUME NEW s \in Seqs, Heartbeat(s) \/ LeaseExpires(s) PROVE IInv'
  BY <1>3, LeaseActionsKeep
<1>4. ASSUME NEW s \in Seqs, NEW t \in Outcomes, SetTerminalEnvelope(s, t) PROVE IInv'
  <2>1. t \in Terminals
    BY AppenderAssumption
  <2> QED
    BY <1>4, <2>1, TurnedAwayKeeps, AcceptedKeeps DEF SetTerminalEnvelope
<1>5. ASSUME ReclaimExpiredLeases PROVE IInv'
  BY <1>5, ReclaimKeeps
<1>6. ASSUME NEW S \in Shards, ResetForRetry(S) PROVE IInv'
  BY <1>6, ResetForRetryKeeps
<1>7. ASSUME Abort PROVE IInv'
  BY <1>7, AbortActionKeeps
<1>8. ASSUME CallDrain PROVE IInv'
  BY <1>8, CallDrainKeeps
<1>9. ASSUME Drain PROVE IInv'
  BY <1>9, QuietDrainKeeps, CollectKeeps, CommitUnwrittenKeeps, ApplySucceedsKeeps,
     ApplyFailsKeeps DEF Drain
<1>10. ASSUME UNCHANGED vars PROVE IInv'
  <2>1. TypeOK' /\ BatchIsRun'
    BY <1>10 DEF IInv, TypeOK, BatchIsRun, vars, drainVars, journalVars, callerVars
  <2> QED
    BY <1>10, <2>1, QuietKeeps DEF IInv, vars, journalVars
<1> QED
  BY <1>1, <1>2, <1>3, <1>4, <1>5, <1>6, <1>7, <1>8, <1>9, <1>10 DEF Next, Terminated

(* The inductive invariant holds in every behaviour of the appender. *)
THEOREM Invariant == Spec => []IInv
BY InitInv, NextInv, PTL DEF Spec

(* Every variable keeps its type in every behaviour. *)
THEOREM TypeCorrect == Spec => []TypeOK
<1>1. IInv => TypeOK
  BY DEF IInv
<1> QED
  BY <1>1, Invariant, PTL

(* The counters, the cursor and the leases of createSeqLedger always agree *)
(* with the states, whatever mix of reports, retries, reclaims and aborts. *)
THEOREM LedgerStaysExact == Spec => []LedgerExact
<1>1. IInv => LedgerExact
  BY CursorSplitsExact DEF IInv, LedgerInv, LedgerExact
<1> QED
  BY <1>1, Invariant, PTL

(* drain() commits every expected seq in discovery order, without a gap.   *)
THEOREM CommitsInOrder == Spec => []CommitOrder
<1>1. IInv => CommitOrder
  BY DEF IInv, JournalIsPrefix
<1> QED
  BY <1>1, Invariant, PTL

(* What drain() collected is still true after it awaited a write.          *)
THEOREM CollectedStaysTrue == Spec => []BatchStaysTerminal
<1>1. IInv => BatchStaysTerminal
  BY DEF IInv, BatchIsRun, BatchStaysTerminal
<1> QED
  BY <1>1, Invariant, PTL

(* The first outcome journaled for a seq is the one it is committed with.  *)
THEOREM FirstOutcomeStays == Spec => []FirstOutcomeWins
<1>1. IInv => FirstOutcomeWins
  BY DEF IInv, FatesSealed, Fate, FirstOutcomeWins
<1> QED
  BY <1>1, Invariant, PTL

(* Replaying the journal restores the commit cursor and the committed set. *)
THEOREM ReplayIsFaithful == Spec => []ReplayRestoresCursor
<1>1. ASSUME IInv PROVE ReplayRestoresCursor
  <2> DEFINE committed == InState(ledger, {"COMMITTED"})
             missing   == Seqs \ committed
  <2>1. /\ SeqsOf(commitRecords) = committed
        /\ ledger.nextCommitSeq \in Nat
        /\ ledger.nextCommitSeq \in Seqs \cup {EndSeq + 1}
        /\ \A s \in Seqs : s \in committed <=> s < ledger.nextCommitSeq
    BY <1>1 DEF IInv, JournalIsPrefix, LedgerInv, CursorSplits, Ledgers, InState
  <2>2. \A s \in Seqs : s \in Nat /\ s <= EndSeq
    BY Bounds, SeqsAssumption
  <2>3. EndSeq \in Seqs
    BY Bounds
  <2> HIDE DEF committed
  <2>4. CASE missing = {}
    <3>1. ledger.nextCommitSeq = EndSeq + 1
      BY <2>1, <2>2, <2>4
    <3> QED
      BY <2>1, <2>4, <3>1 DEF ReplayRestoresCursor, ReplayedCursor, committed
  <2>5. CASE missing # {}
    <3>1. missing \in SUBSET Nat
      BY <2>2
    <3>2. Min(missing) \in missing /\ \A s \in missing : Min(missing) <= s
      BY <2>5, <3>1, MinOfNats
    <3>3. ledger.nextCommitSeq \in missing
      <4>1. PICK m \in missing : m \in Seqs /\ m \notin committed
        BY <2>5
      <4>2. m >= ledger.nextCommitSeq /\ m <= EndSeq /\ m \in Nat /\ EndSeq \in Nat
        BY <2>1, <2>2, <2>3, <4>1
      <4>3. ledger.nextCommitSeq \in Seqs
        BY <2>1, <4>2
      <4> QED
        BY <2>1, <4>3
    <3>4. ledger.nextCommitSeq = Min(missing)
      BY <2>1, <2>2, <3>2, <3>3
    <3> QED
      BY <2>1, <2>5, <3>4 DEF ReplayRestoresCursor, ReplayedCursor, committed
  <2> QED
    BY <2>4, <2>5
<1> QED
  BY <1>1, Invariant, PTL
=============================================================================
