------------------------------ MODULE SeqLedger ------------------------------
(***************************************************************************)
(* The Stage1 seq ledger: createSeqLedger in                               *)
(* src/index/build/indexer/steps/process-files/ordering.js.                *)
(*                                                                         *)
(* The ledger is a value, not a process: every method runs to completion   *)
(* inside one JavaScript turn of its caller, the ordered appender.  It is  *)
(* therefore modelled as a record and each method as an operator from a    *)
(* ledger to a ledger; OrderedAppender.tla holds the ledger variable.      *)
(*                                                                         *)
(* Abstracted: the clock.  A lease is "fresh" when its age is below the    *)
(* timeout and "stale" when it has reached it; LeaseExpire (in             *)
(* OrderedAppender) is the passage of time.  leaseOwner and terminalReason *)
(* are data no transition depends on and are left out.                     *)
(***************************************************************************)
EXTENDS Integers, FiniteSets, FiniteSetsExt

CONSTANT Seqs      \* expectedSeqs: the order indices Stage1 must commit

ASSUME SeqsAssumption ==
  /\ Seqs \subseteq Nat
  /\ Seqs # {}
  /\ IsFiniteSet(Seqs)

StartSeq == Min(Seqs)
EndSeq   == Max(Seqs)

-----------------------------------------------------------------------------
(* STAGE1_SEQ_STATE *)

Terminals == {"SUCCESS", "SKIP", "FAIL", "CANCEL"}
Leased    == {"DISPATCHED", "IN_FLIGHT"}
States    == {"UNSEEN", "COMMITTED"} \cup Leased \cup Terminals

LegalTransitions ==
  {<<"UNSEEN", "DISPATCHED">>, <<"DISPATCHED", "IN_FLIGHT">>,
   <<"DISPATCHED", "CANCEL">>, <<"DISPATCHED", "FAIL">>, <<"FAIL", "DISPATCHED">>}
  \cup ({"IN_FLIGHT"} \X Terminals)
  \cup (Terminals \X {"COMMITTED"})

Ledgers ==
  [state           : [Seqs -> States],
   attempts        : [Seqs -> Nat],
   lease           : [Seqs -> {"none", "fresh", "stale"}],
   terminalCount   : Nat,
   committedCount  : Nat,
   inFlightCount   : Nat,
   dispatchedCount : Nat,
   nextCommitSeq   : Nat]

NewLedger ==
  [state           |-> [s \in Seqs |-> "UNSEEN"],
   attempts        |-> [s \in Seqs |-> 0],
   lease           |-> [s \in Seqs |-> "none"],
   terminalCount   |-> 0,
   committedCount  |-> 0,
   inFlightCount   |-> 0,
   dispatchedCount |-> 0,
   nextCommitSeq   |-> StartSeq]

(* getState: a seq outside expectedSeqs is a hole, UNUSED. *)
StateOf(l, s) == IF s \in Seqs THEN l.state[s] ELSE "UNUSED"

\* Mutant: one past the last commit, holes not skipped.
AdvanceByOne(state, cursor) == IF cursor < EndSeq THEN cursor + 1 ELSE EndSeq + 1

(* advanceNextCommitSeq: the first slot from the cursor on that is neither *)
(* a hole nor committed, or one past the end.                              *)
AdvanceFrom(state, cursor) ==
  LET open == {s \in Seqs : s >= cursor /\ state[s] # "COMMITTED"}
  IN IF open = {} THEN EndSeq + 1 ELSE Min(open)

(* Math.max(0, count - 1), applied only when the counter is concerned. *)
Dec(count, n) == IF count >= n THEN count - n ELSE 0
One(cond)     == IF cond THEN 1 ELSE 0

(* transition, its guard assertLegalTransition taken by the caller. *)
IsLegal(l, s, next) == <<StateOf(l, s), next>> \in LegalTransitions

\* Mutant: leaving DISPATCHED is not counted.
TransitionUncounted(l, s, next) ==
  LET state == [l.state EXCEPT ![s] = next]
  IN [l EXCEPT
        !.state           = state,
        !.attempts[s]     = @ + One(next = "DISPATCHED"),
        !.lease[s]        = IF next \in Leased THEN "fresh" ELSE "none",
        !.terminalCount   = @ + One(next \in Terminals),
        !.committedCount  = @ + One(next = "COMMITTED"),
        !.inFlightCount   = Dec(@, One(l.state[s] = "IN_FLIGHT")) + One(next = "IN_FLIGHT"),
        !.dispatchedCount = @ + One(next = "DISPATCHED"),
        !.nextCommitSeq   = IF next = "COMMITTED" THEN AdvanceFrom(state, @) ELSE @]

Transition(l, s, next) ==
  LET prior == l.state[s]
      state == [l.state EXCEPT ![s] = next]
  IN [state           |-> state,
      attempts        |-> [l.attempts EXCEPT ![s] = @ + One(next = "DISPATCHED")],
      lease           |-> [l.lease EXCEPT ![s] = IF next \in Leased THEN "fresh" ELSE "none"],
      terminalCount   |-> Dec(l.terminalCount, One(prior = "FAIL" /\ next = "DISPATCHED"))
                            + One(next \in Terminals),
      committedCount  |-> l.committedCount + One(next = "COMMITTED"),
      inFlightCount   |-> Dec(l.inFlightCount, One(prior = "IN_FLIGHT")) + One(next = "IN_FLIGHT"),
      dispatchedCount |-> Dec(l.dispatchedCount, One(prior = "DISPATCHED")) + One(next = "DISPATCHED"),
      nextCommitSeq   |-> IF next = "COMMITTED" THEN AdvanceFrom(state, l.nextCommitSeq)
                                                ELSE l.nextCommitSeq]

\* Mutant: every seq is taken off the in-flight count, in flight or not.
TerminalizeUnclamped(l, S, t) ==
  [l EXCEPT !.state         = [s \in Seqs |-> IF s \in S THEN t ELSE l.state[s]],
            !.lease         = [s \in Seqs |-> IF s \in S THEN "none" ELSE l.lease[s]],
            !.terminalCount = @ + Cardinality(S),
            !.inFlightCount = @ - Cardinality(S)]

(* The effect of taking every seq of S, none of them terminal, to terminal *)
(* state t.  A seq still UNSEEN is dispatched on the way.                  *)
TerminalizeAll(l, S, t) ==
  [l EXCEPT !.state           = [s \in Seqs |-> IF s \in S THEN t ELSE l.state[s]],
            !.attempts        = [s \in Seqs |-> l.attempts[s] + One(s \in S /\ l.state[s] = "UNSEEN")],
            !.lease           = [s \in Seqs |-> IF s \in S THEN "none" ELSE l.lease[s]],
            !.terminalCount   = @ + Cardinality(S),
            !.inFlightCount   = Dec(@, Cardinality({s \in S : l.state[s] = "IN_FLIGHT"})),
            !.dispatchedCount = Dec(@, Cardinality({s \in S : l.state[s] = "DISPATCHED"}))]

\* Mutant: terminal seqs are reopened too.
ResetAll(l, S) ==
  LET reset == {s \in S : l.state[s] # "COMMITTED"}
  IN [l EXCEPT !.state         = [s \in Seqs |-> IF s \in reset THEN "UNSEEN" ELSE l.state[s]],
               !.lease         = [s \in Seqs |-> IF s \in reset THEN "none" ELSE l.lease[s]],
               !.terminalCount = Dec(@, Cardinality({s \in reset : l.state[s] \in Terminals}))]

(* resetNonTerminal over the seqs of a shard: a leased seq is unseen again, *)
(* keeps its attempts, and may pull the commit cursor back.                 *)
ResetNonTerminal(l, S) ==
  LET reset == {s \in S : l.state[s] \in Leased}
  IN [l EXCEPT !.state           = [s \in Seqs |-> IF s \in reset THEN "UNSEEN" ELSE l.state[s]],
               !.lease           = [s \in Seqs |-> IF s \in reset THEN "none" ELSE l.lease[s]],
               !.inFlightCount   = Dec(@, Cardinality({s \in reset : l.state[s] = "IN_FLIGHT"})),
               !.dispatchedCount = Dec(@, Cardinality({s \in reset : l.state[s] = "DISPATCHED"})),
               !.nextCommitSeq   = IF reset = {} THEN @ ELSE Min({@} \cup reset)]

(* reclaimExpiredLeases with includeDispatched: every leased seq whose     *)
(* lease has expired fails.                                                *)
Expired(l) == {s \in Seqs : l.state[s] \in Leased /\ l.lease[s] = "stale"}
\* Mutant: an expired seq is reopened instead of failed.
ReclaimReopening(l) == ResetNonTerminal(l, Expired(l))
Reclaim(l) == TerminalizeAll(l, Expired(l), "FAIL")

(* heartbeat: only an in-flight lease is renewed. *)
Renew(l, s) == [l EXCEPT !.lease[s] = IF l.state[s] = "IN_FLIGHT" THEN "fresh" ELSE @]

(* Time reaching leaseTimeoutMs (dispatchLeaseTimeoutMs for a dispatched seq). *)
Age(l, s) == [l EXCEPT !.lease[s] = "stale"]

-----------------------------------------------------------------------------
(* What a ledger promises about itself. *)

InState(l, S) == {s \in Seqs : l.state[s] \in S}

(* The O(1) counters agree with the states they summarise; a committed seq *)
(* stays counted as terminal.                                              *)
CountersExact(l) ==
  /\ l.terminalCount   = Cardinality(InState(l, Terminals \cup {"COMMITTED"}))
  /\ l.committedCount  = Cardinality(InState(l, {"COMMITTED"}))
  /\ l.inFlightCount   = Cardinality(InState(l, {"IN_FLIGHT"}))
  /\ l.dispatchedCount = Cardinality(InState(l, {"DISPATCHED"}))

(* The commit cursor is the first expected seq not yet committed. *)
CursorExact(l) == l.nextCommitSeq = AdvanceFrom(l.state, StartSeq)

(* A lease is held exactly by the seqs somebody works on. *)
LeasesExact(l) == \A s \in Seqs : l.lease[s] # "none" <=> l.state[s] \in Leased
=============================================================================
