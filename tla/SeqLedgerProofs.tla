--------------------------- MODULE SeqLedgerProofs ---------------------------
(* What the operators of the Stage1 seq ledger preserve, for every set of  *)
(* expected seqs.                                                          *)
EXTENDS SeqLedger, FiniteSetTheorems, TLAPS

-----------------------------------------------------------------------------
(* Least and greatest elements *)

(* A nonempty set of naturals has a least element, which Min returns. *)
LEMMA MinOfNats ==
  ASSUME NEW S \in SUBSET Nat, S # {}
  PROVE  Min(S) \in S /\ \A n \in S : Min(S) <= n
<1>1. PICK m \in S : \A n \in S : ~(<<n, m>> \in OpToRel(<, Nat))
  BY NatLessThanWellFounded, WFMin, Zenon
<1>2. ASSUME NEW n \in S PROVE m <= n
  <2>1. n \in Nat /\ m \in Nat
    OBVIOUS
  <2>2. n < m => <<n, m>> \in OpToRel(<, Nat)
    BY <2>1, Zenon DEF OpToRel
  <2>3. ~(n < m)
    BY <1>1, <2>2, Zenon
  <2> QED
    BY <2>1, <2>3
<1> QED
  BY <1>2 DEF Min

(* A finite nonempty set of naturals has a greatest one: Max returns it. *)
LEMMA MaxOfFinite ==
  ASSUME NEW S \in SUBSET Nat, S # {}, IsFiniteSet(S)
  PROVE  Max(S) \in S /\ \A n \in S : Max(S) >= n
<1> DEFINE HasMax(T) == \E m \in T : \A n \in T : m >= n
           Bad == {T \in SUBSET S : T # {} /\ ~HasMax(T)}
<1>1. Bad = {}
  <2> SUFFICES ASSUME Bad # {} PROVE FALSE
    OBVIOUS
  <2>1. Bad \subseteq FiniteSubsetsOf(S)
    BY FS_FiniteSubsetsOfFinite DEF FiniteSubsetsOf
  <2>2. PICK T \in Bad : \A U \in Bad : ~(<<U, T>> \in StrictSubsetOrdering(S))
    BY <2>1, FS_StrictSubsetOrderingWellFounded, WFMin, Zenon
  <2>3. PICK x \in T : TRUE
    BY <2>2
  <2>4. T \ {x} \notin Bad
    BY <2>2, <2>3 DEF StrictSubsetOrdering
  <2>5. CASE T \ {x} = {}
    BY <2>2, <2>3, <2>5
  <2>6. CASE HasMax(T \ {x})
    <3>1. PICK m \in T \ {x} : \A n \in T \ {x} : m >= n
      BY <2>6
    <3>2. m \in Nat /\ x \in Nat
      BY <2>2, <2>3, <3>1
    <3>3. CASE m >= x
      BY <2>2, <3>1, <3>3
    <3>4. CASE ~(m >= x)
      <4>1. \A n \in T : x >= n
        BY <2>2, <2>3, <3>1, <3>2, <3>4
      <4> QED
        BY <2>2, <2>3, <4>1
    <3> QED
      BY <3>3, <3>4
  <2> QED
    BY <2>2, <2>4, <2>5, <2>6
<1>2. HasMax(S)
  BY <1>1
<1> QED
  BY <1>2 DEF Max

(* Every expected seq lies between StartSeq and EndSeq. *)
LEMMA Bounds ==
  /\ StartSeq \in Seqs /\ EndSeq \in Seqs
  /\ \A s \in Seqs : StartSeq <= s /\ s <= EndSeq
BY SeqsAssumption, MinOfNats, MaxOfFinite DEF StartSeq, EndSeq

(* advanceNextCommitSeq stops at the first slot that is not committed. *)
LEMMA AdvanceIsFirstOpen ==
  ASSUME NEW state \in [Seqs -> States], NEW cursor \in Nat
  PROVE  /\ AdvanceFrom(state, cursor) \in Nat
         /\ \A s \in Seqs : s >= cursor /\ s < AdvanceFrom(state, cursor)
                            => state[s] = "COMMITTED"
         /\ \/ AdvanceFrom(state, cursor) = EndSeq + 1
            \/ /\ AdvanceFrom(state, cursor) \in Seqs
               /\ AdvanceFrom(state, cursor) >= cursor
               /\ state[AdvanceFrom(state, cursor)] # "COMMITTED"
<1> DEFINE open == {s \in Seqs : s >= cursor /\ state[s] # "COMMITTED"}
<1>1. open \in SUBSET Nat /\ open \subseteq Seqs
  BY SeqsAssumption
<1>2. CASE open = {}
  <2>1. AdvanceFrom(state, cursor) = EndSeq + 1
    BY <1>2 DEF AdvanceFrom
  <2> QED
    BY <1>2, <2>1, Bounds, SeqsAssumption
<1>3. CASE open # {}
  <2>1. AdvanceFrom(state, cursor) = Min(open)
    BY <1>3 DEF AdvanceFrom
  <2>2. Min(open) \in open /\ \A n \in open : Min(open) <= n
    BY <1>1, <1>3, MinOfNats
  <2> QED
    BY <1>1, <2>1, <2>2, SeqsAssumption
<1> QED
  BY <1>2, <1>3

-----------------------------------------------------------------------------
(* Counting the seqs in a set of states *)

Count(state, X) == Cardinality({s \in Seqs : state[s] \in X})

(* The seqs in given states can be counted. *)
LEMMA CountIsNat ==
  ASSUME NEW state, NEW X
  PROVE  /\ Count(state, X) \in Nat
         /\ (\E s \in Seqs : state[s] \in X) => Count(state, X) >= 1
<1> DEFINE In == {s \in Seqs : state[s] \in X}
<1>1. In \in SUBSET Seqs /\ IsFiniteSet(In)
  BY SeqsAssumption, FS_Subset
<1>2. Cardinality(In) \in Nat
  BY <1>1, FS_CardinalityType
<1>3. Cardinality(In) = 0 <=> In = {}
  BY <1>1, FS_EmptySet
<1> QED
  BY <1>2, <1>3 DEF Count

(* Moving one seq to another state moves the counts by at most one. *)
LEMMA CountMove ==
  ASSUME NEW state \in [Seqs -> States], NEW s \in Seqs, NEW next \in States, NEW X
  PROVE  Count([state EXCEPT ![s] = next], X)
           = Count(state, X) - One(state[s] \in X) + One(next \in X)
<1> DEFINE In   == {r \in Seqs : state[r] \in X}
           Rest == In \ {s}
           moved == [state EXCEPT ![s] = next]
           After == {r \in Seqs : moved[r] \in X}
<1>1. IsFiniteSet(In)
  BY SeqsAssumption, FS_Subset
<1>2. Cardinality(In) \in Nat
  BY <1>1, FS_CardinalityType
<1>3. /\ IsFiniteSet(Rest)
      /\ Cardinality(Rest) = IF s \in In THEN Cardinality(In) - 1 ELSE Cardinality(In)
  BY <1>1, FS_RemoveElement
<1>4. Cardinality(Rest) = Cardinality(In) - One(state[s] \in X)
  BY <1>2, <1>3 DEF One
<1>5. CASE next \in X
  <2>1. After = Rest \cup {s}
    BY <1>5
  <2>2. Cardinality(After) = Cardinality(Rest) + 1
    BY <1>3, <2>1, FS_AddElement
  <2> QED
    BY <1>2, <1>4, <1>5, <2>2 DEF Count, One
<1>6. CASE next \notin X
  <2>1. After = Rest
    BY <1>6
  <2> QED
    BY <1>2, <1>4, <1>6, <2>1 DEF Count, One
<1> QED
  BY <1>5, <1>6

-----------------------------------------------------------------------------
(* The invariant of the ledger *)

(* Committed is exactly what lies below the cursor. *)
CursorSplits(l) ==
  /\ l.nextCommitSeq \in Seqs \cup {EndSeq + 1}
  /\ \A s \in Seqs : l.state[s] = "COMMITTED" <=> s < l.nextCommitSeq

LedgerInv(l) ==
  /\ l \in Ledgers
  /\ CountersExact(l)
  /\ LeasesExact(l)
  /\ CursorSplits(l)

(* The cursor that splits committed from open seqs is the exact one. *)
LEMMA CursorSplitsExact ==
  ASSUME NEW l \in Ledgers, CursorSplits(l)
  PROVE  CursorExact(l)
<1>1. /\ l.state \in [Seqs -> States]
      /\ l.nextCommitSeq \in Nat
  BY DEF Ledgers
<1> DEFINE first == AdvanceFrom(l.state, StartSeq)
<1>2. StartSeq \in Seqs /\ EndSeq \in Seqs /\ \A s \in Seqs : s \in Nat /\ StartSeq <= s /\ s <= EndSeq
  BY Bounds, SeqsAssumption
<1>3. /\ first \in Nat
      /\ \A s \in Seqs : s >= StartSeq /\ s < first => l.state[s] = "COMMITTED"
      /\ \/ first = EndSeq + 1
         \/ first \in Seqs /\ l.state[first] # "COMMITTED"
  BY <1>1, <1>2, AdvanceIsFirstOpen
<1> HIDE DEF first
<1>4. CASE l.nextCommitSeq \in Seqs
  <2>1. first <= l.nextCommitSeq
    BY <1>1, <1>2, <1>3, <1>4 DEF CursorSplits
  <2>2. l.nextCommitSeq <= first
    BY <1>1, <1>2, <1>3, <1>4 DEF CursorSplits
  <2> QED
    BY <1>1, <1>3, <2>1, <2>2 DEF CursorExact, first
<1>5. CASE l.nextCommitSeq = EndSeq + 1
  <2>1. first \notin Seqs \/ l.state[first] = "COMMITTED"
    BY <1>2, <1>5 DEF CursorSplits
  <2> QED
    BY <1>3, <1>5, <2>1 DEF CursorExact, first
<1> QED
  BY <1>4, <1>5 DEF CursorSplits

(* A fresh ledger is consistent. *)
LEMMA NewLedgerInv == LedgerInv(NewLedger)
<1>1. StartSeq \in Nat /\ StartSeq \in Seqs /\ \A s \in Seqs : s \in Nat /\ StartSeq <= s
  BY Bounds, SeqsAssumption
<1>2. NewLedger \in Ledgers
  BY <1>1 DEF NewLedger, Ledgers, States
<1>3. ASSUME NEW X, "UNSEEN" \notin X PROVE Cardinality(InState(NewLedger, X)) = 0
  <2>1. InState(NewLedger, X) = {}
    BY <1>3 DEF InState, NewLedger
  <2> QED
    BY <2>1, FS_EmptySet
<1>4. CountersExact(NewLedger)
  BY <1>3 DEF CountersExact, NewLedger, Terminals
<1>5. LeasesExact(NewLedger)
  BY DEF LeasesExact, NewLedger, Leased
<1>6. CursorSplits(NewLedger)
  BY <1>1 DEF CursorSplits, NewLedger
<1> QED
  BY <1>2, <1>4, <1>5, <1>6 DEF LedgerInv

(* transition returns a ledger. *)
LEMMA TransitionType ==
  ASSUME NEW l \in Ledgers, NEW s \in Seqs, NEW next \in States
  PROVE  /\ Transition(l, s, next) \in Ledgers
         /\ Transition(l, s, next).state = [l.state EXCEPT ![s] = next]
<1> DEFINE n == Transition(l, s, next)
<1>1. n.state = [l.state EXCEPT ![s] = next] /\ n.state \in [Seqs -> States]
  BY DEF Transition, Ledgers
<1>2. n.nextCommitSeq \in Nat
  <2>1. l.nextCommitSeq \in Nat
    BY DEF Ledgers
  <2>2. AdvanceFrom(n.state, l.nextCommitSeq) \in Nat
    BY <1>1, <2>1, AdvanceIsFirstOpen
  <2>3. n.nextCommitSeq = IF next = "COMMITTED" THEN AdvanceFrom(n.state, l.nextCommitSeq)
                                                ELSE l.nextCommitSeq
    BY DEF Transition
  <2> QED
    BY <2>1, <2>2, <2>3
<1>3. n.attempts \in [Seqs -> Nat]
  BY DEF Transition, Ledgers, One
<1>4. n.lease \in [Seqs -> {"none", "fresh", "stale"}]
  BY DEF Transition, Ledgers
<1>5. n.terminalCount \in Nat /\ n.committedCount \in Nat
  BY DEF Transition, Ledgers, One, Dec
<1>6. n.inFlightCount \in Nat /\ n.dispatchedCount \in Nat
  BY DEF Transition, Ledgers, One, Dec
<1>7. n = [state |-> n.state, attempts |-> n.attempts, lease |-> n.lease,
           terminalCount |-> n.terminalCount, committedCount |-> n.committedCount,
           inFlightCount |-> n.inFlightCount, dispatchedCount |-> n.dispatchedCount,
           nextCommitSeq |-> n.nextCommitSeq]
  BY DEF Transition
<1> HIDE DEF n
<1>8. n \in Ledgers
  BY <1>1, <1>2, <1>3, <1>4, <1>5, <1>6, <1>7 DEF Ledgers
<1> QED
  BY <1>1, <1>8 DEF n

(* Every legal transition keeps the ledger exact, if commits only happen   *)
(* at the cursor.                                                          *)
LEMMA TransitionKeeps ==
  ASSUME NEW l, LedgerInv(l), NEW s \in Seqs, NEW next \in States,
         IsLegal(l, s, next),
         next = "COMMITTED" => s = l.nextCommitSeq
  PROVE  LedgerInv(Transition(l, s, next))
<1> DEFINE n == Transition(l, s, next)
           prior == l.state[s]
<1>1. /\ l \in Ledgers
      /\ l.state \in [Seqs -> States]
      /\ prior \in States
      /\ l.lease \in [Seqs -> {"none", "fresh", "stale"}]
      /\ l.nextCommitSeq \in Nat
  BY DEF LedgerInv, Ledgers
<1>2. n \in Ledgers /\ n.state = [l.state EXCEPT ![s] = next]
  BY <1>1, TransitionType
<1>3. <<prior, next>> \in LegalTransitions
  BY DEF IsLegal, StateOf
<1>4. /\ prior # "COMMITTED" /\ next # "UNSEEN"
      /\ next = "COMMITTED" => prior \in Terminals
      /\ prior \in Terminals => next = "COMMITTED" \/ (prior = "FAIL" /\ next = "DISPATCHED")
      /\ prior \notin Terminals => next # "COMMITTED"
      /\ next = "DISPATCHED" => prior \in {"UNSEEN", "FAIL"}
      /\ next = "IN_FLIGHT" => prior = "DISPATCHED"
  BY <1>3 DEF LegalTransitions, Terminals
<1>5. CountersExact(n)
  <2>1. ASSUME NEW X
        PROVE  Cardinality(InState(n, X))
                 = Cardinality(InState(l, X)) - One(prior \in X) + One(next \in X)
    BY <1>1, <1>2, CountMove DEF Count, InState
  <2>2. ASSUME NEW X
        PROVE  Cardinality(InState(l, X)) \in Nat
               /\ (prior \in X => Cardinality(InState(l, X)) >= 1)
    BY CountIsNat DEF Count, InState
  <2>3. CountersExact(l)
    BY DEF LedgerInv
  <2>4. n.terminalCount = Cardinality(InState(n, Terminals \cup {"COMMITTED"}))
    <3>1. l.terminalCount = Cardinality(InState(l, Terminals \cup {"COMMITTED"}))
      BY <2>3 DEF CountersExact
    <3>2. n.terminalCount = Dec(l.terminalCount, One(prior = "FAIL" /\ next = "DISPATCHED"))
                              + One(next \in Terminals)
      BY DEF Transition
    <3>3. prior \in Terminals \cup {"COMMITTED"} <=> prior \in Terminals
      BY <1>4
    <3>4. "FAIL" \in Terminals /\ "DISPATCHED" \notin Terminals /\ "COMMITTED" \notin Terminals
      BY DEF Terminals
    <3> QED
      BY <1>4, <2>1, <2>2, <3>1, <3>2, <3>3, <3>4 DEF Dec, One
  <2>5. n.committedCount = Cardinality(InState(n, {"COMMITTED"}))
    <3>1. l.committedCount = Cardinality(InState(l, {"COMMITTED"}))
      BY <2>3 DEF CountersExact
    <3>2. n.committedCount = l.committedCount + One(next = "COMMITTED")
      BY DEF Transition
    <3> QED
      BY <1>4, <2>1, <2>2, <3>1, <3>2 DEF One
  <2>6. n.inFlightCount = Cardinality(InState(n, {"IN_FLIGHT"}))
    <3>1. l.inFlightCount = Cardinality(InState(l, {"IN_FLIGHT"}))
      BY <2>3 DEF CountersExact
    <3>2. n.inFlightCount = Dec(l.inFlightCount, One(prior = "IN_FLIGHT")) + One(next = "IN_FLIGHT")
      BY DEF Transition
    <3> QED
      BY <1>4, <2>1, <2>2, <3>1, <3>2 DEF One, Dec
  <2>7. n.dispatchedCount = Cardinality(InState(n, {"DISPATCHED"}))
    <3>1. l.dispatchedCount = Cardinality(InState(l, {"DISPATCHED"}))
      BY <2>3 DEF CountersExact
    <3>2. n.dispatchedCount = Dec(l.dispatchedCount, One(prior = "DISPATCHED"))
                                + One(next = "DISPATCHED")
      BY DEF Transition
    <3> QED
      BY <1>4, <2>1, <2>2, <3>1, <3>2 DEF One, Dec
  <2> QED
    BY <2>4, <2>5, <2>6, <2>7 DEF CountersExact
<1>6. LeasesExact(n)
  <2>1. n.lease = [l.lease EXCEPT ![s] = IF next \in Leased THEN "fresh" ELSE "none"]
    BY DEF Transition
  <2>2. LeasesExact(l)
    BY DEF LedgerInv
  <2> QED
    BY <1>1, <1>2, <2>1, <2>2 DEF LeasesExact
<1>7. CursorSplits(n)
  <2>1. CursorSplits(l)
    BY DEF LedgerInv
  <2>2. CASE next # "COMMITTED"
    <3>1. n.nextCommitSeq = l.nextCommitSeq
      BY <2>2 DEF Transition
    <3> QED
      BY <1>1, <1>2, <1>4, <2>1, <2>2, <3>1 DEF CursorSplits
  <2>3. CASE next = "COMMITTED"
    <3>1. n.nextCommitSeq = AdvanceFrom(n.state, l.nextCommitSeq)
      BY <1>2, <2>3 DEF Transition
    <3>2. n.state \in [Seqs -> States]
      BY <1>2 DEF Ledgers
    <3>3. /\ n.nextCommitSeq \in Nat
          /\ \A r \in Seqs : r >= l.nextCommitSeq /\ r < n.nextCommitSeq
                             => n.state[r] = "COMMITTED"
          /\ \/ n.nextCommitSeq = EndSeq + 1
             \/ /\ n.nextCommitSeq \in Seqs
                /\ n.nextCommitSeq >= l.nextCommitSeq
                /\ n.state[n.nextCommitSeq] # "COMMITTED"
      BY <1>1, <3>1, <3>2, AdvanceIsFirstOpen
    <3>4. \A r \in Seqs : r \in Nat /\ r <= EndSeq
      BY Bounds, SeqsAssumption
    <3>5. l.nextCommitSeq <= n.nextCommitSeq
      BY <1>1, <2>3, <3>3, <3>4, Bounds, SeqsAssumption
    <3>6. ASSUME NEW r \in Seqs PROVE n.state[r] = "COMMITTED" <=> r < n.nextCommitSeq
      <4>1. r < l.nextCommitSeq => n.state[r] = "COMMITTED"
        BY <1>1, <1>2, <2>1, <2>3 DEF CursorSplits
      <4>2. r > s => n.state[r] = l.state[r] /\ l.state[r] # "COMMITTED"
        BY <1>1, <1>2, <2>1, <2>3, <3>4 DEF CursorSplits
      <4>3. s < n.nextCommitSeq
        <5>1. s = l.nextCommitSeq /\ s \in Nat /\ s <= n.nextCommitSeq
          BY <2>3, <3>4, <3>5
        <5>2. n.state[s] = "COMMITTED"
          BY <1>1, <1>2, <2>3
        <5>3. s # n.nextCommitSeq
          BY <3>3, <3>4, <5>2, Bounds, SeqsAssumption
        <5> HIDE DEF n
        <5> QED
          BY <3>3, <5>1, <5>3
      <4> QED
        BY <1>1, <2>3, <3>3, <3>4, <3>5, <4>1, <4>2, <4>3
    <3> QED
      BY <3>3, <3>6 DEF CursorSplits
  <2> QED
    BY <2>2, <2>3
<1> QED
  BY <1>2, <1>5, <1>6, <1>7 DEF LedgerInv

(* Taking a whole set of seqs into, or out of, a set of states. *)
LEMMA CountGain ==
  ASSUME NEW A \in SUBSET Seqs, NEW S \in SUBSET Seqs, A \cap S = {}
  PROVE  Cardinality(A \cup S) = Cardinality(A) + Cardinality(S)
<1>1. IsFiniteSet(S) /\ IsFiniteSet(A)
  BY SeqsAssumption, FS_Subset
<1>2. Cardinality(S) \in Nat /\ Cardinality(A) \in Nat
  BY <1>1, FS_CardinalityType
<1>3. Cardinality(A \cap S) = 0
  BY FS_EmptySet
<1>4. Cardinality(A \cup S) = Cardinality(A) + Cardinality(S) - Cardinality(A \cap S)
  BY <1>1, FS_Union
<1> QED
  BY <1>2, <1>3, <1>4

(* Taking a set of seqs out of the counted states lowers the count by it. *)
LEMMA CountLose ==
  ASSUME NEW A \in SUBSET Seqs, NEW S \in SUBSET Seqs
  PROVE  Cardinality(A \ S) = Dec(Cardinality(A), Cardinality(A \cap S))
<1>1. IsFiniteSet(A)
  BY SeqsAssumption, FS_Subset
<1>2. IsFiniteSet(A \cap S) /\ Cardinality(A \cap S) <= Cardinality(A)
  BY <1>1, FS_Subset
<1>3. Cardinality(A \cap S) \in Nat /\ Cardinality(A) \in Nat
  BY <1>1, <1>2, FS_CardinalityType
<1>4. Cardinality(A \ S) = Cardinality(A) - Cardinality(A \cap S)
  BY <1>1, FS_Difference
<1> QED
  BY <1>2, <1>3, <1>4 DEF Dec

(* Counts over a subset of the seqs are naturals. *)
LEMMA SetCountsAreNat ==
  ASSUME NEW l, NEW X, NEW S \in SUBSET Seqs
  PROVE  Cardinality(S) \in Nat /\ Cardinality({s \in S : l.state[s] \in X}) \in Nat
<1>1. IsFiniteSet(S) /\ IsFiniteSet({s \in S : l.state[s] \in X})
  BY SeqsAssumption, FS_Subset
<1> QED
  BY <1>1, FS_CardinalityType

(* The bulk step of a reclaim and of an abort. *)
LEMMA TerminalizeKeeps ==
  ASSUME NEW l, LedgerInv(l), NEW S \in SUBSET InState(l, {"UNSEEN"} \cup Leased),
         NEW t \in Terminals
  PROVE  LedgerInv(TerminalizeAll(l, S, t))
<1> DEFINE n == TerminalizeAll(l, S, t)
           flying == {s \in S : l.state[s] \in {"IN_FLIGHT"}}
           sent   == {s \in S : l.state[s] \in {"DISPATCHED"}}
<1>1. /\ l \in Ledgers /\ l.state \in [Seqs -> States] /\ l.attempts \in [Seqs -> Nat]
      /\ l.lease \in [Seqs -> {"none", "fresh", "stale"}]
      /\ l.terminalCount \in Nat /\ l.committedCount \in Nat /\ l.inFlightCount \in Nat
      /\ l.dispatchedCount \in Nat /\ l.nextCommitSeq \in Nat
  BY DEF LedgerInv, Ledgers
<1>2. S \in SUBSET Seqs /\ \A s \in S : l.state[s] \in {"UNSEEN", "DISPATCHED", "IN_FLIGHT"}
  BY DEF InState, Leased
<1>3. /\ flying = {s \in S : l.state[s] = "IN_FLIGHT"}
      /\ sent = {s \in S : l.state[s] = "DISPATCHED"}
      /\ Cardinality(flying) \in Nat /\ Cardinality(sent) \in Nat /\ Cardinality(S) \in Nat
  BY <1>2, SetCountsAreNat
<1>4. /\ n.state = [s \in Seqs |-> IF s \in S THEN t ELSE l.state[s]]
      /\ n.attempts = [s \in Seqs |-> l.attempts[s] + One(s \in S /\ l.state[s] = "UNSEEN")]
      /\ n.lease = [s \in Seqs |-> IF s \in S THEN "none" ELSE l.lease[s]]
      /\ n.terminalCount = l.terminalCount + Cardinality(S)
      /\ n.committedCount = l.committedCount
      /\ n.nextCommitSeq = l.nextCommitSeq
  BY <1>1 DEF TerminalizeAll, Ledgers
<1>5. /\ n.inFlightCount = Dec(l.inFlightCount, Cardinality(flying))
      /\ n.dispatchedCount = Dec(l.dispatchedCount, Cardinality(sent))
  BY <1>1, <1>3 DEF TerminalizeAll, Ledgers
<1>6. n \in Ledgers
  <2> DEFINE state    == [s \in Seqs |-> IF s \in S THEN t ELSE l.state[s]]
             attempts == [s \in Seqs |-> l.attempts[s] + One(s \in S /\ l.state[s] = "UNSEEN")]
             lease    == [s \in Seqs |-> IF s \in S THEN "none" ELSE l.lease[s]]
             ends     == l.terminalCount + Cardinality(S)
             flights  == Dec(l.inFlightCount, Cardinality({s \in S : l.state[s] = "IN_FLIGHT"}))
             sends    == Dec(l.dispatchedCount, Cardinality({s \in S : l.state[s] = "DISPATCHED"}))
  <2>1. state \in [Seqs -> States] /\ lease \in [Seqs -> {"none", "fresh", "stale"}]
    BY <1>1 DEF States
  <2>2. attempts \in [Seqs -> Nat]
    BY <1>1 DEF One
  <2>3. ends \in Nat /\ flights \in Nat /\ sends \in Nat
    BY <1>1, <1>3 DEF Dec
  <2>4. n = [l EXCEPT !.state = state, !.attempts = attempts, !.lease = lease,
                      !.terminalCount = ends, !.inFlightCount = flights,
                      !.dispatchedCount = sends]
    BY Zenon DEF TerminalizeAll
  <2> HIDE DEF n, state, attempts, lease, ends, flights, sends
  <2> QED
    BY <1>1, <2>1, <2>2, <2>3, <2>4 DEF Ledgers
<1> HIDE DEF n, flying, sent
<1>8. CountersExact(n)
  <2>0. \A X : InState(l, X) \in SUBSET Seqs
    BY DEF InState
  <2>1. CountersExact(l)
    BY DEF LedgerInv
  <2>2. InState(n, Terminals \cup {"COMMITTED"}) = InState(l, Terminals \cup {"COMMITTED"}) \cup S
        /\ S \cap InState(l, Terminals \cup {"COMMITTED"}) = {}
    BY <1>2, <1>4 DEF InState, Terminals
  <2>3. InState(n, {"COMMITTED"}) = InState(l, {"COMMITTED"})
    BY <1>2, <1>4 DEF InState, Terminals
  <2>4. /\ InState(n, {"IN_FLIGHT"}) = InState(l, {"IN_FLIGHT"}) \ S
        /\ InState(n, {"DISPATCHED"}) = InState(l, {"DISPATCHED"}) \ S
    BY <1>2, <1>4 DEF InState, Terminals
  <2>5. n.terminalCount = Cardinality(InState(n, Terminals \cup {"COMMITTED"}))
    <3>1. Cardinality(InState(n, Terminals \cup {"COMMITTED"}))
            = Cardinality(InState(l, Terminals \cup {"COMMITTED"})) + Cardinality(S)
      BY <1>2, <2>0, <2>2, CountGain
    <3> QED
      BY <1>4, <2>1, <3>1 DEF CountersExact
  <2>6. n.inFlightCount = Cardinality(InState(n, {"IN_FLIGHT"}))
    <3>1. Cardinality(InState(n, {"IN_FLIGHT"})) = Dec(Cardinality(InState(l, {"IN_FLIGHT"})), Cardinality(flying))
      <4>1. flying = InState(l, {"IN_FLIGHT"}) \cap S
        BY <1>2 DEF flying, InState
      <4> QED
        BY <1>2, <2>0, <2>4, <4>1, CountLose
    <3> QED
      BY <1>5, <2>1, <3>1 DEF CountersExact
  <2>7. n.dispatchedCount = Cardinality(InState(n, {"DISPATCHED"}))
    <3>1. Cardinality(InState(n, {"DISPATCHED"})) = Dec(Cardinality(InState(l, {"DISPATCHED"})), Cardinality(sent))
      <4>1. sent = InState(l, {"DISPATCHED"}) \cap S
        BY <1>2 DEF sent, InState
      <4> QED
        BY <1>2, <2>0, <2>4, <4>1, CountLose
    <3> QED
      BY <1>5, <2>1, <3>1 DEF CountersExact
  <2> QED
    BY <1>4, <2>1, <2>3, <2>5, <2>6, <2>7 DEF CountersExact
<1>9. LeasesExact(n)
  BY <1>1, <1>4 DEF LeasesExact, LedgerInv, Terminals, Leased
<1>10. CursorSplits(n)
  BY <1>2, <1>4 DEF CursorSplits, LedgerInv, Terminals
<1> QED
  BY <1>6, <1>8, <1>9, <1>10 DEF LedgerInv, n

(* The reset of a shard.  What it reopens lies above the cursor, so the    *)
(* cursor the code pulls back never moves.                                 *)
LEMMA ResetKeeps ==
  ASSUME NEW l, LedgerInv(l), NEW S \in SUBSET Seqs
  PROVE  /\ LedgerInv(ResetNonTerminal(l, S))
         /\ ResetNonTerminal(l, S).nextCommitSeq = l.nextCommitSeq
<1> DEFINE n == ResetNonTerminal(l, S)
           reset == {s \in S : l.state[s] \in Leased}
           flying == {s \in reset : l.state[s] = "IN_FLIGHT"}
           sent   == {s \in reset : l.state[s] = "DISPATCHED"}
           back   == IF reset = {} THEN l.nextCommitSeq ELSE Min({l.nextCommitSeq} \cup reset)
<1>1. /\ l \in Ledgers /\ l.state \in [Seqs -> States] /\ l.attempts \in [Seqs -> Nat]
      /\ l.lease \in [Seqs -> {"none", "fresh", "stale"}]
      /\ l.terminalCount \in Nat /\ l.committedCount \in Nat /\ l.inFlightCount \in Nat
      /\ l.dispatchedCount \in Nat /\ l.nextCommitSeq \in Nat
  BY DEF LedgerInv, Ledgers
<1>2. reset \in SUBSET Seqs /\ \A s \in reset : l.state[s] \in {"DISPATCHED", "IN_FLIGHT"}
  BY DEF Leased
<1>3. /\ flying = InState(l, {"IN_FLIGHT"}) \cap reset
      /\ sent = InState(l, {"DISPATCHED"}) \cap reset
      /\ Cardinality(flying) \in Nat /\ Cardinality(sent) \in Nat
  <2>1. flying \in SUBSET Seqs /\ sent \in SUBSET Seqs
    BY <1>2
  <2> QED
    BY <1>2, <2>1, SetCountsAreNat DEF InState
<1>4. back = l.nextCommitSeq
  <2>1. \A s \in reset : l.nextCommitSeq <= s /\ s \in Nat
    BY <1>1, <1>2, SeqsAssumption DEF CursorSplits, LedgerInv
  <2>2. {l.nextCommitSeq} \cup reset \in SUBSET Nat
    BY <1>1, <2>1
  <2>3. /\ Min({l.nextCommitSeq} \cup reset) \in {l.nextCommitSeq} \cup reset
        /\ \A r \in {l.nextCommitSeq} \cup reset : Min({l.nextCommitSeq} \cup reset) <= r
    BY <2>2, MinOfNats
  <2> HIDE DEF reset
  <2> QED
    BY <1>1, <2>1, <2>2, <2>3
<1> DEFINE state   == [s \in Seqs |-> IF s \in reset THEN "UNSEEN" ELSE l.state[s]]
           lease   == [s \in Seqs |-> IF s \in reset THEN "none" ELSE l.lease[s]]
           flights == Dec(l.inFlightCount, Cardinality(flying))
           sends   == Dec(l.dispatchedCount, Cardinality(sent))
<1>5. n = [l EXCEPT !.state = state, !.lease = lease, !.inFlightCount = flights,
                    !.dispatchedCount = sends, !.nextCommitSeq = back]
  BY Zenon DEF ResetNonTerminal
<1>6. /\ state \in [Seqs -> States] /\ lease \in [Seqs -> {"none", "fresh", "stale"}]
      /\ flights \in Nat /\ sends \in Nat
  BY <1>1, <1>3 DEF States, Dec
<1> HIDE DEF n, state, lease, flights, sends, back, flying, sent, reset
<1>7. /\ n \in Ledgers
      /\ n.state = state /\ n.lease = lease
      /\ n.inFlightCount = flights /\ n.dispatchedCount = sends
      /\ n.terminalCount = l.terminalCount /\ n.committedCount = l.committedCount
      /\ n.nextCommitSeq = l.nextCommitSeq
  BY <1>1, <1>4, <1>5, <1>6 DEF Ledgers
<1>8. CountersExact(n)
  <2>1. CountersExact(l)
    BY DEF LedgerInv
  <2>2. \A X : InState(l, X) \in SUBSET Seqs
    BY DEF InState
  <2>3. /\ InState(n, Terminals \cup {"COMMITTED"}) = InState(l, Terminals \cup {"COMMITTED"})
        /\ InState(n, {"COMMITTED"}) = InState(l, {"COMMITTED"})
    BY <1>2, <1>7 DEF InState, Terminals, state
  <2>4. /\ InState(n, {"IN_FLIGHT"}) = InState(l, {"IN_FLIGHT"}) \ reset
        /\ InState(n, {"DISPATCHED"}) = InState(l, {"DISPATCHED"}) \ reset
    BY <1>2, <1>7 DEF InState, state
  <2>5. Cardinality(InState(n, {"IN_FLIGHT"}))
          = Dec(Cardinality(InState(l, {"IN_FLIGHT"})), Cardinality(flying))
    BY <1>2, <1>3, <2>2, <2>4, CountLose
  <2>6. Cardinality(InState(n, {"DISPATCHED"}))
          = Dec(Cardinality(InState(l, {"DISPATCHED"})), Cardinality(sent))
    BY <1>2, <1>3, <2>2, <2>4, CountLose
  <2> QED
    BY <1>7, <2>1, <2>3, <2>5, <2>6 DEF CountersExact, flights, sends
<1>9. LeasesExact(n)
  BY <1>1, <1>7 DEF LeasesExact, LedgerInv, Leased, state, lease
<1>10. CursorSplits(n)
  BY <1>2, <1>7 DEF CursorSplits, LedgerInv, state
<1> QED
  BY <1>7, <1>8, <1>9, <1>10 DEF LedgerInv, n

(* A change of leases that creates and drops none. *)
LEMMA LeaseKeeps ==
  ASSUME NEW l, LedgerInv(l), NEW s \in Seqs, NEW value \in {"fresh", "stale"},
         l.lease[s] # "none"
  PROVE  LedgerInv([l EXCEPT !.lease[s] = value])
<1> DEFINE n == [l EXCEPT !.lease[s] = value]
<1>1. /\ n \in Ledgers
      /\ n.state = l.state /\ n.nextCommitSeq = l.nextCommitSeq
      /\ n.terminalCount = l.terminalCount /\ n.committedCount = l.committedCount
      /\ n.inFlightCount = l.inFlightCount /\ n.dispatchedCount = l.dispatchedCount
      /\ n.lease = [l.lease EXCEPT ![s] = value]
      /\ l.lease \in [Seqs -> {"none", "fresh", "stale"}]
  BY DEF LedgerInv, Ledgers
<1> HIDE DEF n
<1>2. \A X : InState(n, X) = InState(l, X)
  BY <1>1 DEF InState
<1>3. CountersExact(n)
  BY <1>1, <1>2 DEF CountersExact, LedgerInv
<1>4. LeasesExact(n) /\ CursorSplits(n)
  BY <1>1 DEF LeasesExact, CursorSplits, LedgerInv
<1> QED
  BY <1>1, <1>3, <1>4 DEF LedgerInv, n

(* A heartbeat keeps the ledger consistent. *)
LEMMA RenewKeeps ==
  ASSUME NEW l, LedgerInv(l), NEW s \in Seqs
  PROVE  LedgerInv(Renew(l, s))
<1>1. l \in Ledgers /\ l.lease \in [Seqs -> {"none", "fresh", "stale"}]
  BY DEF LedgerInv, Ledgers
<1>2. CASE l.state[s] = "IN_FLIGHT"
  <2>1. l.lease[s] # "none"
    BY <1>2 DEF LedgerInv, LeasesExact, Leased
  <2>2. Renew(l, s) = [l EXCEPT !.lease[s] = "fresh"]
    BY <1>2 DEF Renew
  <2> QED
    BY <2>1, <2>2, LeaseKeeps
<1>3. CASE l.state[s] # "IN_FLIGHT"
  <2>1. Renew(l, s) = l
    BY <1>1, <1>3 DEF Renew, Ledgers
  <2> QED
    BY <2>1
<1> QED
  BY <1>2, <1>3
=============================================================================
