--------------------------- MODULE PatchQueueProofs ---------------------------
(***************************************************************************)
(* Proofs about the build state patch queue: types, truthful answers, the  *)
(* order of writes, and that the last patch of every field is kept.        *)
(***************************************************************************)
EXTENDS PatchQueue, SequenceTheorems, TLAPS

\* The tuple "disk" is only ever an abbreviation.
USE DEF disk

-----------------------------------------------------------------------------
(* What the helpers return. *)

\* A patch changes when a field is set or patches are merged, and stays a patch.
LEMMA PatchTyped ==
  /\ Empty \in Patches
  /\ \A patch \in Patches, field \in Fields, c \in Nat :
       /\ [patch EXCEPT ![field] = c] \in Patches
       /\ c # 0 => [patch EXCEPT ![field] = c] # Empty
  /\ \A base, patch \in Patches :
       /\ MergeState(base, patch) \in Patches
       /\ base # Empty => MergeState(base, patch) # Empty
<1>1. Empty \in Patches
  BY DEF Empty, Patches
<1>2. ASSUME NEW patch \in Patches, NEW field \in Fields, NEW c \in Nat
      PROVE  /\ [patch EXCEPT ![field] = c] \in Patches
             /\ c # 0 => [patch EXCEPT ![field] = c] # Empty
  <2>1. [patch EXCEPT ![field] = c] \in Patches /\ [patch EXCEPT ![field] = c][field] = c
    BY DEF Patches
  <2>2. Empty[field] = 0
    BY DEF Empty
  <2> QED
    BY <2>1, <2>2
<1>3. ASSUME NEW base \in Patches, NEW patch \in Patches
      PROVE  /\ MergeState(base, patch) \in Patches
             /\ base # Empty => MergeState(base, patch) # Empty
  <2>1. MergeState(base, patch) \in Patches
    BY DEF MergeState, Patches
  <2>2. ASSUME base # Empty PROVE MergeState(base, patch) # Empty
    <3>1. PICK f \in Fields : base[f] # 0
      BY <2>2 DEF Patches, Empty
    <3>2. MergeState(base, patch)[f] # 0
      BY <3>1 DEF MergeState
    <3> QED
      BY <3>2 DEF Empty
  <2> QED
    BY <2>1, <2>2
<1> QED
  BY <1>1, <1>2, <1>3

\* Settling waiters changes what they are told and nothing else.
LEMMA Settled ==
  ASSUME calls \in Seq(CallRecords), NEW W, NEW a \in Answers, NEW b \in Answers
  PROVE  /\ SettleWaiters(W, a, b) \in Seq(CallRecords)
         /\ Len(SettleWaiters(W, a, b)) = Len(calls)
         /\ DOMAIN SettleWaiters(W, a, b) = DOMAIN calls
         /\ \A c \in DOMAIN calls :
              /\ SettleWaiters(W, a, b)[c].field = calls[c].field
              /\ SettleWaiters(W, a, b)[c].required = calls[c].required
              /\ SettleWaiters(W, a, b)[c].told =
                   IF c \in W /\ calls[c].told = "nothing"
                     THEN IF calls[c].required THEN a ELSE b
                     ELSE calls[c].told
<1>1. /\ Len(calls) \in Nat /\ DOMAIN calls = 1..Len(calls)
      /\ \A c \in DOMAIN calls : calls[c] \in CallRecords
  BY LenProperties, ElementOfSeq
<1> DEFINE t == SettleWaiters(W, a, b)
           told(c) == IF calls[c].required THEN a ELSE b
<1>2. \A c \in DOMAIN calls :
        t[c] = IF c \in W /\ calls[c].told = "nothing"
                 THEN [calls[c] EXCEPT !.told = told(c)] ELSE calls[c]
  BY DEF SettleWaiters
<1>3. ASSUME NEW c \in DOMAIN calls
      PROVE  /\ t[c] \in CallRecords
             /\ t[c].field = calls[c].field /\ t[c].required = calls[c].required
             /\ t[c].told = IF c \in W /\ calls[c].told = "nothing" THEN told(c)
                                                                    ELSE calls[c].told
  <2>1. calls[c] \in CallRecords /\ told(c) \in Answers
    BY <1>1
  <2> HIDE DEF told
  <2> QED
    BY <1>2, <2>1 DEF CallRecords
<1>4. t \in [1..Len(calls) -> CallRecords]
  BY <1>1, <1>3 DEF SettleWaiters
<1>5. t \in Seq(CallRecords)
  BY <1>1, <1>4, SeqDef
<1>6. Len(t) = Len(calls) /\ DOMAIN t = DOMAIN calls
  BY <1>1, <1>4, <1>5, LenProperties
<1> QED
  BY <1>3, <1>5, <1>6

\* The flush being written, and those behind it.
LEMMA ChainParts ==
  ASSUME chain \in Seq(FlushRecords), chain # <<>>
  PROVE  /\ Head(chain) \in FlushRecords /\ Head(chain) = chain[1] /\ 1 \in 1..Len(chain)
         /\ Tail(chain) \in Seq(FlushRecords) /\ Len(Tail(chain)) = Len(chain) - 1
         /\ \A i \in 1..Len(Tail(chain)) :
              /\ i + 1 \in 1..Len(chain) /\ Tail(chain)[i] = chain[i + 1]
              /\ i + 1 # 1
BY HeadTailProperties, EmptySeq, LenProperties

\* The flush that takes what an entry holds.
FlushOf(e) ==
  [entry |-> e.id, patch |-> e.patch, required |-> e.required, waiters |-> e.waiters]

\* FlushPendingState appends the flush of the entry and empties the entry.
LEMMA ChainGrows ==
  ASSUME chain \in Seq(FlushRecords), NEW e \in EntryRecords, FlushPendingState(e)
  PROVE  /\ FlushOf(e) \in FlushRecords
         /\ chain' \in Seq(FlushRecords) /\ Len(chain) \in Nat /\ Len(chain') = Len(chain) + 1
         /\ chain'[Len(chain) + 1] = FlushOf(e)
         /\ \A i \in 1..Len(chain') : i # Len(chain) + 1 =>
              i \in 1..Len(chain) /\ chain'[i] = chain[i]
         /\ entry' \in EntryRecords /\ entry' = EmptyEntry(e.id)
<1>1. FlushOf(e) \in FlushRecords
  BY DEF FlushOf, EntryRecords, FlushRecords
<1>2. chain' = Append(chain, FlushOf(e)) /\ entry' = EmptyEntry(e.id)
  BY DEF FlushPendingState, EnqueueStateUpdate, FlushOf
<1>3. Len(chain) \in Nat
  BY LenProperties
<1>4. entry' \in EntryRecords
  BY <1>2, PatchTyped DEF EmptyEntry, EntryRecords
<1> QED
  BY <1>1, <1>2, <1>3, <1>4, AppendProperties

\* What a call adds, and to which entry.
Called(e, field, required) ==
  LET c == Len(calls) + 1
  IN  /\ e \in EntryRecords
      /\ e.id = (IF entry = NoEntry THEN entries + 1 ELSE entry.id)
      /\ e.patch = [entry.patch EXCEPT ![field] = c]
      /\ e.waiters = entry.waiters \cup {c}
      /\ e.timer <=> ~required
      /\ required => e.required
      /\ calls' = Append(calls, [field |-> field, required |-> required, told |-> "nothing"])

\* queueStatePatch sets a field of the pending entry, and flushes it if required.
LEMMA CallFacts ==
  ASSUME TypeOK, NEW field \in Fields, NEW required \in BOOLEAN,
         QueueStatePatch(field, required)
  PROVE  /\ Len(calls) + 1 \in Nat /\ Len(calls) + 1 # 0
         /\ \E e : Called(e, field, required) /\ IF required THEN FlushPendingState(e)
                                                 ELSE entry' = e /\ chain' = chain
         /\ entries' \in {entries, entries + 1}
         /\ timeouts' \subseteq timeouts \cup {Len(calls) + 1}
         /\ UNCHANGED <<disk, stuck, orphaned, inverted, faults>>
<1> DEFINE c == Len(calls) + 1
           pending == GetPendingEntry
           upgraded == pending.required \/ required
           later == ~required
           e == [pending EXCEPT !.patch[field] = c, !.waiters = @ \cup {c}, !.timer = ~required,
                                !.required = UpgradeClass(@, required)]
<1>1. Len(calls) \in Nat /\ c \in Nat /\ c # 0
  BY LenProperties DEF TypeOK
<1>2. /\ pending \in EntryRecords /\ pending.patch = entry.patch
      /\ pending.waiters = entry.waiters
      /\ pending.id = (IF entry = NoEntry THEN entries + 1 ELSE entry.id)
  <2>1. CASE entry = NoEntry
    <3>1. pending = EmptyEntry(entries + 1) /\ entry = EmptyEntry(0)
      BY <2>1 DEF GetPendingEntry, NoEntry
    <3>2. entries + 1 \in Nat
      BY DEF TypeOK
    <3> QED
      BY <3>1, <3>2, <2>1, PatchTyped DEF EmptyEntry, EntryRecords
  <2>2. CASE entry # NoEntry
    BY <2>2 DEF GetPendingEntry, TypeOK
  <2> QED
    BY <2>1, <2>2
<1>3. Called(e, field, required)
  <2>1. upgraded \in BOOLEAN /\ later \in BOOLEAN /\ (required => upgraded)
        /\ (later <=> ~required)
    OBVIOUS
  <2>2. e = [pending EXCEPT !.patch = [pending.patch EXCEPT ![field] = c],
                            !.waiters = pending.waiters \cup {c}, !.timer = later,
                            !.required = upgraded]
    BY <1>2 DEF UpgradeClass, EntryRecords
  <2>3. /\ [pending.patch EXCEPT ![field] = c] \in Patches
        /\ pending.waiters \cup {c} \in SUBSET Nat
    BY <1>1, <1>2, PatchTyped DEF EntryRecords
  <2> HIDE DEF pending, upgraded, later, c
  <2>4. /\ e \in EntryRecords /\ e.id = pending.id /\ e.timer = later /\ e.required = upgraded
        /\ e.patch = [pending.patch EXCEPT ![field] = c]
        /\ e.waiters = pending.waiters \cup {c}
    BY <1>2, <2>1, <2>2, <2>3 DEF EntryRecords
  <2>5. calls' = Append(calls, [field |-> field, required |-> required, told |-> "nothing"])
    BY DEF QueueStatePatch
  <2> HIDE DEF e
  <2> QED
    BY <1>2, <2>1, <2>4, <2>5 DEF Called, c
<1>4. IF required THEN FlushPendingState(e) ELSE entry' = e /\ chain' = chain
  BY DEF QueueStatePatch
<1>5. entries' \in {entries, entries + 1} /\ timeouts' \subseteq timeouts \cup {c}
  BY DEF QueueStatePatch
<1> HIDE DEF e
<1> QED
  BY <1>1, <1>3, <1>4, <1>5 DEF QueueStatePatch

\* A flush that is reported as written: what it did not write is recorded as erased, or,
\* of a best-effort flush only, as swallowed.
Succeeds(h, W) ==
  /\ W \in SUBSET Touched(h.patch) /\ Store(h.patch, W)
  /\ swallowed \subseteq swallowed' /\ erased \subseteq erased' /\ gone' = gone
  /\ swallowed' \cup erased' \subseteq
       swallowed \cup erased \cup Values(h.patch, Touched(h.patch))
  /\ \A f \in Touched(h.patch) \ W :
       h.patch[f] \in erased' \/ (~h.required /\ h.patch[f] \in swallowed')

\* Each of the three ways in which applyStatePatch returns is such a flush.
LEMMA EachSucceeds ==
  ASSUME TypeOK, NEW h \in FlushRecords,
         WritesAll(h) \/ SwallowsFailure(h) \/ FindsNoRoot(h)
  PROVE  (\E W : Succeeds(h, W)) /\ faults' \in {faults, faults + 1}
<1> DEFINE T == Touched(h.patch)
<1>1. CASE WritesAll(h)
  <2>1. Succeeds(h, T)
    BY <1>1 DEF WritesAll, Succeeds
  <2> QED
    BY <2>1, <1>1 DEF WritesAll
<1>2. CASE SwallowsFailure(h)
  <2>1. PICK W \in SUBSET T :
          Store(h.patch, W) /\ swallowed' = swallowed \cup Values(h.patch, T \ W)
    BY <1>2 DEF SwallowsFailure
  <2>2. ~h.required /\ gone' = gone /\ erased' = erased
    BY <1>2 DEF SwallowsFailure
  <2>3. Succeeds(h, W)
    BY <2>1, <2>2 DEF Succeeds, Values
  <2> QED
    BY <2>3, <1>2 DEF SwallowsFailure, Fault
<1>3. CASE FindsNoRoot(h)
  <2>1. /\ erased' = erased \cup Values(h.patch, T)
        /\ UNCHANGED <<stored, written, swallowed, gone, faults>>
    BY <1>3 DEF FindsNoRoot
  <2>2. Store(h.patch, {})
    BY <2>1 DEF Store, Values, TypeOK, Patches
  <2>3. Succeeds(h, {})
    BY <2>1, <2>2 DEF Succeeds, Values
  <2> QED
    BY <2>1, <2>3
<1> QED
  BY <1>1, <1>2, <1>3

\* The end of a flush that is reported as written, conjunct by conjunct.
LEMMA SuccessFacts ==
  ASSUME TypeOK, FlushSucceeds
  PROVE  /\ chain # <<>> /\ chain' = Tail(chain)
         /\ \E W : Succeeds(chain[1], W)
         /\ calls' = SettleWaiters(chain[1].waiters, "flushed", "flushed")
         /\ \/ DeletePending(Tail(chain)) /\ (chain[1].entry = entry.id => Idle)
            \/ entry' = entry /\ orphaned' = orphaned /\ timeouts' = timeouts \ chain[1].waiters
         /\ faults' \in {faults, faults + 1} /\ UNCHANGED <<entries, stuck, inverted>>
<1>1. chain # <<>> /\ chain' = Tail(chain) /\ UNCHANGED <<entries, stuck, inverted>>
  BY DEF FlushSucceeds
<1>2. Head(chain) = chain[1]
  BY <1>1, ChainParts DEF TypeOK
<1>3. WritesAll(chain[1]) \/ SwallowsFailure(chain[1]) \/ FindsNoRoot(chain[1])
  BY <1>2 DEF FlushSucceeds
<1>4. (\E W : Succeeds(chain[1], W)) /\ faults' \in {faults, faults + 1}
  <2>1. chain[1] \in FlushRecords
    BY <1>1, <1>2, ChainParts DEF TypeOK
  <2> QED
    BY <1>3, <2>1, EachSucceeds
<1>5. /\ calls' = SettleWaiters(chain[1].waiters, "flushed", "flushed")
      /\ \/ DeletePending(Tail(chain)) /\ (chain[1].entry = entry.id => Idle)
         \/ entry' = entry /\ orphaned' = orphaned /\ timeouts' = timeouts \ chain[1].waiters
  BY <1>2 DEF FlushSucceeds
<1> QED
  BY <1>1, <1>4, <1>5

\* A write that is reported as failed, possibly after a part of the fields.
LEMMA FailureFacts ==
  ASSUME TypeOK, NEW kind \in {"lock", "write"}, FlushFails(kind)
  PROVE  /\ chain # <<>> /\ chain' = Tail(chain)
         /\ \E W \in SUBSET Touched(chain[1].patch) : Store(chain[1].patch, W)
         /\ \E a \in {"timed_out", "rejected"} :
              calls' = SettleWaiters(chain[1].waiters, "rejected", a)
         /\ timeouts' = timeouts \ chain[1].waiters
         /\ \/ /\ chain[1].entry = entry.id /\ entry' = KeepFailed(chain[1]) /\ stuck' = stuck
               /\ inverted' = (inverted \/ Tail(chain) # <<>>)
            \/ /\ chain[1].entry # entry.id /\ entry' = entry
               /\ stuck' = stuck \cup {chain[1].entry} /\ inverted' = inverted
         /\ faults' = faults + 1 /\ UNCHANGED <<entries, swallowed, gone, erased, orphaned>>
<1>1. /\ chain # <<>> /\ chain' = Tail(chain) /\ faults' = faults + 1
      /\ UNCHANGED <<entries, swallowed, gone, erased, orphaned>>
  BY DEF FlushFails, Fault
<1>2. Head(chain) = chain[1]
  BY <1>1, ChainParts DEF TypeOK
<1>3. /\ \E W \in SUBSET Touched(chain[1].patch) : Store(chain[1].patch, W)
      /\ calls' = AnswerFailure(chain[1], kind) /\ timeouts' = timeouts \ chain[1].waiters
  BY <1>2 DEF FlushFails
<1>4. \E a \in {"timed_out", "rejected"} :
        calls' = SettleWaiters(chain[1].waiters, "rejected", a)
  BY <1>3 DEF AnswerFailure
<1>5. CASE chain[1].entry = entry.id
  <2>1. /\ entry' = KeepFailed(chain[1]) /\ stuck' = stuck
        /\ inverted' = (inverted \/ Tail(chain) # <<>>)
    BY <1>2, <1>5 DEF FlushFails
  <2> QED
    BY <1>1, <1>3, <1>4, <1>5, <2>1
<1>6. CASE chain[1].entry # entry.id
  <2>1. entry' = entry /\ stuck' = stuck \cup {chain[1].entry} /\ inverted' = inverted
    <3>1. /\ entry' = entry /\ stuck' = stuck \cup {chain[1].entry}
          /\ inverted' = (inverted \/ (FALSE /\ Tail(chain) # <<>>))
      BY <1>2, <1>6 DEF FlushFails
    <3>2. inverted \in BOOLEAN
      BY DEF TypeOK
    <3> QED
      BY <3>1, <3>2
  <2> QED
    BY <1>1, <1>3, <1>4, <1>6, <2>1
<1> QED
  BY <1>5, <1>6

\* What a write leaves on disk.
LEMMA StoreFacts ==
  ASSUME stored \in Patches, written \subseteq Nat, NEW patch \in Patches,
         NEW W \in SUBSET Touched(patch), Store(patch, W)
  PROVE  /\ stored' \in Patches /\ written' \subseteq Nat
         /\ \A f \in Fields : IF f \in W THEN stored'[f] = patch[f] /\ patch[f] # 0
                                         ELSE stored'[f] = stored[f]
         /\ written' = written \cup {patch[f] : f \in W}
BY DEF Store, Values, Touched, Patches

\* The build root goes: the disk is empty, its values are recorded, the queue is as it was.
LEMMA VanishFacts ==
  ASSUME TypeOK, RootVanishes
  PROVE  /\ stored' = Empty /\ \A f \in Fields : stored[f] \in erased'
         /\ erased \subseteq erased' /\ erased' \subseteq Nat
         /\ gone' \in BOOLEAN /\ faults' \in Nat
         /\ UNCHANGED <<calls, entry, entries, timeouts, chain, written, swallowed, stuck,
                        orphaned, inverted>>
<1>1. /\ stored' = Empty /\ erased' = erased \cup {stored[f] : f \in Fields}
      /\ UNCHANGED <<calls, entry, entries, timeouts, chain, written, swallowed, stuck,
                     orphaned, inverted>>
  BY DEF RootVanishes
<1>2. gone' \in BOOLEAN
  BY DEF RootVanishes
<1>3. faults' \in Nat
  BY DEF RootVanishes, Fault, TypeOK
<1>4. erased \subseteq Nat /\ \A f \in Fields : stored[f] \in Nat
  BY DEF TypeOK, Patches
<1> QED
  BY <1>1, <1>2, <1>3, <1>4

\* The failed patch goes back into the entry it came from, as a typed, armed entry.
LEMMA FailedKept ==
  ASSUME entry \in EntryRecords, NEW h \in FlushRecords
  PROVE  /\ KeepFailed(h) \in EntryRecords
         /\ KeepFailed(h).id = entry.id /\ KeepFailed(h).waiters = entry.waiters
         /\ KeepFailed(h).patch = MergeState(h.patch, entry.patch)
         /\ KeepFailed(h).timer = TRUE
<1>1. MergeState(h.patch, entry.patch) \in Patches
  BY PatchTyped DEF EntryRecords, FlushRecords
<1>2. KeepFailed(h) = [entry EXCEPT !.patch = MergeState(h.patch, entry.patch),
                                    !.required = h.required, !.timer = TRUE]
  BY DEF KeepFailed
<1> HIDE DEF KeepFailed
<1> QED
  BY <1>1, <1>2 DEF EntryRecords, FlushRecords

\* Every step is of one of these kinds.
LEMMA StepCases ==
  ASSUME [Next]_vars
  PROVE  \/ \E field \in Fields, required \in BOOLEAN : QueueStatePatch(field, required)
         \/ FlushDebounced \/ FlushBuildState \/ FlushSucceeds
         \/ \E kind \in {"lock", "write"} : FlushFails(kind)
         \/ \E c \in 1..MaxCalls : WaiterTimesOut(c)
         \/ RootVanishes
         \/ UNCHANGED vars
BY DEF Next, FlushEnds, Wait

-----------------------------------------------------------------------------
(* Type correctness. *)

\* Every flush in the chain writes something.
ChainNotEmpty == \A i \in 1..Len(chain) : chain[i].patch # Empty

\* What holds of the pending entry in every state.
EntryTyped == entry \in EntryRecords /\ (entry.timer <=> entry.patch # Empty)

\* A flush of an armed entry.
LEMMA FlushTyped ==
  ASSUME TypeOK, ChainNotEmpty, NEW e \in EntryRecords, e.patch # Empty, FlushPendingState(e)
  PROVE  chain' \in Seq(FlushRecords) /\ EntryTyped' /\ ChainNotEmpty'
<1>1. chain' \in Seq(FlushRecords) /\ entry' \in EntryRecords /\ entry' = EmptyEntry(e.id)
  BY ChainGrows DEF TypeOK
<1>2. entry'.timer = FALSE /\ entry'.patch = Empty
  BY <1>1 DEF EmptyEntry
<1>3. FlushOf(e).patch # Empty
  BY DEF FlushOf
<1>4. ChainNotEmpty'
  BY <1>3, ChainGrows DEF ChainNotEmpty, TypeOK
<1> QED
  BY <1>1, <1>2, <1>4 DEF EntryTyped

\* A call keeps the types, and arms a timer for what it leaves pending.
LEMMA QueueTyped ==
  ASSUME TypeOK, ChainNotEmpty, NEW field \in Fields, NEW required \in BOOLEAN,
         QueueStatePatch(field, required)
  PROVE  TypeOK' /\ ChainNotEmpty'
<1>1. PICK e : Called(e, field, required) /\ IF required THEN FlushPendingState(e)
                                             ELSE entry' = e /\ chain' = chain
  BY CallFacts
<1>2. e \in EntryRecords /\ (e.timer <=> ~required) /\ e.patch # Empty
  <2>1. /\ e \in EntryRecords /\ (e.timer <=> ~required)
        /\ e.patch = [entry.patch EXCEPT ![field] = Len(calls) + 1]
    BY <1>1 DEF Called
  <2>2. entry.patch \in Patches
    BY DEF TypeOK, EntryRecords
  <2> QED
    BY <2>1, <2>2, CallFacts, PatchTyped
<1>3. calls' \in Seq(CallRecords)
  <2>1. [field |-> field, required |-> required, told |-> "nothing"] \in CallRecords
    BY DEF CallRecords, Answers
  <2> QED
    BY <1>1, <2>1, AppendProperties DEF Called, TypeOK
<1>4. chain' \in Seq(FlushRecords) /\ EntryTyped' /\ ChainNotEmpty'
  <2>1. CASE required
    BY <1>1, <1>2, <2>1, FlushTyped
  <2>2. CASE ~required
    <3>1. entry' = e /\ chain' = chain
      BY <1>1, <2>2
    <3> QED
      BY <3>1, <1>2, <2>2 DEF TypeOK, ChainNotEmpty, EntryTyped
  <2> QED
    BY <2>1, <2>2
<1>5. /\ entries' \in Nat /\ timeouts' \subseteq Nat
      /\ UNCHANGED <<disk, stuck, orphaned, inverted, faults>>
  <2>1. /\ entries \in Nat /\ timeouts \subseteq Nat
    BY DEF TypeOK
  <2>2. /\ entries' \in {entries, entries + 1} /\ Len(calls) + 1 \in Nat
        /\ timeouts' \subseteq timeouts \cup {Len(calls) + 1}
        /\ UNCHANGED <<disk, stuck, orphaned, inverted, faults>>
    BY CallFacts
  <2>3. entries' \in Nat
    BY <2>1, <2>2
  <2>4. timeouts' \subseteq Nat
    BY <2>1, <2>2
  <2> QED
    BY <2>2, <2>3, <2>4
<1> QED
  BY <1>3, <1>4, <1>5 DEF TypeOK, EntryTyped

\* The end of a successful flush keeps the types.
LEMMA SuccessTyped ==
  ASSUME TypeOK, ChainNotEmpty, FlushSucceeds
  PROVE  TypeOK' /\ ChainNotEmpty'
<1>1. /\ chain # <<>> /\ chain' = Tail(chain) /\ chain[1] \in FlushRecords
      /\ chain' \in Seq(FlushRecords)
  BY SuccessFacts, ChainParts DEF TypeOK
<1>2. calls' \in Seq(CallRecords)
  BY SuccessFacts, Settled DEF TypeOK, Answers
<1>3. /\ stored' \in Patches /\ written' \subseteq Nat /\ swallowed' \subseteq Nat
      /\ erased' \subseteq Nat /\ gone' \in BOOLEAN
  <2>1. PICK W : Succeeds(chain[1], W)
    BY SuccessFacts
  <2>2. chain[1].patch \in Patches
    BY <1>1 DEF FlushRecords
  <2>3. stored' \in Patches /\ written' \subseteq Nat
    BY <2>1, <2>2, StoreFacts DEF Succeeds, TypeOK
  <2>4. Values(chain[1].patch, Touched(chain[1].patch)) \subseteq Nat
    BY <2>2 DEF Values, Touched, Patches
  <2>5. swallowed' \subseteq Nat /\ erased' \subseteq Nat /\ gone' \in BOOLEAN
    BY <2>1, <2>4 DEF Succeeds, TypeOK
  <2> QED
    BY <2>3, <2>5
<1>4. EntryTyped' /\ timeouts' \subseteq Nat /\ orphaned' \in BOOLEAN
  <2>1. CASE DeletePending(Tail(chain))
    <3>1. entry' = NoEntry /\ timeouts' = {} /\ orphaned' \in BOOLEAN
      BY <2>1 DEF DeletePending
    <3>2. EntryTyped'
      BY <3>1, PatchTyped DEF EntryTyped, NoEntry, EmptyEntry, EntryRecords
    <3> QED
      BY <3>1, <3>2
  <2>2. CASE entry' = entry /\ orphaned' = orphaned /\ timeouts' = timeouts \ chain[1].waiters
    BY <2>2 DEF EntryTyped, TypeOK
  <2> QED
    BY <2>1, <2>2, SuccessFacts
<1>5. ChainNotEmpty'
  BY <1>1, ChainParts DEF TypeOK, ChainNotEmpty
<1>6. faults' \in Nat
  <2>1. faults \in Nat
    BY DEF TypeOK
  <2> QED
    BY <2>1, SuccessFacts
<1> QED
  BY <1>1, <1>2, <1>3, <1>4, <1>5, <1>6, SuccessFacts DEF TypeOK, EntryTyped

\* The end of a failed flush keeps the types: the patch put back is not empty and has
\* a retry timer.
LEMMA FailureTyped ==
  ASSUME TypeOK, ChainNotEmpty, NEW kind \in {"lock", "write"}, FlushFails(kind)
  PROVE  TypeOK' /\ ChainNotEmpty'
<1>1. /\ chain # <<>> /\ chain' = Tail(chain) /\ chain[1] \in FlushRecords
      /\ chain' \in Seq(FlushRecords) /\ 1 \in 1..Len(chain)
  BY FailureFacts, ChainParts DEF TypeOK
<1>2. calls' \in Seq(CallRecords)
  BY FailureFacts, Settled DEF TypeOK, Answers
<1>3. stored' \in Patches /\ written' \subseteq Nat
  <2>1. chain[1].patch \in Patches
    BY <1>1 DEF FlushRecords
  <2> QED
    BY <2>1, FailureFacts, StoreFacts DEF TypeOK
<1>4. EntryTyped' /\ stuck' \subseteq Nat /\ inverted' \in BOOLEAN
  <2>0. entry \in EntryRecords /\ stuck \subseteq Nat /\ inverted \in BOOLEAN
        /\ chain[1].entry \in Nat
    BY <1>1 DEF TypeOK, FlushRecords
  <2>1. CASE chain[1].entry = entry.id
    <3>1. /\ entry' = KeepFailed(chain[1]) /\ stuck' = stuck
          /\ inverted' = (inverted \/ Tail(chain) # <<>>)
      BY <2>1, FailureFacts
    <3>2. inverted' \in BOOLEAN
      BY <3>1
    <3>3. chain[1].patch # Empty /\ chain[1].patch \in Patches /\ entry.patch \in Patches
      BY <1>1, <2>0 DEF ChainNotEmpty, FlushRecords, EntryRecords
    <3>4. EntryTyped'
      BY <3>1, <3>3, <2>0, <1>1, FailedKept, PatchTyped DEF EntryTyped
    <3> QED
      BY <3>1, <3>2, <3>4, <2>0
  <2>2. CASE chain[1].entry # entry.id
    <3>1. entry' = entry /\ stuck' = stuck \cup {chain[1].entry} /\ inverted' = inverted
      BY <2>2, FailureFacts
    <3>2. EntryTyped'
      BY <3>1 DEF EntryTyped, TypeOK
    <3> QED
      BY <3>1, <3>2, <2>0
  <2> QED
    BY <2>1, <2>2
<1>5. ChainNotEmpty'
  BY <1>1, ChainParts DEF TypeOK, ChainNotEmpty
<1>6. faults' \in Nat /\ timeouts' \subseteq Nat
  <2>1. faults \in Nat /\ timeouts \subseteq Nat
    BY DEF TypeOK
  <2>2. faults' = faults + 1 /\ timeouts' = timeouts \ chain[1].waiters
    BY FailureFacts
  <2>3. faults' \in Nat
    BY <2>1, <2>2
  <2>4. timeouts' \subseteq Nat
    BY <2>1, <2>2
  <2> QED
    BY <2>3, <2>4
<1> QED
  BY <1>1, <1>2, <1>3, <1>4, <1>5, <1>6, FailureFacts DEF TypeOK, EntryTyped

\* Every step keeps the types.
LEMMA TypeStep ==
  ASSUME TypeOK, ChainNotEmpty, [Next]_vars
  PROVE  TypeOK' /\ ChainNotEmpty'
<1>1. CASE FlushDebounced
  <2>1. FlushPendingState(entry) /\ entry \in EntryRecords /\ entry.patch # Empty
    BY <1>1 DEF FlushDebounced, TypeOK
  <2>2. chain' \in Seq(FlushRecords) /\ EntryTyped' /\ ChainNotEmpty'
    BY <2>1, FlushTyped
  <2> QED
    BY <2>2, <1>1 DEF FlushDebounced, TypeOK, EntryTyped
<1>2. CASE FlushBuildState
  <2>1. entry' = NoEntry /\ timeouts' = {} /\ orphaned' \in BOOLEAN
    BY <1>2 DEF FlushBuildState, DeletePending
  <2>2. EntryTyped'
    BY <2>1, PatchTyped DEF EntryTyped, NoEntry, EmptyEntry, EntryRecords
  <2> QED
    BY <2>1, <2>2, <1>2 DEF FlushBuildState, TypeOK, EntryTyped, ChainNotEmpty
<1>3. ASSUME NEW c \in 1..MaxCalls, WaiterTimesOut(c) PROVE TypeOK' /\ ChainNotEmpty'
  <2>1. calls' \in Seq(CallRecords)
    BY <1>3, Settled DEF WaiterTimesOut, TypeOK, Answers
  <2>2. entry' = [entry EXCEPT !.waiters = entry.waiters \ {c}]
    BY <1>3 DEF WaiterTimesOut, TypeOK, EntryRecords
  <2>3. EntryTyped'
    BY <2>2 DEF EntryTyped, TypeOK, EntryRecords
  <2> QED
    BY <2>1, <2>3, <1>3 DEF WaiterTimesOut, TypeOK, EntryTyped, ChainNotEmpty
<1>4. CASE RootVanishes
  BY <1>4, VanishFacts, PatchTyped DEF TypeOK, ChainNotEmpty
<1>5. CASE UNCHANGED vars
  BY <1>5 DEF vars, TypeOK, ChainNotEmpty
<1> QED
  BY StepCases, QueueTyped, SuccessTyped, FailureTyped, <1>1, <1>2, <1>3, <1>4, <1>5

\* The queue starts typed and empty.
LEMMA TypeInit == Init => TypeOK /\ ChainNotEmpty
<1> SUFFICES ASSUME Init PROVE TypeOK /\ ChainNotEmpty
  OBVIOUS
<1>1. EntryTyped
  BY PatchTyped DEF Init, EntryTyped, NoEntry, EmptyEntry, EntryRecords
<1>2. calls \in Seq(CallRecords) /\ chain \in Seq(FlushRecords) /\ Len(chain) = 0
  BY EmptySeq DEF Init
<1>3. stored \in Patches
  BY PatchTyped DEF Init
<1>4. ChainNotEmpty
  BY <1>2 DEF ChainNotEmpty
<1>5. entries \in Nat /\ faults \in Nat
  BY DEF Init
<1>6. /\ timeouts \subseteq Nat /\ written \subseteq Nat /\ swallowed \subseteq Nat
      /\ erased \subseteq Nat /\ stuck \subseteq Nat
      /\ gone \in BOOLEAN /\ orphaned \in BOOLEAN /\ inverted \in BOOLEAN
  BY DEF Init
<1> QED
  BY <1>1, <1>2, <1>3, <1>4, <1>5, <1>6 DEF TypeOK, EntryTyped

\* The queue never leaves its types, and a pending patch always has a timer.
THEOREM PatchTypeCorrect == Spec => [](TypeOK /\ ChainNotEmpty)
BY TypeInit, TypeStep, PTL DEF Spec

-----------------------------------------------------------------------------
(* The order of writes. *)

\* A value waiting to be written comes from a call for that field.
FromCalls(patch, cs) ==
  \A f \in Fields : patch[f] # 0 => patch[f] \in DOMAIN cs /\ cs[patch[f]].field = f
PatchesFromCalls ==
  /\ FromCalls(entry.patch, calls) /\ FromCalls(stored, calls)
  /\ \A i \in 1..Len(chain) : FromCalls(chain[i].patch, calls)

\* Calls are only added; a call keeps its field and its durability.
Extends(cs, old) ==
  \A c \in DOMAIN old : /\ c \in DOMAIN cs
                        /\ cs[c].field = old[c].field /\ cs[c].required = old[c].required

\* No step takes a call back or changes its field or its durability.
LEMMA CallsExtended ==
  ASSUME TypeOK, [Next]_vars
  PROVE  Extends(calls', calls)
<1>1. ASSUME NEW field \in Fields, NEW required \in BOOLEAN, QueueStatePatch(field, required)
      PROVE  Extends(calls', calls)
  <2>1. calls' = Append(calls, [field |-> field, required |-> required, told |-> "nothing"])
    BY <1>1 DEF QueueStatePatch
  <2>2. DOMAIN calls = 1..Len(calls) /\ DOMAIN calls' = 1..(Len(calls) + 1)
        /\ Len(calls) \in Nat /\ \A c \in 1..Len(calls) : calls'[c] = calls[c]
    <3>1. [field |-> field, required |-> required, told |-> "nothing"] \in CallRecords
      BY DEF CallRecords, Answers
    <3> QED
      BY <2>1, <3>1, LenProperties, AppendProperties DEF TypeOK
  <2> QED
    BY <2>2 DEF Extends
<1>2. CASE FlushSucceeds
  BY <1>2, SuccessFacts, Settled DEF TypeOK, Answers, Extends
<1>3. ASSUME NEW kind \in {"lock", "write"}, FlushFails(kind) PROVE Extends(calls', calls)
  BY <1>3, FailureFacts, Settled DEF TypeOK, Answers, Extends
<1>4. ASSUME NEW c \in 1..MaxCalls, WaiterTimesOut(c) PROVE Extends(calls', calls)
  BY <1>4, Settled DEF WaiterTimesOut, TypeOK, Answers, Extends
<1>5. CASE FlushDebounced \/ FlushBuildState \/ RootVanishes \/ UNCHANGED vars
  BY <1>5, VanishFacts DEF FlushDebounced, FlushBuildState, vars, Extends
<1> QED
  BY StepCases, <1>1, <1>2, <1>3, <1>4, <1>5

\* A new call is a call.
LEMMA CallRecordTyped ==
  \A field \in Fields, required \in BOOLEAN :
    [field |-> field, required |-> required, told |-> "nothing"] \in CallRecords
BY DEF CallRecords, Answers

\* Values stay values of calls when calls are added or answered.
LEMMA FromCallsKept ==
  ASSUME NEW cs, NEW old, Extends(cs, old), NEW patch, FromCalls(patch, old)
  PROVE  FromCalls(patch, cs)
BY DEF Extends, FromCalls

\* mergeState invents no values.
LEMMA FromCallsMerged ==
  ASSUME NEW cs, NEW base, NEW patch, FromCalls(base, cs), FromCalls(patch, cs)
  PROVE  FromCalls(MergeState(base, patch), cs)
BY DEF FromCalls, MergeState

\* An empty patch has no values.
LEMMA FromCallsEmpty == \A cs : FromCalls(Empty, cs)
BY DEF FromCalls, Empty

\* The pending entry after a call, and the call it comes from.
LEMMA CallFromCalls ==
  ASSUME TypeOK, FromCalls(entry.patch, calls), NEW field \in Fields, NEW required \in BOOLEAN,
         NEW e, Called(e, field, required)
  PROVE  /\ FromCalls(e.patch, calls') /\ e.patch \in Patches
         /\ Len(calls) \in Nat /\ DOMAIN calls = 1..Len(calls)
         /\ DOMAIN calls' = 1..(Len(calls) + 1)
         /\ calls'[Len(calls) + 1] =
              [field |-> field, required |-> required, told |-> "nothing"]
         /\ \A c \in DOMAIN calls : calls'[c] = calls[c]
<1>1. /\ calls' = Append(calls, [field |-> field, required |-> required, told |-> "nothing"])
      /\ e.patch = [entry.patch EXCEPT ![field] = Len(calls) + 1]
  BY DEF Called
<1>2. [field |-> field, required |-> required, told |-> "nothing"] \in CallRecords
  BY DEF CallRecords, Answers
<1>3. /\ DOMAIN calls = 1..Len(calls) /\ DOMAIN calls' = 1..(Len(calls) + 1)
      /\ Len(calls) \in Nat /\ \A c \in 1..Len(calls) : calls'[c] = calls[c]
      /\ calls'[Len(calls) + 1] =
           [field |-> field, required |-> required, told |-> "nothing"]
  BY <1>1, <1>2, LenProperties, AppendProperties DEF TypeOK
<1>4. entry.patch \in Patches
  BY DEF TypeOK, EntryRecords
<1>5. e.patch \in Patches
  BY <1>1, <1>3, <1>4, PatchTyped
<1>6. FromCalls(e.patch, calls')
  <2> SUFFICES ASSUME NEW f \in Fields, e.patch[f] # 0
               PROVE  e.patch[f] \in DOMAIN calls' /\ calls'[e.patch[f]].field = f
    BY DEF FromCalls
  <2>1. CASE f = field
    <3>1. e.patch[f] = Len(calls) + 1
      BY <2>1, <1>1, <1>4 DEF Patches
    <3> QED
      BY <3>1, <2>1, <1>3
  <2>2. CASE f # field
    <3>1. e.patch[f] = entry.patch[f]
      BY <2>2, <1>1, <1>4 DEF Patches
    <3>2. entry.patch[f] \in DOMAIN calls /\ calls[entry.patch[f]].field = f
      BY <3>1 DEF FromCalls
    <3> QED
      BY <3>1, <3>2, <1>3
  <2> QED
    BY <2>1, <2>2
<1> QED
  BY <1>3, <1>5, <1>6

\* Every step keeps values those of calls for their field.
LEMMA FromCallsStep ==
  ASSUME TypeOK, PatchesFromCalls, [Next]_vars
  PROVE  PatchesFromCalls'
<1>0. /\ Extends(calls', calls)
      /\ FromCalls(entry.patch, calls') /\ FromCalls(stored, calls')
      /\ \A i \in 1..Len(chain) : FromCalls(chain[i].patch, calls')
  BY CallsExtended, FromCallsKept DEF PatchesFromCalls
<1> SUFFICES /\ FromCalls(entry'.patch, calls') /\ FromCalls(stored', calls')
             /\ \A i \in 1..Len(chain') : FromCalls(chain'[i].patch, calls')
  BY DEF PatchesFromCalls
<1>1. ASSUME NEW e \in EntryRecords, FromCalls(e.patch, calls'), FlushPendingState(e)
      PROVE  /\ FromCalls(entry'.patch, calls')
             /\ \A i \in 1..Len(chain') : FromCalls(chain'[i].patch, calls')
  <2>1. entry'.patch = Empty
    BY <1>1, ChainGrows DEF TypeOK, EmptyEntry
  <2>2. ASSUME NEW i \in 1..Len(chain') PROVE FromCalls(chain'[i].patch, calls')
    <3>1. CASE i = Len(chain) + 1
      <4>a. chain'[i] = FlushOf(e)
        BY <3>1, <1>1, ChainGrows DEF TypeOK
      <4>1. chain'[i].patch = e.patch
        BY <4>a DEF FlushOf
      <4> QED
        BY <4>1, <1>1
    <3>2. CASE i # Len(chain) + 1
      <4>1. i \in 1..Len(chain) /\ chain'[i] = chain[i]
        BY <3>2, <1>1, ChainGrows DEF TypeOK
      <4> QED
        BY <4>1, <1>0
    <3> QED
      BY <3>1, <3>2
  <2> QED
    BY <2>1, <2>2, FromCallsEmpty
<1>2. ASSUME chain # <<>>, chain' = Tail(chain)
      PROVE  /\ \A i \in 1..Len(chain') : FromCalls(chain'[i].patch, calls')
             /\ FromCalls(chain[1].patch, calls') /\ chain[1] \in FlushRecords
  BY <1>0, <1>2, ChainParts DEF TypeOK
<1>3. ASSUME NEW W \in SUBSET Touched(chain[1].patch), Store(chain[1].patch, W),
             FromCalls(chain[1].patch, calls'), chain[1] \in FlushRecords
      PROVE  FromCalls(stored', calls')
  <2>0. chain[1].patch \in Patches /\ stored \in Patches /\ written \subseteq Nat
    BY <1>3 DEF TypeOK, FlushRecords
  <2>1. \A f \in Fields : stored'[f] \in {chain[1].patch[f], stored[f]}
    BY <1>3, <2>0, StoreFacts
  <2> QED
    BY <2>1, <1>0, <1>3 DEF FromCalls
<1>4. ASSUME NEW field \in Fields, NEW required \in BOOLEAN, QueueStatePatch(field, required)
      PROVE  PatchesFromCalls'
  <2>1. PICK e : Called(e, field, required) /\ IF required THEN FlushPendingState(e)
                                               ELSE entry' = e /\ chain' = chain
    BY <1>4, CallFacts
  <2>2. FromCalls(e.patch, calls') /\ e \in EntryRecords
    BY <2>1, CallFromCalls DEF PatchesFromCalls, Called
  <2>3. stored' = stored
    BY <1>4, CallFacts
  <2>4. CASE required
    BY <2>1, <2>2, <2>3, <2>4, <1>0, <1>1 DEF PatchesFromCalls
  <2>5. CASE ~required
    BY <2>1, <2>2, <2>3, <2>5, <1>0 DEF PatchesFromCalls
  <2> QED
    BY <2>4, <2>5
<1>5. CASE FlushDebounced
  <2>1. FlushPendingState(entry) /\ entry \in EntryRecords /\ stored' = stored
    BY <1>5 DEF FlushDebounced, TypeOK
  <2> QED
    BY <2>1, <1>0, <1>1
<1>6. CASE FlushBuildState
  <2>1. entry'.patch = Empty /\ UNCHANGED <<stored, chain>>
    BY <1>6 DEF FlushBuildState, DeletePending, NoEntry, EmptyEntry
  <2> QED
    BY <2>1, <1>0, FromCallsEmpty
<1>7. CASE FlushSucceeds
  <2>1. chain # <<>> /\ chain' = Tail(chain)
    BY <1>7, SuccessFacts
  <2>2. PICK W : Succeeds(chain[1], W)
    BY <1>7, SuccessFacts
  <2>3. FromCalls(stored', calls')
    BY <2>1, <2>2, <1>2, <1>3 DEF Succeeds
  <2>4. entry'.patch \in {entry.patch, Empty}
    BY <1>7, SuccessFacts DEF DeletePending, NoEntry, EmptyEntry
  <2> QED
    BY <2>1, <2>3, <2>4, <1>0, <1>2, FromCallsEmpty
<1>8. ASSUME NEW kind \in {"lock", "write"}, FlushFails(kind) PROVE PatchesFromCalls'
  <2>1. chain # <<>> /\ chain' = Tail(chain)
    BY <1>8, FailureFacts
  <2>2. PICK W \in SUBSET Touched(chain[1].patch) : Store(chain[1].patch, W)
    BY <1>8, FailureFacts
  <2>3. FromCalls(stored', calls')
    BY <2>1, <2>2, <1>2, <1>3
  <2>4. FromCalls(entry'.patch, calls')
    <3>1. entry' = entry \/ entry' = KeepFailed(chain[1])
      BY <1>8, FailureFacts
    <3>2. KeepFailed(chain[1]).patch = MergeState(chain[1].patch, entry.patch)
      BY <2>1, <1>2, FailedKept DEF TypeOK
    <3> QED
      BY <3>1, <3>2, <2>1, <1>0, <1>2, FromCallsMerged
  <2> QED
    BY <2>1, <2>3, <2>4, <1>2 DEF PatchesFromCalls
<1>9. ASSUME NEW c \in 1..MaxCalls, WaiterTimesOut(c) PROVE PatchesFromCalls'
  <2>1. entry'.patch = entry.patch /\ UNCHANGED <<stored, chain>>
    BY <1>9 DEF WaiterTimesOut, TypeOK, EntryRecords
  <2> QED
    BY <2>1, <1>0 DEF PatchesFromCalls
<1>10. CASE RootVanishes
  BY <1>10, <1>0, VanishFacts, FromCallsEmpty
<1>11. CASE UNCHANGED vars
  BY <1>11, <1>0 DEF vars
<1> QED
  BY StepCases, <1>4, <1>5, <1>6, <1>7, <1>8, <1>9, <1>10, <1>11 DEF PatchesFromCalls

\* Along the chain, and on to the pending entry, no field goes back.
Follows(patch, earlier) == \A f \in Fields : patch[f] = 0 \/ patch[f] >= earlier[f]
ChainOrdered ==
  /\ Follows(entry.patch, stored)
  /\ \A i \in 1..Len(chain) :
       /\ Follows(chain[i].patch, stored)
       /\ Follows(entry.patch, chain[i].patch)
       /\ \A j \in 1..Len(chain) : i < j => Follows(chain[j].patch, chain[i].patch)
Ordered == inverted \/ ChainOrdered

\* Following is a matter of the fields that are set; what follows a patch and the
\* disk follows the disk after a write of the patch.
LEMMA FollowsEmpty ==
  /\ \A patch \in Patches : Follows(patch, Empty) /\ Follows(Empty, patch)
BY DEF Follows, Empty, Patches

\* What follows the disk and a patch follows the disk when the patch is written.
LEMMA FollowsStored ==
  ASSUME NEW patch \in Patches, NEW before \in Patches, NEW after \in Patches,
         NEW h \in Patches, Follows(patch, before), Follows(patch, h),
         \A f \in Fields : after[f] \in {h[f], before[f]}
  PROVE  Follows(patch, after)
BY DEF Follows, Patches

\* A merge of two patches that follow the disk follows it.
LEMMA FollowsMerged ==
  ASSUME NEW h \in Patches, NEW patch \in Patches, NEW s \in Patches,
         Follows(h, s), Follows(patch, s)
  PROVE  Follows(MergeState(h, patch), s)
BY DEF Follows, MergeState, Patches

\* A patch that follows the disk follows it when a part of the patch is written.
LEMMA FollowsSelf ==
  ASSUME NEW h \in Patches, NEW s \in Patches, NEW after \in Patches, Follows(h, s),
         \A f \in Fields : after[f] \in {h[f], s[f]}
  PROVE  Follows(h, after)
<1> SUFFICES ASSUME NEW f \in Fields PROVE h[f] = 0 \/ h[f] >= after[f]
  BY DEF Follows
<1>1. h[f] \in Nat /\ (h[f] = 0 \/ h[f] >= s[f]) /\ after[f] \in {h[f], s[f]}
  BY DEF Follows, Patches
<1> QED
  BY <1>1

\* A call's number is greater than every value in the queue.
LEMMA FollowsCall ==
  ASSUME NEW patch \in Patches, NEW earlier \in Patches, NEW field \in Fields, NEW c \in Nat,
         Follows(patch, earlier), \A f \in Fields : earlier[f] <= c
  PROVE  Follows([patch EXCEPT ![field] = c], earlier)
BY DEF Follows, Patches

\* The patches of a state are patches.
LEMMA PatchesTyped ==
  ASSUME TypeOK
  PROVE  /\ entry.patch \in Patches /\ stored \in Patches
         /\ \A i \in 1..Len(chain) : chain[i] \in FlushRecords /\ chain[i].patch \in Patches
<1>1. \A i \in 1..Len(chain) : chain[i] \in FlushRecords
  BY ElementOfSeq DEF TypeOK
<1> QED
  BY <1>1 DEF TypeOK, EntryRecords, FlushRecords

\* The chain grows by a patch that follows all of it.
LEMMA OrderGrows ==
  ASSUME TypeOK, ChainOrdered, NEW e \in EntryRecords, FlushPendingState(e), stored' = stored,
         Follows(e.patch, stored), \A i \in 1..Len(chain) : Follows(e.patch, chain[i].patch)
  PROVE  ChainOrdered'
<1> DEFINE n == Len(chain) + 1
<1>1. /\ n \in Nat /\ chain'[n] = FlushOf(e) /\ entry' = EmptyEntry(e.id)
      /\ \A i \in 1..Len(chain') : i # n => i \in 1..Len(chain) /\ chain'[i] = chain[i]
      /\ FlushOf(e) \in FlushRecords
  BY ChainGrows DEF TypeOK
<1>2. chain'[n].patch = e.patch /\ entry'.patch = Empty /\ e.patch \in Patches
  BY <1>1 DEF FlushOf, EmptyEntry, EntryRecords
<1>3. Follows(entry'.patch, stored')
  BY <1>2, PatchesTyped, FollowsEmpty
<1>4. ASSUME NEW i \in 1..Len(chain')
      PROVE  /\ Follows(chain'[i].patch, stored') /\ Follows(entry'.patch, chain'[i].patch)
             /\ \A j \in 1..Len(chain') : i < j => Follows(chain'[j].patch, chain'[i].patch)
  <2>1. CASE i = n
    <3>1. \A j \in 1..Len(chain') : ~(i < j)
      <4>1. Len(chain') = n
        BY ChainGrows DEF TypeOK
      <4> QED
        BY <4>1, <2>1, <1>1
    <3> QED
      BY <3>1, <2>1, <1>2, FollowsEmpty
  <2>2. CASE i # n
    <3>1. i \in 1..Len(chain) /\ chain'[i] = chain[i] /\ chain[i].patch \in Patches
      BY <2>2, <1>1, PatchesTyped
    <3>2. ASSUME NEW j \in 1..Len(chain'), i < j
          PROVE  Follows(chain'[j].patch, chain'[i].patch)
      <4>1. CASE j = n
        BY <4>1, <3>1, <1>2
      <4>2. CASE j # n
        <5>1. j \in 1..Len(chain) /\ chain'[j] = chain[j]
          BY <4>2, <1>1
        <5> QED
          BY <5>1, <3>1, <3>2 DEF ChainOrdered
      <4> QED
        BY <4>1, <4>2
    <3>3. Follows(chain'[i].patch, stored')
      BY <3>1 DEF ChainOrdered
    <3>4. Follows(entry'.patch, chain'[i].patch)
      BY <3>1, <1>2, FollowsEmpty
    <3> QED
      BY <3>2, <3>3, <3>4
  <2> QED
    BY <2>1, <2>2
<1> QED
  BY <1>3, <1>4 DEF ChainOrdered

\* The first of the chain is written, and the rest still follows the disk.
LEMMA OrderShrinks ==
  ASSUME TypeOK, ChainOrdered, chain # <<>>, chain' = Tail(chain), stored' \in Patches,
         \A f \in Fields : stored'[f] \in {chain[1].patch[f], stored[f]}
  PROVE  /\ \A i \in 1..Len(chain') :
              /\ Follows(chain'[i].patch, stored') /\ Follows(entry.patch, chain'[i].patch)
              /\ \A j \in 1..Len(chain') : i < j => Follows(chain'[j].patch, chain'[i].patch)
         /\ Follows(entry.patch, stored') /\ Follows(chain[1].patch, stored')
<1>1. /\ 1 \in 1..Len(chain) /\ Len(chain) \in Nat
      /\ \A i \in 1..Len(chain') : i + 1 \in 1..Len(chain) /\ chain'[i] = chain[i + 1]
                                   /\ i \in Nat /\ 1 < i + 1
  BY ChainParts, LenProperties DEF TypeOK
<1>2. ASSUME NEW i \in 1..Len(chain')
      PROVE  /\ Follows(chain'[i].patch, stored') /\ Follows(entry.patch, chain'[i].patch)
             /\ \A j \in 1..Len(chain') : i < j => Follows(chain'[j].patch, chain'[i].patch)
  <2>1. /\ i + 1 \in 1..Len(chain) /\ chain'[i] = chain[i + 1] /\ 1 < i + 1
        /\ chain[i + 1].patch \in Patches
    BY <1>1, PatchesTyped
  <2>2. /\ Follows(chain[i + 1].patch, stored) /\ Follows(entry.patch, chain[i + 1].patch)
        /\ Follows(chain[i + 1].patch, chain[1].patch)
    BY <2>1, <1>1 DEF ChainOrdered
  <2>3. Follows(chain[i + 1].patch, stored')
    BY <2>1, <2>2, <1>1, PatchesTyped, FollowsStored
  <2>4. ASSUME NEW j \in 1..Len(chain'), i < j
        PROVE  Follows(chain'[j].patch, chain'[i].patch)
    <3>1. j + 1 \in 1..Len(chain) /\ chain'[j] = chain[j + 1] /\ i + 1 < j + 1
      BY <1>1, <2>4
    <3> QED
      BY <3>1, <2>1 DEF ChainOrdered
  <2> QED
    BY <2>1, <2>2, <2>3, <2>4
<1>3. Follows(entry.patch, stored')
  <2>1. Follows(entry.patch, stored) /\ Follows(entry.patch, chain[1].patch)
    BY <1>1 DEF ChainOrdered
  <2> QED
    BY <2>1, <1>1, PatchesTyped, FollowsStored
<1>4. Follows(chain[1].patch, stored')
  <2>1. Follows(chain[1].patch, stored)
    BY <1>1 DEF ChainOrdered
  <2> QED
    BY <2>1, <1>1, PatchesTyped, FollowsSelf
<1> QED
  BY <1>2, <1>3, <1>4

\* What is stored by the end of a flush.
LEMMA StoredFrom ==
  ASSUME TypeOK, FlushSucceeds \/ \E kind \in {"lock", "write"} : FlushFails(kind)
  PROVE  /\ chain # <<>> /\ chain' = Tail(chain) /\ stored' \in Patches
         /\ \A f \in Fields : \/ stored'[f] = stored[f]
                              \/ stored'[f] = chain[1].patch[f] /\ chain[1].patch[f] # 0
<1>1. /\ chain # <<>> /\ chain' = Tail(chain)
      /\ \E W \in SUBSET Touched(chain[1].patch) : Store(chain[1].patch, W)
  BY SuccessFacts, FailureFacts DEF Succeeds
<1>2. chain[1].patch \in Patches
  BY <1>1, ChainParts, PatchesTyped DEF TypeOK
<1> QED
  BY <1>1, <1>2, StoreFacts DEF TypeOK

\* Every step keeps the order, and the disk does not go back, unless a flush fails
\* with another behind it, or the build root goes.
LEMMA OrderStep ==
  ASSUME TypeOK, PatchesFromCalls, Ordered, [Next]_vars
  PROVE  /\ Ordered'
         /\ inverted' \/ \A f \in Fields : stored'[f] >= stored[f] \/ stored[f] \in erased'
<1>0. inverted \in BOOLEAN /\ inverted' \in BOOLEAN /\ (inverted => inverted')
  <2>1. inverted \in BOOLEAN
    BY DEF TypeOK
  <2>2. inverted' = inverted \/ inverted' = (inverted \/ Tail(chain) # <<>>)
    BY StepCases, CallFacts, SuccessFacts, FailureFacts, VanishFacts
       DEF FlushDebounced, FlushBuildState, WaiterTimesOut, vars
  <2> QED
    BY <2>1, <2>2
<1> SUFFICES ASSUME ~inverted'
             PROVE  /\ ChainOrdered'
                    /\ \A f \in Fields : stored'[f] >= stored[f] \/ stored[f] \in erased'
  BY DEF Ordered
<1>1. ChainOrdered
  BY <1>0 DEF Ordered
<1> DEFINE Kept == \A f \in Fields : stored'[f] >= stored[f] \/ stored[f] \in erased'
<1>2. ASSUME stored' = stored PROVE Kept
  BY <1>2, PatchesTyped DEF Patches
<1>3. ASSUME NEW field \in Fields, NEW required \in BOOLEAN, QueueStatePatch(field, required)
      PROVE  ChainOrdered' /\ stored' = stored
  <2> DEFINE c == Len(calls) + 1
  <2>1. PICK e : Called(e, field, required) /\ IF required THEN FlushPendingState(e)
                                               ELSE entry' = e /\ chain' = chain
    BY <1>3, CallFacts
  <2>2. stored' = stored /\ c \in Nat /\ Len(calls) \in Nat /\ DOMAIN calls = 1..Len(calls)
    BY <1>3, <2>1, CallFacts, CallFromCalls DEF PatchesFromCalls
  <2>3. ASSUME NEW patch \in Patches, FromCalls(patch, calls) PROVE \A f \in Fields : patch[f] <= c
    BY <2>2, <2>3 DEF FromCalls, Patches
  <2>4. e \in EntryRecords /\ e.patch = [entry.patch EXCEPT ![field] = c]
    BY <2>1 DEF Called
  <2>5. Follows(e.patch, stored)
    <3>1. Follows(entry.patch, stored) /\ \A f \in Fields : stored[f] <= c
      BY <1>1, <2>3, PatchesTyped DEF ChainOrdered, PatchesFromCalls
    <3>2. entry.patch \in Patches /\ stored \in Patches
      BY PatchesTyped
    <3> HIDE DEF c
    <3>3. Follows([entry.patch EXCEPT ![field] = c], stored)
      BY <3>1, <3>2, <2>2, FollowsCall
    <3> QED
      BY <3>3, <2>4
  <2>6. ASSUME NEW i \in 1..Len(chain) PROVE Follows(e.patch, chain[i].patch)
    <3>1. /\ Follows(entry.patch, chain[i].patch) /\ chain[i].patch \in Patches
          /\ FromCalls(chain[i].patch, calls)
      BY <1>1, PatchesTyped DEF ChainOrdered, PatchesFromCalls
    <3>2. \A f \in Fields : chain[i].patch[f] <= c
      BY <3>1, <2>3
    <3> QED
      BY <3>1, <3>2, <2>2, <2>4, PatchesTyped, FollowsCall
  <2>7. CASE required
    BY <2>1, <2>2, <2>4, <2>5, <2>6, <2>7, <1>1, OrderGrows
  <2>8. CASE ~required
    BY <2>1, <2>2, <2>5, <2>6, <2>8, <1>1 DEF ChainOrdered
  <2> QED
    BY <2>2, <2>7, <2>8
<1>4. CASE FlushDebounced
  <2>1. FlushPendingState(entry) /\ entry \in EntryRecords /\ stored' = stored
    BY <1>4 DEF FlushDebounced, TypeOK
  <2>2. ChainOrdered'
    BY <2>1, <1>1, OrderGrows DEF ChainOrdered
  <2> QED
    BY <2>1, <2>2, <1>2
<1>5. CASE FlushBuildState
  <2>1. entry'.patch = Empty /\ UNCHANGED <<stored, chain>>
    BY <1>5 DEF FlushBuildState, DeletePending, NoEntry, EmptyEntry
  <2>2. ChainOrdered'
    BY <2>1, <1>1, PatchesTyped, FollowsEmpty DEF ChainOrdered
  <2> QED
    BY <2>1, <2>2, <1>2
<1>6. ASSUME FlushSucceeds \/ \E kind \in {"lock", "write"} : FlushFails(kind)
      PROVE  /\ Kept
             /\ \A i \in 1..Len(chain') :
                  /\ Follows(chain'[i].patch, stored') /\ Follows(entry.patch, chain'[i].patch)
                  /\ \A j \in 1..Len(chain') : i < j => Follows(chain'[j].patch, chain'[i].patch)
             /\ Follows(entry.patch, stored') /\ Follows(chain[1].patch, stored')
             /\ chain[1] \in FlushRecords /\ chain[1].patch \in Patches /\ stored' \in Patches
             /\ chain' = Tail(chain) /\ chain # <<>>
  <2>1. /\ chain # <<>> /\ chain' = Tail(chain) /\ stored' \in Patches
        /\ \A f \in Fields : \/ stored'[f] = stored[f]
                             \/ stored'[f] = chain[1].patch[f] /\ chain[1].patch[f] # 0
    BY <1>6, StoredFrom
  <2>2. 1 \in 1..Len(chain) /\ chain[1] \in FlushRecords /\ chain[1].patch \in Patches
    BY <2>1, ChainParts, PatchesTyped DEF TypeOK
  <2>3. Follows(chain[1].patch, stored)
    BY <1>1, <2>2 DEF ChainOrdered
  <2>4. Kept
    <3> SUFFICES ASSUME NEW f \in Fields PROVE stored'[f] >= stored[f]
      OBVIOUS
    <3>1. stored[f] \in Nat
      BY PatchesTyped DEF Patches
    <3>2. chain[1].patch[f] = 0 \/ chain[1].patch[f] >= stored[f]
      BY <2>3 DEF Follows
    <3> QED
      BY <2>1, <3>1, <3>2
  <2> QED
    BY <2>1, <2>2, <2>4, <1>1, OrderShrinks
<1>7. CASE FlushSucceeds
  <2>1. entry'.patch \in {entry.patch, Empty}
    BY <1>7, SuccessFacts DEF DeletePending, NoEntry, EmptyEntry
  <2>2. ASSUME NEW i \in 1..Len(chain') PROVE chain'[i].patch \in Patches
    <3>1. chain # <<>> /\ chain' = Tail(chain)
      BY <1>7, SuccessFacts
    <3> QED
      BY <3>1, ChainParts, PatchesTyped DEF TypeOK
  <2>3. ChainOrdered'
    BY <2>1, <2>2, <1>6, <1>7, FollowsEmpty DEF ChainOrdered
  <2> QED
    BY <2>3, <1>6, <1>7
<1>8. ASSUME NEW kind \in {"lock", "write"}, FlushFails(kind) PROVE ChainOrdered' /\ Kept
  <2>1. \/ entry' = KeepFailed(chain[1]) /\ inverted' = (inverted \/ Tail(chain) # <<>>)
        \/ entry' = entry
    BY <1>8, FailureFacts
  <2>2. CASE entry' = entry
    BY <2>2, <1>6, <1>8 DEF ChainOrdered
  <2>3. CASE entry' = KeepFailed(chain[1]) /\ inverted' = (inverted \/ Tail(chain) # <<>>)
    <3>1. chain' = <<>>
      BY <2>3, <1>6, <1>8
    <3>2. Len(chain') = 0
      BY <3>1
    <3>3. entry'.patch = MergeState(chain[1].patch, entry.patch)
      BY <2>3, <1>6, <1>8, FailedKept DEF TypeOK
    <3>4. Follows(entry'.patch, stored')
      BY <3>3, <1>6, <1>8, PatchesTyped, FollowsMerged
    <3> QED
      BY <3>2, <3>4, <1>6, <1>8 DEF ChainOrdered
  <2> QED
    BY <2>1, <2>2, <2>3
<1>9. ASSUME NEW c \in 1..MaxCalls, WaiterTimesOut(c) PROVE ChainOrdered' /\ stored' = stored
  <2>1. entry'.patch = entry.patch /\ UNCHANGED <<stored, chain>>
    BY <1>9 DEF WaiterTimesOut, TypeOK, EntryRecords
  <2> QED
    BY <2>1, <1>1 DEF ChainOrdered
<1>10. CASE RootVanishes
  <2>1. stored' = Empty /\ UNCHANGED <<entry, chain>> /\ Kept
    BY <1>10, VanishFacts
  <2>2. ChainOrdered'
    BY <2>1, <1>1, PatchesTyped, FollowsEmpty DEF ChainOrdered
  <2> QED
    BY <2>1, <2>2
<1>11. CASE UNCHANGED vars
  <2>1. UNCHANGED <<entry, chain, stored>>
    BY <1>11 DEF vars
  <2> QED
    BY <2>1, <1>1, <1>2 DEF ChainOrdered
<1> QED
  BY StepCases, <1>2, <1>3, <1>4, <1>5, <1>7, <1>8, <1>9, <1>10, <1>11

\* The queue starts in order.
LEMMA OrderInit == Init => PatchesFromCalls /\ Ordered
<1> SUFFICES ASSUME Init PROVE PatchesFromCalls /\ Ordered
  OBVIOUS
<1>1. entry.patch = Empty /\ stored = Empty /\ Len(chain) = 0
  BY DEF Init, NoEntry, EmptyEntry
<1>2. PatchesFromCalls
  BY <1>1, FromCallsEmpty DEF PatchesFromCalls
<1>3. ChainOrdered
  BY <1>1, PatchTyped, FollowsEmpty DEF ChainOrdered
<1> QED
  BY <1>2, <1>3 DEF Ordered

\* A field never goes back to an older value, unless its build root went, or a flush
\* failed while another was in the chain: the entry, the chain and the disk are in the
\* order of the calls, and a retry alone can put an old patch behind a newer one.
THEOREM StoredOnlyAdvances == Spec => StoredAdvances
<1> DEFINE Advances ==
      inverted' \/ \A f \in Fields : stored'[f] >= stored[f] \/ stored[f] \in erased'
<1>1. Init => PatchesFromCalls /\ Ordered
  BY OrderInit
<1>2. TypeOK /\ PatchesFromCalls /\ Ordered /\ [Next]_vars =>
        PatchesFromCalls' /\ Ordered' /\ Advances
  BY FromCallsStep, OrderStep
<1>3. Advances =>
        \A f \in Fields : stored'[f] >= stored[f] \/ stored[f] \in erased' \/ inverted'
  OBVIOUS
<1> QED
  BY PatchTypeCorrect, <1>1, <1>2, <1>3, PTL DEF Spec, StoredAdvances

-----------------------------------------------------------------------------
(* Truthful answers. *)

\* The callers a patch is to answer: they set it to their value or a later one, and
\* a required caller makes the write required.
Serves(patch, required, waiters, cs) ==
  \A c \in waiters :
    /\ c \in DOMAIN cs /\ c \in Nat /\ c # 0 /\ cs[c].field \in Fields
    /\ cs[c].told = "nothing" =>
         patch[cs[c].field] >= c /\ (cs[c].required => required)
WaitersServed ==
  /\ Serves(entry.patch, FALSE, entry.waiters, calls)
  /\ \A i \in 1..Len(chain) :
       Serves(chain[i].patch, chain[i].required, chain[i].waiters, calls)

\* A step answers only callers who wait; it answers "flushed" only the callers of
\* a flush that is reported as written.
LEMMA AnswersFinal ==
  ASSUME TypeOK, [Next]_vars, NEW c \in DOMAIN calls
  PROVE  /\ calls'[c].told # calls[c].told => calls[c].told = "nothing"
         /\ calls'[c].told = "flushed" /\ calls[c].told # "flushed" =>
              FlushSucceeds /\ c \in chain[1].waiters
<1>0. /\ calls \in Seq(CallRecords)
      /\ "flushed" \in Answers /\ "rejected" \in Answers
  BY DEF TypeOK, Answers
<1>1. ASSUME NEW field \in Fields, NEW required \in BOOLEAN, QueueStatePatch(field, required)
      PROVE  calls'[c] = calls[c]
  <2>1. calls' = Append(calls, [field |-> field, required |-> required, told |-> "nothing"])
    BY <1>1 DEF QueueStatePatch
  <2>2. [field |-> field, required |-> required, told |-> "nothing"] \in CallRecords
    BY DEF CallRecords, Answers
  <2> QED
    BY <2>1, <2>2, LenProperties, AppendProperties DEF TypeOK
<1>2. CASE FlushSucceeds
  <2>1. calls' = SettleWaiters(chain[1].waiters, "flushed", "flushed")
    BY <1>2, SuccessFacts
  <2>2. calls'[c].told = IF c \in chain[1].waiters /\ calls[c].told = "nothing"
                           THEN "flushed" ELSE calls[c].told
    BY <1>0, <2>1, Settled
  <2> QED
    BY <2>2, <1>2
<1>3. ASSUME NEW kind \in {"lock", "write"}, FlushFails(kind)
      PROVE  /\ calls'[c].told # calls[c].told => calls[c].told = "nothing"
             /\ calls'[c].told = "flushed" => calls[c].told = "flushed"
  <2>1. PICK a \in {"timed_out", "rejected"} :
          calls' = SettleWaiters(chain[1].waiters, "rejected", a)
    BY <1>3, FailureFacts
  <2>2. /\ calls'[c].told \in {"timed_out", "rejected", calls[c].told}
        /\ calls'[c].told # calls[c].told => calls[c].told = "nothing"
    <3>1. a \in Answers
      BY DEF Answers
    <3>2. calls'[c].told = IF c \in chain[1].waiters /\ calls[c].told = "nothing"
                             THEN IF calls[c].required THEN "rejected" ELSE a
                             ELSE calls[c].told
      BY <1>0, <2>1, <3>1, Settled
    <3> QED
      BY <3>2
  <2> QED
    BY <2>2
<1>4. ASSUME NEW w \in 1..MaxCalls, WaiterTimesOut(w)
      PROVE  /\ calls'[c].told # calls[c].told => calls[c].told = "nothing"
             /\ calls'[c].told = "flushed" => calls[c].told = "flushed"
  BY <1>4, Settled DEF WaiterTimesOut, TypeOK, Answers
<1>5. CASE FlushDebounced \/ FlushBuildState \/ RootVanishes \/ UNCHANGED vars
  BY <1>5, VanishFacts DEF FlushDebounced, FlushBuildState, vars
<1> QED
  BY StepCases, <1>1, <1>2, <1>3, <1>4, <1>5

\* Service survives as callers are answered, leave, or merge their patch into another.
LEMMA ServesKept ==
  ASSUME NEW cs, NEW old, Extends(cs, old),
         \A c \in DOMAIN old : cs[c].told = "nothing" => old[c].told = "nothing",
         NEW patch, NEW required, NEW waiters, Serves(patch, required, waiters, old)
  PROVE  Serves(patch, required, waiters, cs)
<1> SUFFICES ASSUME NEW c \in waiters
             PROVE  /\ c \in DOMAIN cs /\ c \in Nat /\ c # 0 /\ cs[c].field \in Fields
                    /\ cs[c].told = "nothing" =>
                         patch[cs[c].field] >= c /\ (cs[c].required => required)
  BY DEF Serves
<1>1. /\ c \in DOMAIN old /\ c \in Nat /\ c # 0 /\ old[c].field \in Fields
      /\ old[c].told = "nothing" =>
           patch[old[c].field] >= c /\ (old[c].required => required)
  BY DEF Serves
<1>2. c \in DOMAIN cs /\ cs[c].field = old[c].field /\ cs[c].required = old[c].required
  BY <1>1 DEF Extends
<1> QED
  BY <1>1, <1>2

\* A merge under the pending patch takes nothing from the callers of that patch.
LEMMA ServesMerged ==
  ASSUME NEW h \in Patches, NEW patch \in Patches, NEW waiters, NEW cs,
         Serves(patch, FALSE, waiters, cs)
  PROVE  Serves(MergeState(h, patch), FALSE, waiters, cs)
<1> SUFFICES ASSUME NEW c \in waiters
             PROVE  /\ c \in DOMAIN cs /\ c \in Nat /\ c # 0 /\ cs[c].field \in Fields
                    /\ cs[c].told = "nothing" =>
                         MergeState(h, patch)[cs[c].field] >= c /\ ~cs[c].required
  BY DEF Serves
<1>1. /\ c \in DOMAIN cs /\ c \in Nat /\ c # 0 /\ cs[c].field \in Fields
      /\ cs[c].told = "nothing" => patch[cs[c].field] >= c /\ ~cs[c].required
  BY DEF Serves
<1>2. ASSUME patch[cs[c].field] >= c
      PROVE  MergeState(h, patch)[cs[c].field] = patch[cs[c].field]
  BY <1>1, <1>2 DEF MergeState, Patches
<1> QED
  BY <1>1, <1>2

\* Best-effort callers may be served by a required write.
LEMMA ServesUpgraded ==
  ASSUME NEW patch, NEW waiters, NEW cs, NEW required, Serves(patch, FALSE, waiters, cs)
  PROVE  Serves(patch, required, waiters, cs)
BY DEF Serves

\* A caller that timed out need not be served.
LEMMA ServesFewer ==
  ASSUME NEW patch, NEW required, NEW waiters, NEW fewer, NEW cs, fewer \subseteq waiters,
         Serves(patch, required, waiters, cs)
  PROVE  Serves(patch, required, fewer, cs)
BY DEF Serves

\* The pending entry answers a new caller, and those it had.
LEMMA ServesCall ==
  ASSUME TypeOK, PatchesFromCalls, WaitersServed, NEW field \in Fields,
         NEW required \in BOOLEAN, NEW e, Called(e, field, required)
  PROVE  /\ required => Serves(e.patch, e.required, e.waiters, calls')
         /\ ~required => Serves(e.patch, FALSE, e.waiters, calls')
<1> DEFINE n == Len(calls) + 1
<1>1. /\ e.patch = [entry.patch EXCEPT ![field] = n] /\ e.waiters = entry.waiters \cup {n}
      /\ (required => e.required)
  BY DEF Called
<1>2. /\ Len(calls) \in Nat /\ DOMAIN calls = 1..Len(calls) /\ DOMAIN calls' = 1..n
      /\ calls'[n] = [field |-> field, required |-> required, told |-> "nothing"]
      /\ \A c \in DOMAIN calls : calls'[c] = calls[c]
  BY CallFromCalls DEF PatchesFromCalls
<1>3. entry.patch \in Patches
  BY PatchesTyped
<1>4. ASSUME NEW c \in e.waiters
      PROVE  /\ c \in DOMAIN calls' /\ c \in Nat /\ c # 0 /\ calls'[c].field \in Fields
             /\ calls'[c].told = "nothing" => /\ e.patch[calls'[c].field] >= c
                                              /\ calls'[c].required => required
  <2>1. CASE c = n
    <3>1. e.patch[field] = n /\ n \in Nat /\ n # 0
      BY <1>1, <1>2, <1>3 DEF Patches
    <3>2. calls'[c].field = field /\ (calls'[c].required <=> required)
      BY <2>1, <1>2
    <3> QED
      BY <3>1, <3>2, <2>1, <1>2
  <2>2. CASE c # n
    <3>1. c \in entry.waiters
      BY <2>2, <1>1
    <3>2. /\ c \in DOMAIN calls /\ c \in Nat /\ c # 0 /\ calls[c].field \in Fields
          /\ calls[c].told = "nothing" => entry.patch[calls[c].field] >= c /\ ~calls[c].required
      BY <3>1 DEF WaitersServed, Serves
    <3>3. calls'[c] = calls[c] /\ c <= n
      BY <3>2, <1>2
    <3>4. e.patch[calls[c].field] \in {n, entry.patch[calls[c].field]}
      BY <1>1, <1>3, <3>2 DEF Patches
    <3>5. calls[c].told = "nothing" => e.patch[calls[c].field] >= c
      BY <3>2, <3>3, <3>4, <1>2
    <3>6. c \in DOMAIN calls'
      BY <3>2, <1>2
    <3> QED
      BY <3>2, <3>3, <3>5, <3>6
  <2> QED
    BY <2>1, <2>2
<1> QED
  BY <1>1, <1>4 DEF Serves

\* Every step keeps the callers of a patch served by it.
LEMMA ServedStep ==
  ASSUME TypeOK, PatchesFromCalls, WaitersServed, [Next]_vars
  PROVE  WaitersServed'
<1>0. /\ Serves(entry.patch, FALSE, entry.waiters, calls')
      /\ \A i \in 1..Len(chain) :
           Serves(chain[i].patch, chain[i].required, chain[i].waiters, calls')
  <2>1. /\ Extends(calls', calls)
        /\ \A c \in DOMAIN calls : calls'[c].told = "nothing" => calls[c].told = "nothing"
    BY CallsExtended, AnswersFinal
  <2> QED
    BY <2>1, ServesKept DEF WaitersServed
<1> SUFFICES /\ Serves(entry'.patch, FALSE, entry'.waiters, calls')
             /\ \A i \in 1..Len(chain') :
                  Serves(chain'[i].patch, chain'[i].required, chain'[i].waiters, calls')
  BY DEF WaitersServed
<1>1. ASSUME NEW e \in EntryRecords, FlushPendingState(e),
             Serves(e.patch, e.required, e.waiters, calls')
      PROVE  WaitersServed'
  <2>1. entry'.waiters = {}
    BY <1>1, ChainGrows DEF TypeOK, EmptyEntry
  <2>2. ASSUME NEW i \in 1..Len(chain')
        PROVE  Serves(chain'[i].patch, chain'[i].required, chain'[i].waiters, calls')
    <3>1. CASE i = Len(chain) + 1
      <4>1. chain'[i] = FlushOf(e)
        BY <3>1, <1>1, ChainGrows DEF TypeOK
      <4>2. /\ chain'[i].patch = e.patch /\ chain'[i].required = e.required
            /\ chain'[i].waiters = e.waiters
        BY <4>1 DEF FlushOf
      <4> QED
        BY <4>2, <1>1
    <3>2. CASE i # Len(chain) + 1
      <4>1. i \in 1..Len(chain) /\ chain'[i] = chain[i]
        BY <3>2, <1>1, ChainGrows DEF TypeOK
      <4> QED
        BY <4>1, <1>0
    <3> QED
      BY <3>1, <3>2
  <2> QED
    BY <2>1, <2>2 DEF WaitersServed, Serves
<1>2. ASSUME chain # <<>>, chain' = Tail(chain)
      PROVE  \A i \in 1..Len(chain') :
               Serves(chain'[i].patch, chain'[i].required, chain'[i].waiters, calls')
  BY <1>0, <1>2, ChainParts DEF TypeOK
<1>3. ASSUME NEW field \in Fields, NEW required \in BOOLEAN, QueueStatePatch(field, required)
      PROVE  WaitersServed'
  <2>1. PICK e : Called(e, field, required) /\ IF required THEN FlushPendingState(e)
                                               ELSE entry' = e /\ chain' = chain
    BY <1>3, CallFacts
  <2>2. e \in EntryRecords
    BY <2>1 DEF Called
  <2>3. CASE required
    BY <2>1, <2>2, <2>3, <1>1, ServesCall
  <2>4. CASE ~required
    <3>1. entry' = e /\ chain' = chain /\ Serves(e.patch, FALSE, e.waiters, calls')
      BY <2>1, <2>4, ServesCall
    <3> QED
      BY <3>1, <1>0 DEF WaitersServed
  <2> QED
    BY <2>3, <2>4
<1>4. CASE FlushDebounced
  <2>1. FlushPendingState(entry) /\ entry \in EntryRecords
    BY <1>4 DEF FlushDebounced, TypeOK
  <2>2. Serves(entry.patch, entry.required, entry.waiters, calls')
    BY <1>0, ServesUpgraded
  <2> QED
    BY <2>1, <2>2, <1>1 DEF WaitersServed
<1>5. CASE FlushBuildState
  <2>1. entry'.waiters = {} /\ chain' = chain
    BY <1>5 DEF FlushBuildState, DeletePending, NoEntry, EmptyEntry
  <2> QED
    BY <2>1, <1>0 DEF Serves
<1>6. CASE FlushSucceeds
  <2>1. chain # <<>> /\ chain' = Tail(chain)
    BY <1>6, SuccessFacts
  <2>2. entry' = entry \/ entry'.waiters = {}
    BY <1>6, SuccessFacts DEF DeletePending, NoEntry, EmptyEntry
  <2>3. Serves(entry'.patch, FALSE, entry'.waiters, calls')
    BY <2>2, <1>0 DEF Serves
  <2> QED
    BY <2>1, <2>3, <1>2
<1>7. ASSUME NEW kind \in {"lock", "write"}, FlushFails(kind) PROVE WaitersServed'
  <2>1. chain # <<>> /\ chain' = Tail(chain)
    BY <1>7, FailureFacts
  <2>2. Serves(entry'.patch, FALSE, entry'.waiters, calls')
    <3>1. entry' = entry \/ entry' = KeepFailed(chain[1])
      BY <1>7, FailureFacts
    <3>2. chain[1] \in FlushRecords /\ chain[1].patch \in Patches
      BY <2>1, ChainParts, PatchesTyped DEF TypeOK
    <3>3. /\ KeepFailed(chain[1]).patch = MergeState(chain[1].patch, entry.patch)
          /\ KeepFailed(chain[1]).waiters = entry.waiters
      BY <3>2, FailedKept DEF TypeOK
    <3>4. Serves(MergeState(chain[1].patch, entry.patch), FALSE, entry.waiters, calls')
      BY <3>2, <1>0, PatchesTyped, ServesMerged
    <3> QED
      BY <3>1, <3>3, <3>4, <1>0
  <2> QED
    BY <2>1, <2>2, <1>2 DEF WaitersServed
<1>8. ASSUME NEW c \in 1..MaxCalls, WaiterTimesOut(c) PROVE WaitersServed'
  <2>1. /\ entry'.patch = entry.patch /\ entry'.waiters = entry.waiters \ {c}
        /\ chain' = chain
    BY <1>8 DEF WaiterTimesOut, TypeOK, EntryRecords
  <2>2. Serves(entry.patch, FALSE, entry.waiters \ {c}, calls')
    BY <1>0, ServesFewer
  <2> QED
    BY <2>1, <2>2, <1>0 DEF WaitersServed
<1>9. CASE RootVanishes \/ UNCHANGED vars
  <2>1. UNCHANGED <<entry, chain>>
    BY <1>9, VanishFacts DEF vars
  <2> QED
    BY <2>1, <1>0
<1> QED
  BY StepCases, <1>3, <1>4, <1>5, <1>6, <1>7, <1>8, <1>9 DEF WaitersServed

\* What was written, went with its build root, or whose failure was hidden stays recorded.
LEMMA HistoryGrows ==
  ASSUME TypeOK, [Next]_vars
  PROVE  /\ written \subseteq written' /\ swallowed \subseteq swallowed'
         /\ erased \subseteq erased'
         /\ Len(calls) \in Nat /\ Len(calls') \in Nat
         /\ DOMAIN calls = 1..Len(calls) /\ Len(calls) <= Len(calls')
         /\ \A c \in DOMAIN calls' \ DOMAIN calls : calls'[c].told = "nothing"
<1>1. Len(calls) \in Nat /\ DOMAIN calls = 1..Len(calls)
  BY LenProperties DEF TypeOK
<1>2. ASSUME NEW field \in Fields, NEW required \in BOOLEAN, QueueStatePatch(field, required)
      PROVE  /\ Len(calls') = Len(calls) + 1
             /\ \A c \in DOMAIN calls' \ DOMAIN calls : calls'[c].told = "nothing"
             /\ UNCHANGED <<written, swallowed, erased>>
  <2>1. /\ calls' = Append(calls, [field |-> field, required |-> required, told |-> "nothing"])
        /\ UNCHANGED <<written, swallowed, erased>>
    BY <1>2 DEF QueueStatePatch
  <2>2. [field |-> field, required |-> required, told |-> "nothing"] \in CallRecords
    BY DEF CallRecords, Answers
  <2>3. /\ Len(calls') = Len(calls) + 1 /\ DOMAIN calls' = 1..(Len(calls) + 1)
        /\ calls'[Len(calls) + 1] =
             [field |-> field, required |-> required, told |-> "nothing"]
    BY <2>1, <2>2, LenProperties, AppendProperties DEF TypeOK
  <2>4. DOMAIN calls' \ DOMAIN calls \subseteq {Len(calls) + 1}
    BY <2>3, <1>1
  <2> QED
    BY <2>1, <2>3, <2>4
<1>3. CASE FlushSucceeds
  <2>1. Len(calls') = Len(calls) /\ DOMAIN calls' = DOMAIN calls
    BY <1>3, SuccessFacts, Settled DEF TypeOK, Answers
  <2>2. /\ written \subseteq written' /\ swallowed \subseteq swallowed'
        /\ erased \subseteq erased'
    BY <1>3, SuccessFacts DEF Succeeds, Store
  <2> QED
    BY <2>1, <2>2, <1>1
<1>4. ASSUME NEW kind \in {"lock", "write"}, FlushFails(kind)
      PROVE  /\ Len(calls') = Len(calls) /\ DOMAIN calls' = DOMAIN calls
             /\ written \subseteq written' /\ UNCHANGED <<swallowed, erased>>
  <2>1. Len(calls') = Len(calls) /\ DOMAIN calls' = DOMAIN calls
    BY <1>4, FailureFacts, Settled DEF TypeOK, Answers
  <2>2. written \subseteq written' /\ UNCHANGED <<swallowed, erased>>
    BY <1>4, FailureFacts DEF Store
  <2> QED
    BY <2>1, <2>2
<1>5. ASSUME NEW c \in 1..MaxCalls, WaiterTimesOut(c)
      PROVE  /\ Len(calls') = Len(calls) /\ DOMAIN calls' = DOMAIN calls
             /\ UNCHANGED <<written, swallowed, erased>>
  BY <1>5, Settled DEF WaiterTimesOut, TypeOK, Answers
<1>6. CASE FlushDebounced \/ FlushBuildState \/ UNCHANGED vars
  BY <1>6, <1>1 DEF FlushDebounced, FlushBuildState, vars
<1>7. CASE RootVanishes
  BY <1>7, <1>1, VanishFacts
<1> QED
  BY StepCases, <1>1, <1>2, <1>3, <1>4, <1>5, <1>6, <1>7

\* What is told of a call: its value, or a later one, was on disk, or its build root was
\* gone, or the failure of the write was hidden from a best-effort caller.
Witness(c, d, cs, done, hidden) ==
  cs[d].field = cs[c].field /\ (d \in done \/ (~cs[c].required /\ d \in hidden))

\* Every step that answers "flushed" answers the truth, and no step makes it false.
LEMMA TruthfulStep ==
  ASSUME TypeOK, PatchesFromCalls, WaitersServed, FlushedIsWritten, [Next]_vars
  PROVE  FlushedIsWritten'
<1> SUFFICES ASSUME NEW c \in DOMAIN calls', calls'[c].told = "flushed"
             PROVE  \E d \in c..Len(calls') : Witness(c, d, calls', written' \cup erased', swallowed')
  BY DEF FlushedIsWritten, Witness
<1>0. /\ c \in DOMAIN calls /\ c \in 1..Len(calls) /\ Len(calls) \in Nat /\ Len(calls') \in Nat
      /\ Len(calls) <= Len(calls') /\ DOMAIN calls = 1..Len(calls)
      /\ Extends(calls', calls)
  BY HistoryGrows, CallsExtended
<1>1. ASSUME NEW d \in c..Len(calls), Witness(c, d, calls, written' \cup erased', swallowed')
      PROVE  d \in c..Len(calls') /\ Witness(c, d, calls', written' \cup erased', swallowed')
  <2>1. d \in DOMAIN calls /\ d \in c..Len(calls')
    BY <1>0
  <2>2. /\ calls'[d].field = calls[d].field /\ calls'[c].field = calls[c].field
        /\ calls'[c].required = calls[c].required
    BY <2>1, <1>0 DEF Extends
  <2> QED
    BY <2>1, <2>2, <1>1 DEF Witness
<1>2. CASE calls[c].told = "flushed"
  <2>1. PICK d \in c..Len(calls) : Witness(c, d, calls, written \cup erased, swallowed)
    BY <1>0, <1>2 DEF FlushedIsWritten, Witness
  <2>2. Witness(c, d, calls, written' \cup erased', swallowed')
    BY <2>1, HistoryGrows DEF Witness
  <2> QED
    BY <2>2, <1>1
<1>3. CASE calls[c].told # "flushed"
  <2>1. FlushSucceeds /\ c \in chain[1].waiters /\ calls[c].told = "nothing"
    BY <1>0, <1>3, AnswersFinal
  <2> DEFINE h == chain[1]
             d == h.patch[calls[c].field]
  <2>2. 1 \in 1..Len(chain) /\ h \in FlushRecords /\ h.patch \in Patches
    BY <2>1, SuccessFacts, ChainParts, PatchesTyped DEF TypeOK
  <2>3. /\ calls[c].field \in Fields /\ d >= c /\ (calls[c].required => h.required)
    BY <2>1, <2>2 DEF WaitersServed, Serves
  <2>4. d # 0 /\ d \in DOMAIN calls /\ calls[d].field = calls[c].field
    <3>1. d \in Nat /\ d # 0
      BY <2>2, <2>3, <1>0 DEF Patches
    <3>2. FromCalls(h.patch, calls)
      BY <2>2 DEF PatchesFromCalls
    <3> QED
      BY <3>1, <3>2, <2>3 DEF FromCalls
  <2>5. PICK W : Succeeds(h, W)
    BY <2>1, SuccessFacts
  <2>6. d \in written' \cup erased' \/ (~calls[c].required /\ d \in swallowed')
    <3>1. calls[c].field \in Touched(h.patch)
      BY <2>3, <2>4 DEF Touched
    <3>2. CASE calls[c].field \in W
      BY <3>2, <2>5 DEF Succeeds, Store, Values
    <3>3. CASE calls[c].field \notin W
      <4>1. d \in erased' \/ (~h.required /\ d \in swallowed')
        BY <3>1, <3>3, <2>5 DEF Succeeds
      <4> QED
        BY <4>1, <2>3
    <3> QED
      BY <3>2, <3>3
  <2>7. d \in c..Len(calls) /\ Witness(c, d, calls, written' \cup erased', swallowed')
    BY <2>3, <2>4, <2>6, <1>0 DEF Witness
  <2> QED
    BY <2>7, <1>1
<1> QED
  BY <1>2, <1>3

\* "flushed" is told of what was written or had no build root to be written to: no flush
\* answers a caller whose value it does not carry, and only best-effort callers may be
\* told it of a write that failed.
THEOREM AnswersTruthful == Spec => []FlushedIsWritten
<1>1. Init => PatchesFromCalls /\ WaitersServed /\ FlushedIsWritten
  <2> SUFFICES ASSUME Init PROVE WaitersServed /\ FlushedIsWritten
    BY OrderInit
  <2>1. entry.waiters = {} /\ Len(chain) = 0 /\ DOMAIN calls = {}
    BY DEF Init, NoEntry, EmptyEntry
  <2> QED
    BY <2>1 DEF WaitersServed, Serves, FlushedIsWritten
<1>2. TypeOK /\ PatchesFromCalls /\ WaitersServed /\ FlushedIsWritten /\ [Next]_vars =>
        PatchesFromCalls' /\ WaitersServed' /\ FlushedIsWritten'
  BY FromCallsStep, ServedStep, TruthfulStep
<1> QED
  BY PatchTypeCorrect, <1>1, <1>2, PTL DEF Spec

-----------------------------------------------------------------------------
(* The last patch of every field. *)

\* Entries and flushes of an entry have a number; unless an entry was deleted under
\* them, all flushes are of the pending entry.
Numbered ==
  /\ entry = NoEntry \/ entry.id # 0
  /\ \A i \in 1..Len(chain) : chain[i].entry # 0
ChainOfEntry == orphaned \/ \A i \in 1..Len(chain) : chain[i].entry = entry.id

\* The last call for a field is in memory or on disk, or its failed write was hidden, or
\* it went with its build root.
Kept(f, c) ==
  \/ entry.patch[f] = c \/ stored[f] = c \/ c \in swallowed \cup erased
  \/ \E i \in 1..Len(chain) : chain[i].patch[f] = c
LatestKept ==
  orphaned \/ inverted \/ \A f \in Fields : \A c \in Latest(f) : Kept(f, c)

\* A flush of the entry "e" joins the flushes of the pending entry.
LEMMA NumbersGrow ==
  ASSUME TypeOK, Numbered, ChainOfEntry, NEW e \in EntryRecords, FlushPendingState(e),
         e.id # 0, entry = NoEntry \/ e.id = entry.id, orphaned' = orphaned
  PROVE  Numbered' /\ ChainOfEntry'
<1>1. /\ entry' = EmptyEntry(e.id) /\ entry'.id = e.id
      /\ chain'[Len(chain) + 1] = FlushOf(e) /\ FlushOf(e).entry = e.id
      /\ \A i \in 1..Len(chain') : i # Len(chain) + 1 =>
           i \in 1..Len(chain) /\ chain'[i] = chain[i]
  BY ChainGrows DEF TypeOK, EmptyEntry, FlushOf
<1>2. \A i \in 1..Len(chain') : chain'[i].entry # 0
  BY <1>1 DEF Numbered
<1>3. ASSUME ~orphaned, NEW i \in 1..Len(chain') PROVE chain'[i].entry = entry'.id
  <2>1. CASE i = Len(chain) + 1
    BY <2>1, <1>1
  <2>2. CASE i # Len(chain) + 1
    <3>1. i \in 1..Len(chain) /\ chain'[i] = chain[i]
      BY <2>2, <1>1
    <3>2. chain[i].entry = entry.id /\ chain[i].entry # 0
      BY <3>1, <1>3 DEF Numbered, ChainOfEntry
    <3>3. entry # NoEntry
      BY <3>2 DEF NoEntry, EmptyEntry
    <3> QED
      BY <3>1, <3>2, <3>3, <1>1
  <2> QED
    BY <2>1, <2>2
<1>4. Numbered'
  BY <1>1, <1>2 DEF Numbered
<1>5. ChainOfEntry'
  BY <1>3 DEF ChainOfEntry
<1> QED
  BY <1>4, <1>5

\* No entry leaves statePending with a flush of it in the chain, or it is recorded.
LEMMA ChainOfEntryStep ==
  ASSUME TypeOK, Numbered, ChainOfEntry, [Next]_vars
  PROVE  Numbered' /\ ChainOfEntry' /\ (orphaned => orphaned')
<1>0. orphaned \in BOOLEAN /\ entries \in Nat /\ entry \in EntryRecords
  BY DEF TypeOK
<1>1. ASSUME NEW field \in Fields, NEW required \in BOOLEAN, QueueStatePatch(field, required)
      PROVE  Numbered' /\ ChainOfEntry' /\ orphaned' = orphaned
  <2>1. PICK e : Called(e, field, required) /\ IF required THEN FlushPendingState(e)
                                               ELSE entry' = e /\ chain' = chain
    BY <1>1, CallFacts
  <2>2. orphaned' = orphaned
    BY <1>1, CallFacts
  <2>3. e \in EntryRecords /\ e.id = (IF entry = NoEntry THEN entries + 1 ELSE entry.id)
    BY <2>1 DEF Called
  <2>4. e.id # 0 /\ (entry = NoEntry \/ e.id = entry.id)
    BY <2>3, <1>0 DEF Numbered
  <2>5. CASE required
    BY <2>1, <2>2, <2>3, <2>4, <2>5, NumbersGrow
  <2>6. CASE ~required
    <3>1. entry' = e /\ chain' = chain
      BY <2>1, <2>6
    <3>2. Numbered'
      BY <3>1, <2>4 DEF Numbered
    <3>3. ASSUME ~orphaned, NEW i \in 1..Len(chain) PROVE chain[i].entry = e.id
      <4>1. chain[i].entry = entry.id /\ chain[i].entry # 0
        BY <3>3 DEF Numbered, ChainOfEntry
      <4>2. entry # NoEntry
        BY <4>1 DEF NoEntry, EmptyEntry
      <4> QED
        BY <4>1, <4>2, <2>4
    <3>4. ChainOfEntry'
      BY <3>1, <3>3, <2>2 DEF ChainOfEntry
    <3> QED
      BY <3>2, <3>4, <2>2
  <2> QED
    BY <2>5, <2>6
<1>2. CASE FlushDebounced
  <2>1. FlushPendingState(entry) /\ orphaned' = orphaned /\ entry.timer
    BY <1>2 DEF FlushDebounced
  <2>2. entry # NoEntry
    BY <2>1 DEF NoEntry, EmptyEntry
  <2>3. entry.id # 0
    BY <2>2 DEF Numbered
  <2> QED
    BY <2>1, <2>3, <1>0, NumbersGrow
<1>3. ASSUME NEW rest \in Seq(FlushRecords), DeletePending(rest), chain' = rest,
             \A i \in 1..Len(rest) : rest[i].entry # 0
      PROVE  Numbered' /\ ChainOfEntry' /\ (orphaned => orphaned')
  <2>1. entry' = NoEntry /\ (orphaned' <=> orphaned \/ rest # <<>>)
    BY <1>3 DEF DeletePending
  <2>2. Numbered'
    BY <2>1, <1>3 DEF Numbered
  <2>3. ChainOfEntry'
    <3>1. CASE rest = <<>>
      <4>1. Len(chain') = 0
        BY <3>1, <1>3
      <4> QED
        BY <4>1 DEF ChainOfEntry
    <3>2. CASE rest # <<>>
      BY <3>2, <2>1 DEF ChainOfEntry
    <3> QED
      BY <3>1, <3>2
  <2> QED
    BY <2>1, <2>2, <2>3
<1>4. ASSUME chain # <<>>, chain' = Tail(chain)
      PROVE  /\ Tail(chain) \in Seq(FlushRecords)
             /\ \A i \in 1..Len(chain') : /\ chain'[i].entry # 0
                                          /\ orphaned \/ chain'[i].entry = entry.id
  BY <1>4, ChainParts DEF TypeOK, Numbered, ChainOfEntry
<1>5. CASE FlushBuildState
  <2>1. DeletePending(chain) /\ chain' = chain /\ chain \in Seq(FlushRecords)
    BY <1>5 DEF FlushBuildState, TypeOK
  <2>2. \A i \in 1..Len(chain) : chain[i].entry # 0
    BY DEF Numbered
  <2> QED
    BY <2>1, <2>2, <1>3
<1>6. CASE FlushSucceeds
  <2>1. chain # <<>> /\ chain' = Tail(chain)
    BY <1>6, SuccessFacts
  <2>2. CASE DeletePending(Tail(chain))
    BY <2>1, <2>2, <1>3, <1>4
  <2>3. CASE entry' = entry /\ orphaned' = orphaned
    BY <2>1, <2>3, <1>4 DEF Numbered, ChainOfEntry
  <2> QED
    BY <2>2, <2>3, <1>6, SuccessFacts
<1>7. ASSUME NEW kind \in {"lock", "write"}, FlushFails(kind)
      PROVE  Numbered' /\ ChainOfEntry' /\ orphaned' = orphaned
  <2>1. chain # <<>> /\ chain' = Tail(chain) /\ orphaned' = orphaned
    BY <1>7, FailureFacts
  <2>2. chain[1] \in FlushRecords /\ chain[1].entry # 0
    BY <2>1, ChainParts DEF TypeOK, Numbered
  <2>3. entry'.id = entry.id /\ (entry' = NoEntry \/ entry'.id # 0)
    <3>1. \/ chain[1].entry = entry.id /\ entry' = KeepFailed(chain[1])
          \/ entry' = entry
      BY <1>7, FailureFacts
    <3>2. KeepFailed(chain[1]).id = entry.id
      BY <2>2, <1>0, FailedKept
    <3> QED
      BY <3>1, <3>2, <2>2 DEF Numbered
  <2> QED
    BY <2>1, <2>3, <1>4 DEF Numbered, ChainOfEntry
<1>8. ASSUME NEW c \in 1..MaxCalls, WaiterTimesOut(c)
      PROVE  Numbered' /\ ChainOfEntry' /\ orphaned' = orphaned
  <2>1. /\ entry' = [entry EXCEPT !.waiters = entry.waiters \ {c}]
        /\ chain' = chain /\ orphaned' = orphaned
    BY <1>8, <1>0 DEF WaiterTimesOut, EntryRecords
  <2>2. entry'.id = entry.id
    BY <2>1, <1>0 DEF EntryRecords
  <2>3. ASSUME entry = NoEntry PROVE entry' = NoEntry
    <3>1. entry.waiters \ {c} = entry.waiters
      BY <2>3 DEF NoEntry, EmptyEntry
    <3> QED
      BY <3>1, <2>1, <2>3, <1>0 DEF EntryRecords
  <2> QED
    BY <2>1, <2>2, <2>3 DEF Numbered, ChainOfEntry
<1>9. CASE RootVanishes \/ UNCHANGED vars
  BY <1>9, VanishFacts DEF vars, Numbered, ChainOfEntry
<1> QED
  BY StepCases, <1>1, <1>2, <1>5, <1>6, <1>7, <1>8, <1>9

\* A value for a field that is not before its last call is that call.
LEMMA LatestTop ==
  ASSUME TypeOK, NEW f \in Fields, NEW c \in Latest(f), NEW patch \in Patches,
         FromCalls(patch, calls), patch[f] # 0, patch[f] >= c
  PROVE  patch[f] = c
<1>1. /\ patch[f] \in DOMAIN calls /\ calls[patch[f]].field = f
      /\ c \in DOMAIN calls /\ \A d \in (c + 1)..Len(calls) : calls[d].field # f
  BY DEF FromCalls, Latest
<1>2. DOMAIN calls = 1..Len(calls) /\ Len(calls) \in Nat
  BY LenProperties DEF TypeOK
<1>3. patch[f] \in Nat /\ c \in Nat /\ patch[f] <= Len(calls)
  BY <1>1, <1>2
<1>4. ~(patch[f] \in (c + 1)..Len(calls))
  BY <1>1
<1> QED
  BY <1>3, <1>4

\* The last call for a field is a call made before, or the one being made.
LEMMA LatestStep ==
  ASSUME TypeOK, [Next]_vars, NEW f \in Fields, NEW c \in Latest(f)'
  PROVE  \/ c \in Latest(f)
         \/ \E required \in BOOLEAN : QueueStatePatch(f, required) /\ c = Len(calls) + 1
<1>1. /\ c \in DOMAIN calls' /\ calls'[c].field = f
      /\ \A d \in (c + 1)..Len(calls') : calls'[d].field # f
  BY DEF Latest
<1>2. /\ Len(calls) \in Nat /\ DOMAIN calls = 1..Len(calls)
      /\ Len(calls') \in Nat /\ Len(calls) <= Len(calls')
      /\ \A d \in DOMAIN calls : calls'[d].field = calls[d].field
  BY HistoryGrows, CallsExtended DEF Extends
<1>3. CASE c \in DOMAIN calls
  <2>1. ASSUME NEW d \in (c + 1)..Len(calls) PROVE calls[d].field # f
    <3>1. d \in DOMAIN calls /\ d \in (c + 1)..Len(calls')
      BY <1>2, <1>3
    <3> QED
      BY <3>1, <1>1, <1>2
  <2> QED
    BY <2>1, <1>1, <1>2, <1>3 DEF Latest
<1>4. CASE c \notin DOMAIN calls
  <2>1. DOMAIN calls' = DOMAIN calls \/
          \E field \in Fields, required \in BOOLEAN : QueueStatePatch(field, required)
    <3>1. CASE FlushSucceeds
      BY <3>1, SuccessFacts, Settled DEF TypeOK, Answers
    <3>2. ASSUME NEW kind \in {"lock", "write"}, FlushFails(kind)
          PROVE  DOMAIN calls' = DOMAIN calls
      BY <3>2, FailureFacts, Settled DEF TypeOK, Answers
    <3>3. ASSUME NEW w \in 1..MaxCalls, WaiterTimesOut(w) PROVE DOMAIN calls' = DOMAIN calls
      BY <3>3, Settled DEF WaiterTimesOut, TypeOK, Answers
    <3>4. CASE FlushDebounced \/ FlushBuildState \/ RootVanishes \/ UNCHANGED vars
      BY <3>4, VanishFacts DEF FlushDebounced, FlushBuildState, vars
    <3> QED
      BY StepCases, <3>1, <3>2, <3>3, <3>4
  <2>2. PICK field \in Fields, required \in BOOLEAN : QueueStatePatch(field, required)
    BY <2>1, <1>1, <1>4
  <2>3. calls' = Append(calls, [field |-> field, required |-> required, told |-> "nothing"])
    BY <2>2 DEF QueueStatePatch
  <2>4. /\ DOMAIN calls' = 1..(Len(calls) + 1)
        /\ calls'[Len(calls) + 1].field = field
    <3>1. [field |-> field, required |-> required, told |-> "nothing"] \in CallRecords
      BY DEF CallRecords, Answers
    <3> QED
      BY <2>3, <3>1, LenProperties, AppendProperties DEF TypeOK
  <2>5. c = Len(calls) + 1
    BY <2>4, <1>1, <1>2, <1>4
  <2> QED
    BY <2>2, <2>4, <2>5, <1>1
<1> QED
  BY <1>3, <1>4

\* What is kept stays kept when the pending patch joins the chain.
LEMMA KeptFlushed ==
  ASSUME TypeOK, NEW e \in EntryRecords, FlushPendingState(e), NEW f \in Fields, NEW c,
         UNCHANGED <<stored, swallowed, erased>>,
         \/ e.patch[f] = c \/ stored[f] = c \/ c \in swallowed \cup erased
         \/ \E i \in 1..Len(chain) : chain[i].patch[f] = c
  PROVE  \/ stored'[f] = c \/ c \in swallowed' \cup erased'
         \/ \E i \in 1..Len(chain') : chain'[i].patch[f] = c
<1> DEFINE n == Len(chain) + 1
<1>1. /\ n \in 1..Len(chain') /\ chain'[n] = FlushOf(e)
      /\ chain' = Append(chain, FlushOf(e)) /\ FlushOf(e) \in FlushRecords
      /\ Len(chain) \in Nat /\ Len(chain') = n
  BY ChainGrows DEF TypeOK, FlushPendingState, EnqueueStateUpdate, FlushOf
<1>2. chain'[n].patch = e.patch
  BY <1>1 DEF FlushOf
<1>3. ASSUME NEW i \in 1..Len(chain) PROVE i \in 1..Len(chain') /\ chain'[i] = chain[i]
  BY <1>1, AppendProperties DEF TypeOK
<1> QED
  BY <1>1, <1>2, <1>3

\* Every step keeps the last call of every field, but for the exceptions.
LEMMA LatestKeptStep ==
  ASSUME TypeOK, PatchesFromCalls, Ordered, Numbered, ChainOfEntry, LatestKept, [Next]_vars
  PROVE  LatestKept'
<1>0. /\ orphaned \in BOOLEAN /\ inverted \in BOOLEAN
      /\ (orphaned => orphaned') /\ (inverted => inverted')
  <2>1. orphaned \in BOOLEAN /\ inverted \in BOOLEAN
    BY DEF TypeOK
  <2>2. inverted' = inverted \/ inverted' = (inverted \/ Tail(chain) # <<>>)
    BY StepCases, CallFacts, SuccessFacts, FailureFacts, VanishFacts
       DEF FlushDebounced, FlushBuildState, WaiterTimesOut, vars
  <2> QED
    BY <2>1, <2>2, ChainOfEntryStep
<1> SUFFICES ASSUME ~orphaned', ~inverted', NEW f \in Fields, NEW c \in Latest(f)'
             PROVE  Kept(f, c)'
  BY DEF LatestKept
<1>1. ~orphaned /\ ~inverted /\ ChainOrdered
  BY <1>0 DEF Ordered
<1>2. \A i \in 1..Len(chain) : chain[i].entry = entry.id
  BY <1>1 DEF ChainOfEntry
<1>3. ASSUME NEW required \in BOOLEAN, QueueStatePatch(f, required), c = Len(calls) + 1
      PROVE  Kept(f, c)'
  <2>1. PICK e : Called(e, f, required) /\ IF required THEN FlushPendingState(e)
                                           ELSE entry' = e /\ chain' = chain
    BY <1>3, CallFacts
  <2>2. e \in EntryRecords /\ e.patch[f] = c
    <3>1. e \in EntryRecords /\ e.patch = [entry.patch EXCEPT ![f] = c]
      BY <2>1, <1>3 DEF Called
    <3> QED
      BY <3>1, PatchesTyped DEF Patches
  <2>3. UNCHANGED <<stored, swallowed, erased>>
    BY <1>3, CallFacts
  <2>4. CASE required
    BY <2>1, <2>2, <2>3, <2>4, KeptFlushed DEF Kept
  <2>5. CASE ~required
    BY <2>1, <2>2, <2>5 DEF Kept
  <2> QED
    BY <2>4, <2>5
<1> SUFFICES ASSUME c \in Latest(f) PROVE Kept(f, c)'
  BY <1>3, LatestStep
<1>4. Kept(f, c)
  BY <1>1 DEF LatestKept
<1>5. c \in Nat /\ c # 0 /\ c \in DOMAIN calls
  BY LenProperties DEF Latest, TypeOK
<1>6. ASSUME NEW field \in Fields, NEW required \in BOOLEAN, QueueStatePatch(field, required),
             c # Len(calls) + 1
      PROVE  Kept(f, c)'
  <2>1. PICK e : Called(e, field, required) /\ IF required THEN FlushPendingState(e)
                                               ELSE entry' = e /\ chain' = chain
    BY <1>6, CallFacts
  <2>2. UNCHANGED <<stored, swallowed, erased>>
    BY <1>6, CallFacts
  <2>3. e \in EntryRecords /\ (f = field \/ e.patch[f] = entry.patch[f])
    <3>1. e \in EntryRecords /\ e.patch = [entry.patch EXCEPT ![field] = Len(calls) + 1]
      BY <2>1 DEF Called
    <3> QED
      BY <3>1, PatchesTyped DEF Patches
  <2>4. f # field
    <3>1. /\ Len(calls) \in Nat /\ DOMAIN calls = 1..Len(calls)
          /\ DOMAIN calls' = 1..(Len(calls) + 1)
          /\ calls'[Len(calls) + 1] =
               [field |-> field, required |-> required, told |-> "nothing"]
      BY <2>1, CallFromCalls DEF PatchesFromCalls
    <3>2. Len(calls') = Len(calls) + 1
      BY <2>1, AppendProperties, CallRecordTyped DEF Called, TypeOK
    <3>3. Len(calls) + 1 \in (c + 1)..Len(calls')
      BY <3>1, <3>2, <1>5
    <3>4. \A d \in (c + 1)..Len(calls') : calls'[d].field # f
      BY DEF Latest
    <3> QED
      BY <3>1, <3>3, <3>4
  <2>5. e.patch[f] = entry.patch[f]
    BY <2>3, <2>4
  <2>6. CASE required
    BY <2>1, <2>2, <2>3, <2>5, <2>6, <1>4, KeptFlushed DEF Kept
  <2>7. CASE ~required
    BY <2>1, <2>2, <2>5, <2>7, <1>4 DEF Kept
  <2> QED
    BY <2>6, <2>7
<1>7. CASE FlushDebounced
  <2>1. FlushPendingState(entry) /\ entry \in EntryRecords /\ UNCHANGED <<stored, swallowed, erased>>
    BY <1>7 DEF FlushDebounced, TypeOK
  <2> QED
    BY <2>1, <1>4, KeptFlushed DEF Kept
<1>8. ASSUME Idle PROVE entry.patch[f] # c
  BY <1>8, <1>5 DEF Idle, Empty
<1>9. CASE FlushBuildState
  <2>1. Idle /\ UNCHANGED <<stored, swallowed, erased, chain>>
    BY <1>9 DEF FlushBuildState
  <2> QED
    BY <2>1, <1>4, <1>8 DEF Kept
<1>10. ASSUME chain # <<>>, chain' = Tail(chain),
              swallowed \cup erased \subseteq swallowed' \cup erased', stored' \in Patches,
              stored'[f] = stored[f] \/ (stored'[f] = chain[1].patch[f] /\ chain[1].patch[f] # 0),
              entry.patch[f] = c => entry'.patch[f] = c,
              chain[1].patch[f] = c => \/ stored'[f] = c \/ c \in swallowed' \cup erased'
                                       \/ entry'.patch[f] = c
       PROVE  Kept(f, c)'
  <2>1. /\ 1 \in 1..Len(chain) /\ Len(chain) \in Nat /\ Len(chain') = Len(chain) - 1
        /\ \A i \in 1..Len(chain') : chain'[i] = chain[i + 1]
    BY <1>10, ChainParts, LenProperties DEF TypeOK
  <2>2. CASE stored[f] = c
    <3>1. CASE stored'[f] = stored[f]
      BY <3>1, <2>2 DEF Kept
    <3>2. CASE stored'[f] = chain[1].patch[f] /\ chain[1].patch[f] # 0
      <4>1. chain[1].patch[f] >= c
        BY <3>2, <2>1, <2>2, <1>1 DEF ChainOrdered, Follows
      <4>2. chain[1].patch \in Patches /\ FromCalls(chain[1].patch, calls)
        BY <2>1, PatchesTyped DEF PatchesFromCalls
      <4>3. chain[1].patch[f] = c
        BY <3>2, <4>1, <4>2, LatestTop
      <4> QED
        BY <3>2, <4>3 DEF Kept
    <3> QED
      BY <3>1, <3>2, <1>10
  <2>3. ASSUME NEW i \in 1..Len(chain), chain[i].patch[f] = c PROVE Kept(f, c)'
    <3>1. CASE i = 1
      BY <3>1, <2>3, <1>10 DEF Kept
    <3>2. CASE i # 1
      <4>1. i - 1 \in 1..Len(chain') /\ (i - 1) + 1 = i
        BY <3>2, <2>1
      <4>2. chain'[i - 1].patch[f] = c
        BY <4>1, <2>1, <2>3
      <4> QED
        BY <4>1, <4>2 DEF Kept
    <3> QED
      BY <3>1, <3>2
  <2>4. CASE entry.patch[f] = c
    BY <2>4, <1>10 DEF Kept
  <2>5. CASE c \in swallowed \cup erased
    BY <2>5, <1>10 DEF Kept
  <2> QED
    BY <2>2, <2>3, <2>4, <2>5, <1>4 DEF Kept
<1>11. CASE FlushSucceeds
  <2>1. /\ chain # <<>> /\ chain' = Tail(chain) /\ stored' \in Patches
        /\ stored'[f] = stored[f] \/ (stored'[f] = chain[1].patch[f] /\ chain[1].patch[f] # 0)
    BY <1>11, StoredFrom
  <2>2. 1 \in 1..Len(chain) /\ chain[1].patch \in Patches
    BY <2>1, ChainParts, PatchesTyped DEF TypeOK
  <2>3. PICK W : Succeeds(chain[1], W)
    BY <1>11, SuccessFacts
  <2>4. swallowed \cup erased \subseteq swallowed' \cup erased'
    BY <2>3 DEF Succeeds
  <2>5. entry.patch[f] = c => entry'.patch[f] = c
    <3>1. CASE DeletePending(Tail(chain)) /\ (chain[1].entry = entry.id => Idle)
      BY <3>1, <2>2, <1>2, <1>8
    <3>2. CASE entry' = entry
      BY <3>2
    <3> QED
      BY <3>1, <3>2, <1>11, SuccessFacts
  <2>6. ASSUME chain[1].patch[f] = c PROVE stored'[f] = c \/ c \in swallowed' \cup erased'
    <3>1. f \in Touched(chain[1].patch)
      BY <2>6, <1>5 DEF Touched
    <3>2. CASE f \in W
      <4>1. stored'[f] = chain[1].patch[f]
        BY <3>2, <2>3 DEF Succeeds, Store
      <4> QED
        BY <4>1, <2>6
    <3>3. CASE f \notin W
      BY <3>1, <3>3, <2>3, <2>6 DEF Succeeds
    <3> QED
      BY <3>2, <3>3
  <2> QED
    BY <2>1, <2>4, <2>5, <2>6, <1>10
<1>12. ASSUME NEW kind \in {"lock", "write"}, FlushFails(kind) PROVE Kept(f, c)'
  <2>1. /\ chain # <<>> /\ chain' = Tail(chain) /\ stored' \in Patches
        /\ stored'[f] = stored[f] \/ (stored'[f] = chain[1].patch[f] /\ chain[1].patch[f] # 0)
        /\ UNCHANGED <<swallowed, erased>>
    BY <1>12, StoredFrom, FailureFacts
  <2>2. /\ 1 \in 1..Len(chain) /\ chain[1].patch \in Patches /\ chain[1] \in FlushRecords
        /\ entry.patch \in Patches
    BY <2>1, ChainParts, PatchesTyped DEF TypeOK
  <2>3. entry' = KeepFailed(chain[1])
    BY <2>2, <1>2, <1>12, FailureFacts
  <2>4. entry'.patch = MergeState(chain[1].patch, entry.patch)
    BY <2>2, <2>3, FailedKept DEF TypeOK
  <2>5. entry'.patch[f] = IF entry.patch[f] # 0 THEN entry.patch[f] ELSE chain[1].patch[f]
    BY <2>4 DEF MergeState
  <2>6. ASSUME chain[1].patch[f] = c PROVE entry'.patch[f] = c
    <3>1. CASE entry.patch[f] = 0
      BY <3>1, <2>5, <2>6
    <3>2. CASE entry.patch[f] # 0
      <4>1. entry.patch[f] >= c /\ FromCalls(entry.patch, calls)
        BY <3>2, <2>2, <2>6, <1>1 DEF ChainOrdered, Follows, PatchesFromCalls
      <4>2. entry.patch[f] = c
        BY <3>2, <4>1, <2>2, LatestTop
      <4> QED
        BY <3>2, <4>2, <2>5
    <3> QED
      BY <3>1, <3>2
  <2>7. entry.patch[f] = c => entry'.patch[f] = c
    BY <2>5, <1>5
  <2> QED
    BY <2>1, <2>6, <2>7, <1>10
<1>13. ASSUME NEW w \in 1..MaxCalls, WaiterTimesOut(w) PROVE Kept(f, c)'
  <2>1. entry'.patch = entry.patch /\ UNCHANGED <<stored, swallowed, erased, chain>>
    BY <1>13 DEF WaiterTimesOut, TypeOK, EntryRecords
  <2> QED
    BY <2>1, <1>4 DEF Kept
<1>14. CASE UNCHANGED vars
  <2>1. UNCHANGED <<entry, stored, swallowed, erased, chain>>
    BY <1>14 DEF vars
  <2> QED
    BY <2>1, <1>4 DEF Kept
<1>16. CASE RootVanishes
  <2>1. /\ UNCHANGED <<entry, chain, swallowed>>
        /\ stored[f] \in erased' /\ erased \subseteq erased'
    BY <1>16, VanishFacts
  <2> QED
    BY <2>1, <1>4 DEF Kept
<1>15. c # Len(calls) + 1
  BY <1>5, LenProperties DEF TypeOK
<1> QED
  BY StepCases, <1>6, <1>7, <1>9, <1>11, <1>12, <1>13, <1>14, <1>15,
     <1>16

\* When nothing is pending the disk has the last value of every field, but for the ways in
\* which the code can lose it: a hidden failure, a build root that is gone, an entry
\* deleted while a flush was in the chain, a flush that failed while another was in the
\* chain.
THEOREM LastPatchIsStored == Spec => []LastPatchStored
<1> DEFINE IInv == PatchesFromCalls /\ Ordered /\ Numbered /\ ChainOfEntry /\ LatestKept
<1>1. Init => IInv
  <2> SUFFICES ASSUME Init PROVE Numbered /\ ChainOfEntry /\ LatestKept
    BY OrderInit
  <2>1. entry = NoEntry /\ Len(chain) = 0 /\ DOMAIN calls = {}
    BY DEF Init
  <2> QED
    BY <2>1 DEF Numbered, ChainOfEntry, LatestKept, Latest
<1>2. TypeOK /\ IInv /\ [Next]_vars => IInv'
  BY FromCallsStep, OrderStep, ChainOfEntryStep, LatestKeptStep
<1>3. TypeOK /\ IInv => LastPatchStored
  <2> SUFFICES ASSUME TypeOK, IInv, AtRest, NEW f \in Fields, ~orphaned, ~inverted,
                      NEW c \in Latest(f)
               PROVE  c \in {stored[f]} \cup swallowed \cup erased
    BY DEF LastPatchStored
  <2>1. Kept(f, c)
    BY DEF LatestKept
  <2>2. Len(chain) = 0 /\ entry.patch[f] = 0
    BY DEF AtRest, Empty
  <2>3. c # 0
    BY LenProperties DEF Latest, TypeOK
  <2> QED
    BY <2>1, <2>2, <2>3 DEF Kept
<1> QED
  BY PatchTypeCorrect, <1>1, <1>2, <1>3, PTL DEF Spec
=============================================================================
