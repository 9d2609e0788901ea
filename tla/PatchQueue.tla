----------------------------- MODULE PatchQueue -----------------------------
(***************************************************************************)
(* The build state patch queue (index/build/build-state/patch-queue.js)    *)
(* over applyStatePatch (store.js), for one build root.  Calls queue       *)
(* patches into a pending entry; a flush takes what the entry holds to the *)
(* end of a serial chain; when the write of a flush ends, its callers are  *)
(* answered and the entry is deleted or gets the failed patch back.        *)
(*                                                                         *)
(* A JavaScript turn is one action.  Abstracted: a call sets one field of  *)
(* the state to its own number, so a later call has the greater number;    *)
(* debounce and waiter timers may fire at any time while they are armed.   *)
(***************************************************************************)
EXTENDS Integers, Sequences

CONSTANTS
  Fields,     \* the parts of the build state that patches set
  MaxCalls,   \* bound on the calls of queueStatePatch
  MaxFaults,  \* bound on the faults injected
  Faults      \* subset of {"lock", "write", "swallow", "vanish"}

ASSUME PatchAssumption ==
  /\ {MaxCalls, MaxFaults} \subseteq Nat
  /\ Faults \subseteq {"lock", "write", "swallow", "vanish"}

VARIABLES
  calls,      \* the calls of queueStatePatch and what their callers were told
  entry,      \* the pending entry statePending has for the build root
  entries,    \* how many entries there were
  timeouts,   \* calls whose waiter timeout is armed
  chain,      \* the flushes of the serial queue, the one being written first
  stored,     \* the build state on disk: per field, the call it is from
  written,    \* history: the calls that were ever stored
  swallowed,  \* history: the calls whose failed write was reported as a success
  gone,       \* is the build root no longer there?
  erased,     \* history: the calls whose values went with the root, or found none
  stuck,      \* entries no longer in statePending that got a failed patch back
  orphaned,   \* history: was an entry deleted while a flush was in the chain?
  inverted,   \* history: has a flush failed while another was in the chain?
  faults

disk == <<stored, written, swallowed, gone, erased>>
vars == <<calls, entry, entries, timeouts, chain, disk, stuck, orphaned, inverted, faults>>

Empty == [f \in Fields |-> 0]
Touched(patch) == {f \in Fields : patch[f] # 0}

EmptyEntry(id) ==
  [id |-> id, patch |-> Empty, required |-> FALSE, timer |-> FALSE, waiters |-> {}]
NoEntry == EmptyEntry(0)
Idle    == entry.patch = Empty /\ ~entry.timer /\ entry.waiters = {}

MayFail(kind) == kind \in Faults /\ faults < MaxFaults
Fault         == faults' = faults + 1

Init ==
  /\ calls = <<>> /\ chain = <<>>
  /\ entry = NoEntry /\ entries = 0
  /\ stored = Empty
  /\ timeouts = {} /\ written = {} /\ swallowed = {} /\ erased = {} /\ stuck = {}
  /\ gone = FALSE /\ orphaned = FALSE /\ inverted = FALSE
  /\ faults = 0

-----------------------------------------------------------------------------
(* Queueing and flushing. *)

\* mergeState: what the second patch sets overrides the first.
MergeState(base, patch) == [f \in Fields |-> IF patch[f] # 0 THEN patch[f] ELSE base[f]]

RequiredFirst(flush)      == IF flush.required THEN <<flush>> \o chain ELSE Append(chain, flush)
EnqueueStateUpdate(flush) == Append(chain, flush)

\* flushPendingState, up to its await: the entry is emptied but stays.
FlushPendingState(e) ==
  /\ chain' = EnqueueStateUpdate([entry |-> e.id, patch |-> e.patch,
                                  required |-> e.required, waiters |-> e.waiters])
  /\ entry' = EmptyEntry(e.id)

GetPendingEntry == IF entry = NoEntry THEN EmptyEntry(entries + 1) ELSE entry

KeepClass(pending, required)   == pending
UpgradeClass(pending, required) == pending \/ required

QueueStatePatch(field, required) ==
  LET c == Len(calls) + 1
      pending == GetPendingEntry
      e == [pending EXCEPT !.patch[field] = c, !.waiters = @ \cup {c}, !.timer = ~required,
                           !.required = UpgradeClass(@, required)]
  IN  /\ Len(calls) < MaxCalls
      /\ calls' = Append(calls, [field |-> field, required |-> required, told |-> "nothing"])
      /\ entries' = IF entry = NoEntry THEN entries + 1 ELSE entries
      /\ timeouts' = IF required THEN timeouts ELSE timeouts \cup {c}
      /\ IF required THEN FlushPendingState(e) ELSE entry' = e /\ UNCHANGED chain
      /\ UNCHANGED <<disk, stuck, orphaned, inverted, faults>>

\* The debounce or retry timer fires, or flushBuildState is called.
FlushDebounced ==
  /\ entry.timer
  /\ FlushPendingState(entry)
  /\ UNCHANGED <<calls, entries, timeouts, disk, stuck, orphaned, inverted, faults>>

\* The entry leaves statePending; its lifecycle is closed, which clears every timer
\* registered with it.  "rest" are the flushes in the chain.
DeletePending(rest) ==
  /\ entry' = NoEntry
  /\ timeouts' = {}
  /\ orphaned' = (orphaned \/ rest # <<>>)

\* flushBuildState with nothing to flush deletes the entry, whatever is in the chain.
FlushBuildState ==
  /\ entry # NoEntry /\ Idle
  /\ DeletePending(chain)
  /\ UNCHANGED <<calls, entries, chain, disk, stuck, inverted, faults>>

-----------------------------------------------------------------------------
(* applyStatePatch, and what flushPendingState does after it. *)

SettleWaiters(waiters, toRequired, toOthers) ==
  [c \in DOMAIN calls |->
    IF c \in waiters /\ calls[c].told = "nothing"
      THEN [calls[c] EXCEPT !.told = IF calls[c].required THEN toRequired ELSE toOthers]
      ELSE calls[c]]

Values(patch, W) == {patch[f] : f \in W}

\* The fields of W are written to disk, and no others.
Store(patch, W) ==
  /\ stored' = [f \in Fields |-> IF f \in W THEN patch[f] ELSE stored[f]]
  /\ written' = written \cup Values(patch, W)

\* applyStatePatch writes all of the patch; or a best-effort write fails and is only
\* logged; or the build root is gone and nothing is done.
WritesAll(flush) ==
  /\ ~gone /\ Store(flush.patch, Touched(flush.patch))
  /\ UNCHANGED <<swallowed, gone, erased, faults>>

SwallowsFailure(flush) ==
  /\ ~gone /\ ~flush.required /\ MayFail("swallow") /\ Fault
  /\ \E W \in SUBSET Touched(flush.patch) :
       /\ W # Touched(flush.patch) /\ Store(flush.patch, W)
       /\ swallowed' = swallowed \cup Values(flush.patch, Touched(flush.patch) \ W)
  /\ UNCHANGED <<gone, erased>>

FindsNoRoot(flush) ==
  /\ gone
  /\ erased' = erased \cup Values(flush.patch, Touched(flush.patch))
  /\ UNCHANGED <<stored, written, swallowed, gone, faults>>

\* The flush is reported as written, whatever applyStatePatch returned.
FlushSucceeds ==
  /\ chain # <<>>
  /\ LET flush == Head(chain)
     IN  /\ WritesAll(flush) \/ SwallowsFailure(flush) \/ FindsNoRoot(flush)
         /\ calls' = SettleWaiters(flush.waiters, "flushed", "flushed")
         /\ IF IF flush.entry = entry.id THEN Idle ELSE flush.entry \notin stuck
              THEN DeletePending(Tail(chain))
              ELSE timeouts' = timeouts \ flush.waiters /\ UNCHANGED <<entry, orphaned>>
  /\ chain' = Tail(chain)
  /\ UNCHANGED <<entries, stuck, inverted>>

\* The callers of a flush that failed: for want of the lock, or otherwise.
UnlessLocked(flush, kind) ==
  SettleWaiters(flush.waiters, IF kind = "lock" THEN "nothing" ELSE "rejected",
                IF kind = "lock" THEN "timed_out" ELSE "rejected")
AnswerFailure(flush, kind) ==
  SettleWaiters(flush.waiters, "rejected", IF kind = "lock" THEN "timed_out" ELSE "rejected")

\* The failed patch goes back under what was queued since, and is retried.
NewestDropped(flush) == [entry EXCEPT !.patch = flush.patch, !.timer = TRUE]
KeepUnarmed(flush) == [entry EXCEPT !.patch = MergeState(flush.patch, @)]
KeepFailed(flush) ==
  [entry EXCEPT !.patch = MergeState(flush.patch, @), !.required = flush.required,
                !.timer = TRUE]

\* The lock is busy, or a write fails and is reported: of a best-effort patch only that of
\* the checkpoints; the other writes of the patch may be done, and of a required patch all
\* of them.  A patch whose entry is no longer in statePending is kept where nothing will
\* ever flush it.
FlushFails(kind) ==
  /\ chain # <<>> /\ ~gone /\ MayFail(kind) /\ Fault
  /\ LET flush == Head(chain)
         attached == flush.entry = entry.id
     IN  /\ \E W \in SUBSET Touched(flush.patch) :
              /\ W = {} \/ (kind = "write" /\ (flush.required \/ W # Touched(flush.patch)))
              /\ Store(flush.patch, W)
         /\ calls' = AnswerFailure(flush, kind)
         /\ timeouts' = timeouts \ flush.waiters
         /\ entry' = IF attached THEN KeepFailed(flush) ELSE entry
         /\ stuck' = IF attached THEN stuck ELSE stuck \cup {flush.entry}
         /\ inverted' = (inverted \/ (attached /\ Tail(chain) # <<>>))
  /\ chain' = Tail(chain)
  /\ UNCHANGED <<entries, swallowed, gone, erased, orphaned>>

\* The build root is removed, and what is stored in it; a flush that is under way may
\* create it again.
RootVanishes ==
  /\ ~gone /\ MayFail("vanish") /\ Fault
  /\ gone' \in {TRUE, chain = <<>>}
  /\ stored' = Empty
  /\ erased' = erased \cup {stored[f] : f \in Fields}
  /\ UNCHANGED <<calls, entry, entries, timeouts, chain, written, swallowed, stuck, orphaned,
                 inverted>>

\* The timeout of a best-effort waiter.
WaiterTimesOut(c) ==
  /\ c \in timeouts
  /\ calls' = SettleWaiters({c}, "timed_out", "timed_out")
  /\ timeouts' = timeouts \ {c}
  /\ entry' = [entry EXCEPT !.waiters = @ \ {c}]
  /\ UNCHANGED <<entries, chain, disk, stuck, orphaned, inverted, faults>>

AtRest == chain = <<>> /\ entry.patch = Empty

\* Nothing is pending; the queue waits for a call.
Wait == AtRest /\ UNCHANGED vars

FlushEnds == FlushSucceeds \/ \E kind \in {"lock", "write"} : FlushFails(kind)

Next ==
  \/ \E f \in Fields, required \in BOOLEAN : QueueStatePatch(f, required)
  \/ FlushDebounced \/ FlushBuildState \/ FlushEnds
  \/ \E c \in 1..MaxCalls : WaiterTimesOut(c)
  \/ RootVanishes \/ Wait

Spec     == Init /\ [][Next]_vars
FairSpec ==
  /\ Spec
  /\ WF_vars(FlushDebounced) /\ WF_vars(FlushEnds)
  /\ \A c \in 1..MaxCalls : WF_vars(WaiterTimesOut(c))

-----------------------------------------------------------------------------
(* Properties. *)

Patches == [Fields -> Nat]
Answers == {"nothing", "flushed", "timed_out", "rejected"}

CallRecords  == [field : Fields, required : BOOLEAN, told : Answers]
EntryRecords == [id : Nat, patch : Patches, required : BOOLEAN, timer : BOOLEAN,
                 waiters : SUBSET Nat]
FlushRecords == [entry : Nat, patch : Patches, required : BOOLEAN, waiters : SUBSET Nat]

\* Types; and an entry that holds a patch has a timer that will flush it.
TypeOK ==
  /\ calls \in Seq(CallRecords) /\ entry \in EntryRecords /\ chain \in Seq(FlushRecords)
  /\ entry.timer <=> entry.patch # Empty
  /\ stored \in Patches
  /\ entries \in Nat /\ faults \in Nat
  /\ timeouts \subseteq Nat /\ written \subseteq Nat /\ swallowed \subseteq Nat
  /\ erased \subseteq Nat /\ stuck \subseteq Nat
  /\ gone \in BOOLEAN /\ orphaned \in BOOLEAN /\ inverted \in BOOLEAN

\* What a caller told "flushed" may rely on: its value, or a later one for the same field,
\* was on disk; or the build root was gone; or, for a best-effort call only, the write of
\* it was swallowed.
FlushedIsWritten ==
  \A c \in DOMAIN calls : calls[c].told = "flushed" =>
    \E d \in c..Len(calls) :
      /\ calls[d].field = calls[c].field
      /\ d \in written \cup erased \/ (~calls[c].required /\ d \in swallowed)

Latest(f) == {c \in DOMAIN calls : calls[c].field = f /\
                \A d \in (c + 1)..Len(calls) : calls[d].field # f}

\* When nothing is pending the disk has the last value of every field: failed
\* patches are retried until they are stored.  It may fail to only after a swallowed
\* write, when the value went with its build root or found none, after an entry was
\* deleted while a flush was in the chain, or after a flush failed while another was in
\* the chain.
LastPatchStored ==
  AtRest => \A f \in Fields :
              \/ Latest(f) \subseteq {stored[f]} \cup swallowed \cup erased
              \/ orphaned \/ inverted

\* A field never goes back to an older value, unless its build root went, or a flush failed
\* while another was in the chain: then the retried, older patch is written after the
\* newer one.
StoredAdvances ==
  [][\A f \in Fields : stored'[f] >= stored[f] \/ stored[f] \in erased' \/ inverted']_vars

Waiting(c) == c \in DOMAIN calls /\ calls[c].told = "nothing"

\* Every caller is answered, a best-effort one unless an entry was deleted while a
\* flush was in the chain.
CallersAnswered ==
  \A c \in 1..MaxCalls : Waiting(c) ~> ~Waiting(c) \/ (orphaned /\ ~calls[c].required)

\* "callers may await this promise and require deterministic resolution even during
\* low-activity periods" (patch-queue.js:135-136).
EveryCallerAnswered == \A c \in 1..MaxCalls : Waiting(c) ~> ~Waiting(c)
=============================================================================
