# PairOfCleats, formally

A TLA+ model of the concurrent core of PairOfCleats: the code-indexing pipeline,
the background job queue that feeds it, watch mode and the promotion of builds, the
queue that writes a build's state, and the lock files that keep processes apart.
Modules are checked with TLC on small instances; every safety property and the
refinement are also proved with TLAPS for every value of the constants.

Paths below such as `src/index/...` and `tools/...` are the repository's own.

## 1. The system

PairOfCleats indexes a repository and answers searches on the index. A *build*
discovers files, gives each an increasing sequence number ("seq"), processes
them concurrently, and writes the results in discovery order (Stage1); later
stages enrich the index with relations, embeddings and SQLite tables. Builds are
started by hand, by watch mode, or by the *indexer service*, whose workers take
jobs from a queue file. Every part that several processes may use is protected
by lock files.

### Inventory

| component | state | operations | what is hard | what makes it correct |
|---|---|---|---|---|
| **Stage1 seq ledger** `index/build/indexer/steps/process-files/ordering.js` | one state per seq, commit cursor, O(1) counters, attempts, leases | dispatch, transition, commit, reset for retry, reclaim leases, terminalize | counters adjusted by some transitions only; resets and reclaims interleave | counters and cursor agree with the states; only legal transitions |
| **Stage1 ordered appender** `.../ordered.js` | envelopes, buffered bytes, flush promise, capacity waiters, commit journal | report an outcome, wait for capacity, drain, retry a shard, reclaim leases, abort | an `await` in the middle of drain; reports, retries, reclaims and aborts meanwhile; lost wakeups | commits in discovery order, once each; first outcome wins; nobody waits for ever |
| **Stage1 processing driver** `.../process-files.js` | one entry per file, stall timers, shard attempts | wait, start, report, reclaim, retry a shard, abort | slow files answer after their lease; shards fail half-way | each file is run at most once per attempt of its shard; a build ends |
| **Indexer service queue** `tools/service/queue.js`, `indexer-service/queue-worker.js`, `job-completion.js`, `job-executor.js` | the queue file (status, attempts, nextEligibleAt, heartbeat), the workers' own copies | enqueue, claim, heartbeat, complete, requeue stale jobs | read/claim/complete are separate locked steps; crashes, stalled workers, late completions | one runner per job; attempts bounded; settled stays settled; every job ends |
| **File locks** `shared/locks/file-lock.js`, used by `index/build/lock.js` | the lock file, its payload and mtime | create, sign, inspect, reclaim stale, release | every file operation is a step; dead, slow and unsigned owners; failing removals | exclusion; no leaked lock; dead locks are reclaimed |
| **Watch mode** `index/build/watch.js`, `watch/attempts.js`, `watch/lock.js` | tracked entries, pending paths and updates, the debounce timer, the running build, attempts | event, update, build, close, replay, shut down | events between any two awaits of an update or a build; failures in every phase; waiting for the lock | the index follows the files; the current root stays on disk; a shutdown ends |
| **Build promotion** `index/build/promotion.js`, `stages.js` | `current.json` | read, merge, replace | two processes promote different modes | no lost root |
| **Build state patch queue** `index/build/build-state/patch-queue.js`, `store.js` | the pending entry with its patch, timer and waiters; the serial chain of flushes | queue a patch, flush, settle, retry, time out | a flush ends while its entry has gone on or is gone | callers are told the truth and answered; the last patch is stored; no field goes back |
| Postings queue `.../postings-queue.js` | reserved rows and bytes, waiters | reserve, release, abort | notification of the right waiter | bounded, no lost wakeup |
| Build scheduler `shared/concurrency/scheduler-core.js` | token pools, queues, adaptive limits | schedule, run, clear, shut down | tokens returned on every path | tokens conserved, no starvation |
| Queue runner, ordered completion `shared/concurrency/run-with-queue.js`, `ordered-completion.js` | in-flight set, pending results | enqueue, retry, abort, drain | retry against abort; results out of order | every task ends once; results in order |
| Atomic persistence `shared/io/atomic-write.js`, `atomic-persistence.js` | files | temporary file, fsync, rename | crash between steps | old or new content, never a mixture |
| Content-addressed cache `shared/cache-cas.js` | objects and their metadata | put, touch, collect | unlocked metadata updates | a leased object is not collected |
| LSP session pool `integrations/tooling/providers/lsp/session-pool.js` | sessions, leases, quarantine | acquire, release, reap | reaping against acquiring | one user per session |
| Tooling preflight manager `index/tooling/preflight-manager.js` | preflight classes, bounded queue | request, run, tear down | tear-down while queued | every request is answered |
| Snapshots `index/snapshots/` | registry, frozen directories | create, freeze, remove | partial copies | the registry names only complete snapshots |
| Worker pool, tree-sitter scheduler `index/build/worker-pool.js` | threads | run, restart, destroy | crash of a thread | a task's promise settles |
| SQLite and vector storage, retrieval, language front ends, graph, servers, editors, TUI | databases and in-memory data | pure queries and transformations | little shared mutable state | ordinary tests suit them better |

`PROJECT.json` lists all of them under `components`, and under `hazards` every
place where this code is hard to test, with the property that watches it.

### How the parts meet

* `process-files.js` drives the appender: it waits for capacity before each file
  (`waitForCapacity`), marks it in flight (`noteInFlight`), and reports its end
  (`enqueue`, `skip`). Its stall timers call `reclaimExpiredLeases`; a broken
  shard is reset (`resetForRetry`) and run again, or the build calls `abort`.
* The appender, through the ledger, decides what may be written, and writes
  results with `handleFileResult`, which reserves room in the postings queue.
* The build enqueues embedding and stage jobs into the service's queue file.
  Service workers run jobs as subprocesses, which are builds again.
* Queue operations, index builds, promotion and the embeddings cache all take a
  lock with `acquireFileLock`.
* Watch mode turns file events into builds of the tracked files; a build that
  validates is promoted into `current.json`, which other processes write too. All
  builds report phases, progress and heartbeats through the patch queue.

## 2. The modules

| module | models | kind |
|---|---|---|
| `SeqLedger` | `createSeqLedger` as operators on a ledger record | component (operators) |
| `OrderedAppender` | `buildOrderedAppender` and its callers | component, uses `SeqLedger` |
| `Sums` | the total of a function over a set | helper of `OrderedAppender` |
| `OrderedCommit` | what the appender promises | abstract specification |
| `OrderedAppenderRefinement` | `OrderedAppender` implements `OrderedCommit` | refinement mapping |
| `ServiceQueue` | the queue file and the worker loops | component |
| `FileLock` | `acquireFileLock`, reclaim and release | component |
| `WatchBuild` | watch mode, the attempt manager and `promoteBuild`, with a rival process | components, composed |
| `PatchQueue` | `createPatchQueue` over the outcomes of `applyStatePatch` | component |
| `MCOrderedAppender`, `MCServiceQueue`, `MCFileLock` | small instances | for TLC |
| `SeqLedgerProofs`, `SumsProofs` | lemmas about ledgers and about totals | for TLAPS |
| `OrderedAppenderProofs` | the appender's inductive invariant, its order | for TLAPS |
| `OrderedAppenderSafety` | its other safety properties, the refinement | for TLAPS |
| `ServiceQueueProofs`, `FileLockProofs`, `WatchBuildProofs`, `PatchQueueProofs` | theorems about those modules | for TLAPS |

Besides its model, a component module holds, next to the definition they vary,
a few alternative definitions with plausible slips of a programmer
(`CollectSkipping`, `SweepAll`, `OpenAnyway`, `TrimLate` and the like). They are no part of
the specifications: putting one in the place of the original shows that a
property does notice that slip.

### SeqLedger and OrderedAppender

`ledger` is the state of `createSeqLedger`. Each ledger function is an operator
from ledger to ledger, so that a handler that calls several of them in one
JavaScript turn is one action.

| code | model |
|---|---|
| `envelopeBySeq`, `bufferedBytes`, `maxSeenSeq`, `aborted`, `flushRequested` | variables of those names (`envelopes`) |
| `flushing` and the place where `drain()` stands | `drain`: `idle`, `scan`, `collect`, `commit`, `apply` (awaiting `handleFileResult`), `finally` |
| `commitJournal` | `terminalRecords` per seq, `commitRecords` |
| `capacityWaiters`, and each caller's progress | `worker[s]` |
| an envelope's `done` promise | `done[s]` |
| `waitForCapacity`, its timeout | `WaitForCapacity`, `CapacityTimeout` |
| `noteInFlight`; lease heartbeats and expiry | `NoteInFlight`, `Heartbeat`, `LeaseExpires` |
| `setTerminalEnvelope` (via `enqueue`, `skip`) | `SetTerminalEnvelope` (turned away or accepted) |
| `reclaimExpiredLeases`, `resetForRetry`, `abort` | `ReclaimExpiredLeases`, `ResetForRetry`, `Abort` |
| `drain()` | `CallDrain`, `ScanHead`, `Collect`, `CollectEnds`, `CommitUnwritten`, `BeginApply`, `ApplySucceeds`, `ApplyFails`, `EndBatch`, `Finally` |

JavaScript runs a turn to completion: `drain()` lets others in only while it
awaits `handleFileResult` and before its `finally` handler, so every other
action has the guard `Yielded`.

Details kept on purpose: the exception branch of a commit (`CommitItem`) and the
re-terminalization of an open seq in a batch (`DrainedLedger`) are in the model
though no behaviour reaches them (that they are unreachable follows from
`BatchStaysTerminal`). A batch goes on committing after an abort, as the code
does. `CANCEL`s of an abort are not journaled, as in the code.

Abstractions: a result is its size; the clock is "this lease may have expired";
`noteDispatched`, `fail` and `cancel` of the appender's interface have no caller
and are left out, as is the branch of `resetForRetry` for an envelope without a
terminal state, which never exists at that point. Every file asks for capacity; the code
lets most files near the cursor, and between the first of a batch and the next, pass
without asking (`process-files.js:4224-4230`). A report for a seq outside
`expectedSeqs` throws at once and is not modelled. Of the shard planning in
`ordering.js` and `process-files.js` only the retry budget is modelled. The
journal lives in memory in production: a crash loses the build, not the journal.

`OrderedCommit` is the promise in three actions, decide, commit and halt: every expected seq
gets an outcome that never changes, commits follow the order of the seqs, what
is written downstream are the successful commits, and the stage may halt.
`OrderedAppenderRefinement` maps outcome, log and writes onto the appender's state.

### ServiceQueue

Every operation of `queue.js` is one action, because it runs under the queue
lock from load to save. A worker's pass through `processQueueOnce` is not atomic:

`idle` -- `requeueStaleJobs` (`Sweep`, or `SkipSweep` when one ran within the
last second or another caller's is joined) --> `swept` -- `claimNextJob`
(`ClaimNextJob`, or `NothingToClaim`) --> `running` -- the subprocess ends
(`Execute`) --> `finished` -- `finalizeJobRun` (`FinalizeRun`) --> `idle`.

A worker in `running` keeps the copy of the job it claimed; `finalizeJobRun`
computes the next attempt from that copy, and the model does the same.
`CannotStart` is `job-executor.js` refusing a job. Workers may `Crash`
at any point and `Restart`. With `"stall"` in `Faults` a heartbeat may be
missing while the runner lives. With `"read"` a read of the queue file may fail:
`readJson` (`queue.js:9-16`) then finds an empty queue. A sweep does nothing
(`SkipSweep`), a claim finds no job, a completion finds no job either and its result is
lost (`FindsNoJob`), and an enqueue overwrites the file (`EnqueueUnread`), so that the other
jobs are `absent` from then on. `MaxFaults` bounds crashes and failing reads together.
The clock is reduced to heartbeats that are
fresh or stale and jobs that are eligible or not; a run without a heartbeat counts
from its start (`lastHeartbeatAt || startedAt`), so it becomes stale as well. `Monitored`
is the set of jobs whose stage has a stale threshold.

Not modelled: the subprocess that a crashed worker leaves behind, and
job-specific reports. The queue lock is taken as exclusive here; section 5 shows
under which circumstance it is not.

### FileLock

One action per file operation, since another process may move between any two.
A contender goes `idle`, `opening` (`open` with `wx`), `writing` (the payload),
`holding`; a failed write leads to `cleaning`. When the file exists it goes
`inspecting` (`readLockInfo` and `stat`), `judging` (stale, dead owner, grace),
`checking` and `rechecking` (the owner is compared again), `removing`. `release`
checks the owner and unlinks. A file is identified by its creation (inode and
lockId) and has an owner, a flag `written` and an age: fresh, past the grace for
unsigned files, or past the stale limit. A killed process stays dead; a restarted
one is a new pid, hence another member of `Processes`.

`Faults` chooses among `crash`; `stall` (a process may pause longer than the
grace between two file operations); `rm` (a removal fails); `read` (a lock file that is there cannot be read). Signing may
always fail (`WriteFails`), the payload being written or not: the code treats a failing
`closeHandle` after a complete write like a failing write (`file-lock.js:484-490`).
`ForceStale` is `forceStaleCleanup`. The histories `robbed` (a file was removed under a
live owner), `failed` (a release reported that its file could not be removed) and
`swallowed` (the clean-up after a failed signing could not remove its file, and nobody
is told) only serve the properties.

Not modelled: the synchronous clean-up on process exit, a missing parent
directory, and custom `staleRemovalImpl`s.

### WatchBuild

One JavaScript turn is one action; between actions lie the awaits of the code.

| code | model |
|---|---|
| `handleEvent`: `recordAddOrChange`, `recordRemove` | `RecordAddOrChange`, `RecordRemove` |
| `flushPendingUpdates`, `applyTrackedUpdates`; per path, where `updateTrackedEntry` stands | `FlushPendingUpdates`; `updating[p]`: `ClassifyPath` (looks at the file), `UpdateTrackedEntry` (acts on what was seen), `UpdateFails`; with the last path the batch `Ends`, and is queued again if an update failed |
| the tracked entries and their stats; the incremental manifest and the bundle files | `tracked`, `manifest`, `bundle` |
| the content of a file in a build (`file-processor.js`, `readCachedBundle`, `writeBundleForFile`) | `ReadFile`: `ServeBundle` (the manifest has the stat of the entry; the file is not opened), `OpenFile` (read, and cached under the stat of the entry), `SkipFile` (gone or unreadable: left out, the build goes on) |
| the debounced scheduler | `timer`; `RunBuild` when it fires |
| `runBuild`, await by await | `build.phase`: `locking`, `discovering`, `reading`, `promoting` (before `promoteBuild` reads), `merging` (before it writes), `closing` (mark the phase), `releasing`, `settling` |
| `acquireIndexLockWithBackoff` | `AcquireIndexLock`, `LockUnavailable` |
| `createAttempt`, `recordOutcome`, `trimAttempts` | `attempts`: the two lists and the roots on disk |
| `promoteBuild` | `PromoteReads`, `PromoteWrites`; `RivalReads`, `RivalWrites` |
| the end of the `finally` block and the replay | `Settle` (`Clean`, `Replay`) |
| `requestShutdown` | `RequestShutdown` |

A file is the number of its last write, 0 when absent, and its stat is that number; a
touch is an event without a change. A build takes the stats of the tracked entries as
`classifyPath` saw them, and obtains the files one at a time, so its content may mix moments
and a file may be cached under an older stat than its own. `current` is
`current.json`: for each of two builders the root of its modes. The rival is a build of
other modes in another process, which takes the index lock only to promote
(`stages.js`). `stranded` says that the last build failed and nothing will replay
it, `unread` that `current.json` could not be read, `attempts.misfiled` that a
promoted attempt was filed as failed, `skipped` which files the promoted index lacks because
they could not be read, `misled` which entries were set by a look at the file that failed
or that a removal overtook: the properties name these as their only exceptions.

Faults: `build` (the build, its validation or the write of `current.json` fails),
`phase` (the phase cannot be marked at the end), `release` (the lock is not
released and stays), `read` (`current.json` cannot be read), `stat` (a look at a file
fails and counts as its absence), `update` (an update of a tracked entry throws), `skip` (a
file that is there cannot be read), `manifest` (the manifest is not written, which is
told to nobody).

A bundle whose write fails is not served later, which `OpenFile` at any
time covers; so it does for the hash verification of an old bundle and the text kept in memory within a
build. The reuse of a whole index never applies, as every attempt has a new root.

Left out: which files are indexable, the cap on their number, separate maps per
mode, metrics. An unstable file (`waitForStableFile`) is an event that is
handled later. `outcomeError` of `runBuild` never occurs, as `recordOutcome`
swallows the errors of `fs.rm`. The first build is other code's: the model
starts with a current index and a running watcher.

### PatchQueue

| code | model |
|---|---|
| the entry of `statePending` (patch, class, timer, waiters) | `entry`, numbered, as the code tells entries apart by identity |
| `enqueueStateUpdate` and the flushes awaiting it | `chain`; each flush remembers the entry it came from |
| `queueStatePatch`, `createWaiter` | `QueueStatePatch`; `timeouts` are the armed waiter timeouts |
| `flushPendingState` to its await; after it | `FlushPendingState`; `FlushSucceeds`, `FlushFails` |
| debounce and retry timers, `flushBuildState` | `FlushDebounced`; `FlushBuildState` when nothing is pending |
| `statePending.delete(key)`, `releasePendingLifecycle` | `DeletePending`: the entry of the key goes, whosever it is, and its timers with it |
| `applyStatePatch` | `Store`: which fields reach the disk |

Each call sets one field to its own number, so that later values are greater.
A required patch is flushed at once, in the same turn. `applyStatePatch` may find
the lock busy (`lock`); fail before, between or after its writes (`write`: of a
best-effort patch only the write of the checkpoints throws, so at least that one is missing);
hide the failure of a best-effort write (`swallow`: the code records an error and reports
success); or find no build root (`vanish`). In that case it returns null, whatever the
durability class, and the flush is reported as written (`FindsNoRoot`). `gone` says that
the root is not there, the history `erased` which values went with it or found none. A flush under way may create the
root again, without what was in it. A root that vanishes in the middle of a required write
makes that write fail with an error or return null: the one is `FlushFails` followed by `RootVanishes`,
the other `RootVanishes` followed by `FindsNoRoot`. A flush that fails
after its entry was deleted puts its patch into an object nothing refers to
(`stuck`); registering the retry timer on the closed lifecycle then throws, and the
rejection is unhandled: a worker process ends there, the model goes on.

Left out: several build roots (independent of one another), event and delta logs,
the caches and formats of `store.js`, and an unreadable sidecar file, which counts as empty.

## 3. The runs

| run | instance | asks |
|---|---|---|
| `AppenderCore` | seqs {0, 1, 3} (a hole at 2), shard {0, 3} retried once; `MaxPending` 1, `MaxPendingBytes` 2 with results of 1, 1 and 2 bytes, `CommitLagHard` 1, hysteresis 7/10, bypass window 1; every fault | 13 invariants, `OutcomesFinal`, refinement of `OrderedCommit` |
| `AppenderLive` | the same seqs in one shard, no retry, bypass 0; failing writes and expired leases; fair | the stage ends; every report is answered, every waiter let go |
| `AppenderJournal` | as above, expired leases only | finding 1 |
| `QueueCrash` | two jobs (limit 1; no limit of its own), two workers, capacity 1, two faults: crashes or failing reads; fair | one runner, exact attempts, budget, capacity, settled stays, every job settles or is lost with the file |
| `QueueStall` | one job with limit 2, three workers, one crash or failing read, stalling workers | how far a job can multiply when heartbeats fail |
| `QueueRetries` | one job without limit, one worker, no fault | finding 2 |
| `LockFaults` | two processes, four lock files, one crash, every fault; fair | exclusion unless robbed, no silent leak, what the dead leave and what is unsigned is reclaimed |
| `LockRace` | three processes, three lock files, one crash, nothing else | finding 3 |
| `WatchCore` | two files, three writes or touches, one promotion by the rival, any one of the eight faults; fair | the index follows the files, roots are kept, a shutdown ends |
| `WatchForgets` | the same without the rival, one failing build; fair | finding 4 |
| `PatchQueue` | two fields, three calls, any two of the four faults; fair | truthful answers, the last patch stored, no field goes back, every caller answered |
| `PatchHangs` | two fields, four calls, no fault; fair | finding 5 |

What the properties say is written above each definition. The ones worth
knowing:

* Appender. `CommitOrder`, `FirstOutcomeWins`, `AppliedMatchesJournal`: order and
  identity of what reaches the index. `BatchStaysTerminal`: what `drain()`
  collected before an `await` is still true after it. `DrainNotLost` and
  `WaitersRightlyHeld`: no lost wakeup of the drain loop or of a waiter.
  `AbortSettlesEverything`, `PromisesHeld`: nothing hangs after an abort.
  `LedgerExact`: the counters are those of the states. `ReplayRestoresCursor`:
  replaying a journal without conflict gives the cursor the ledger has.
* Queue. `SingleRunner`, `AttemptsCountRuns`, `RunsWithinBudget`, `SettledStays`
  as long as heartbeats arrive, failing reads included; `MonitoredSettle`: every
  monitored job settles, unless it is lost with the file; `StalledRunsBounded` when heartbeats do not arrive: a stalled
  run is requeued by the sweep and again by its own late completion, so that
  each attempt at most doubles: 2^(1+limit) - 1 runs.
* Lock. `ExclusiveUnlessRobbed`: creation, signing, time-outs and release keep the
  lock exclusive; `NoSilentLeak`: a file that names a live process is never
  reclaimed by others, so it must not outlive its lock unnoticed; the one exception in the code
  takes two failures in a row;
  `AbandonedReclaimed`: the lock of a dead process, and a file nobody signed, do not
  block for ever.

* Watch. `IndexCurrentAtRest` and `ChangesIndexed`: whatever the order of events,
  updates, timers, cached bundles and reads, the promoted index becomes what is on disk,
  file by file, but for files skipped as unreadable and entries set by a failed or overtaken
  look, unless the last build was stranded, `current.json` was unreadable, or the watch
  ends. A failed update or an unwritten manifest loses nothing.
  `OtherRootsKept`: promotions of two processes do not undo each other.
  `CurrentRootKept`: trimming spares the root in use. `ShutdownEnds`: every exit
  of a build passes the release of the lock.
* Patch queue. `FlushedIsWritten`: "flushed" means on disk, or that the build root was
  gone, or, for a best-effort call only, swallowed. `LastPatchStored`, `StoredAdvances`: merging, retrying and
  the serial chain keep the newest value, unless the root went, an entry was deleted while
  a flush was in the chain or a flush failed with another behind it.
  `CallersAnswered`: required callers are always answered.

### The bounds, and why they are enough

Three seqs with a hole give a head, a successor and one beyond a gap in the
numbers, enough for out-of-order ends, a batch of two with another behind it,
and a report during a write. `MaxPending` 1, two bytes and a lag of 1 close the
gate through each of its three conditions. One retry of a shard around a seq
that is not in it has reports before, during and after the retry.

Two jobs and two workers have a job claimed while another is queued at capacity
1, and both recovering from a crash; two faults exceed the retries of either
job, or lose a completion and then crash the worker that takes it up again. Three workers and limit 2 reach the bound of seven runs.

In `LockRace` the three processes are an owner that dies and two that reclaim;
in `LockFaults` an owner that may die and a contender, with lock files for each to
take it again after a reclaim. `MaxLocks` and `MaxCrashes` bound only how
long a behaviour may become: they are guards of `Open` and `Crash`. Once the
files are used up, contenders time out and try again, while the last file is
still inspected, judged and removed as before.

Two files and two further writes or touches let a change come before, during and after
the reading of a build, and again while the follow-up is queued; a removal and
an addition of the same file may cross in one update, and a touch is enough for an entry
to be set again after its removal was recorded. One fault of each of the eight kinds meets every
await of a build and of an update; the limit of one failed attempt is passed by
the aborted attempt of a shutdown after a failed one, that of two good ones by the third build. The
proofs have no such bound. One promotion of the rival may fall between any two steps of
the watch.

Three calls of the patch queue are two flushes in the chain and a third call
after the deletion of their entry; two faults are a failure and the failure of its
retry, or a failure and the end of the build root. Two fields let a write be partial and patches be merged without override.

All passing runs are exhaustive: `AppenderCore` has 392,578 distinct states,
`AppenderLive` 13,732, `QueueCrash` 21,017, `QueueStall` 23,680 up to symmetry,
`LockFaults` 174,052, `WatchCore` 610,142 and `PatchQueue` 904,948; the largest
takes about two and a half minutes.

Symmetry is used for the workers of `QueueStall` and the processes of `LockRace`,
only in runs without liveness. No run switches off deadlock checking: where a system may come to rest its
module has a `Terminated` or `Wait` action that says so.

### Fairness

* Appender: turns of `drain()` run to completion; `handleFileResult` settles,
  being bounded by `flushTimeoutMs`; a file is processed in bounded time by the
  per-file watchdog; a broken shard is retried or aborts the build. Nothing is
  assumed of lease expiry, heartbeats or time-outs.
* Queue: a watching worker polls for ever, so an enabled sweep or claim is taken
  even if other workers disable it in between (strong fairness); subprocesses
  end; heartbeats expire and delays pass because time does; a crashed worker is
  restarted by its supervisor. Nothing is assumed of crashes, of reads or of enqueueing.
* Lock: a live process finishes what it began and asks for the lock again, as
  pollers do; time passes; a removal that can succeed does not fail for ever
  (strong fairness).

* Watch: the event loop takes some step whenever it can: pending events are
  delivered, timers fire, awaits settle (lock waiting and clean-ups are bounded by
  time-outs in the code). The rival finishes a promotion it began. Nothing is
  assumed of changes, faults or shutdown.
* Patch queue: the debounce and retry timers fire, a write ends, the timeout of a
  waiter fires. The first is true only as long as the process lives: the timers
  are `unref`ed (`patch-queue.js:319`, `392`), so after a failed last flush
  nothing keeps the process for the retry.

## 4. The proofs

All theorems hold for every value of the constants that the modules' `ASSUME`s
allow. TLC evaluates those assumptions in every run. Every invariant, every action
property and the refinement that the passing runs check is the subject of a
theorem; two properties that the code breaks are proved for the circumstances in
which it keeps them.

**Appender, its order** (`OrderedAppenderProofs`). `Invariant` proves `IInv`
inductive. `TypeOK` and the checked
properties are not inductive alone: that a resumed batch may still be committed
needs to know that it is the run of terminal seqs at the commit cursor
(`BatchIsRun`); that the next commit is the next in order needs the journal to be
exactly the seqs below the cursor (`JournalIsPrefix`); that the outcome is
the first journaled one needs every decided seq to agree with its first record
(`FatesSealed`); and a reset must not touch a seq that has an envelope
(`EnvelopesTerminal`). The ledger's part, `LedgerInv`, is proved in
`SeqLedgerProofs` operator by operator. Steps are summarised as "settling" steps
(`Settles`: no decided seq changes, none is committed, the cursor stays), and a few
lemmas about those carry all conjuncts for most actions; committing is the one
action with a proof of its own. From `IInv` follow `TypeCorrect`,
`LedgerStaysExact`, `CommitsInOrder`, `CollectedStaysTrue`, `FirstOutcomeStays`
and `ReplayIsFaithful`.

**Appender, the rest** (`OrderedAppenderSafety`). Each result starts from `IInv`
and adds what it needs:

* `OutcomesStayFinal`: each kind of step is one of the life cycle (`StepReaches`).
* `AbortsSettle`, `PromisesAreHeld`: `SettledInv`, with the fact that `drain()` never
  collects after an abort (`CollectsLive`), so that no envelope comes back.
* `DispatchesWithinBudget`: dispatches are charged in advance, an unseen seq
  counting for the dispatch it still waits for (`Charge`). Only a retry
  reopens a seq, and it raises the budget of its shard. That needs the shards to
  be disjoint, an assumption of `OrderedAppender`: `buildStage1ShardWorkPlan`
  (`process-files.js:1930-1985`) gives every entry to one shard.
* `DrainIsNotLost` is inductive together with `IInv`.
* `WaitersAreRightlyHeld`: a waiter may be held wrongly in the middle of a batch, as
  waiters are let go at its end; `RestingWaitersHeld` adds the moments in which
  `drain()` has not found anything to commit. A gate that is closed (`Congested`)
  is above the resume limits, which hysteresis only lowers (`ReleaseLower`).
* `WritesMatchJournal`: `WritesCommitted` adds that the exception, a last write
  without its commit, does not occur before `drain()` has given up a write.
* `BytesStayExact`: a total changes by what one envelope changes. The lemmas about
  `Total` in `SumsProofs` are proved without induction, which is out of the
  provers' reach here: a finite set for which a fact fails has a minimal subset for
  which it fails (`MinimalSubset`), and that is contradicted by taking an element away.
* `AppenderImplementsPromise`: with the journal read as a log, a step of the
  appender is a decision, a commit, a halt or a stutter of `OrderedCommit`.
* `JournalNeverConflicts`: `NoJournalConflict`, which finding 1 refutes, holds
  under every other fault when leases do not expire (`LeasesNeverExpire`). Until a
  seq is committed or an abort turns its reports away, all records of it say what
  its envelope says (`JournalInv`).

**Queue.** `QueueTypeCorrect` and `NewJobsStayWithinCapacity` need no assumption: the
capacity is kept because enqueueing alone adds a job that has never run.
`QueueInvariant` proves `QInv` inductive under the assumption
`NoStalls` (`"stall" \notin Faults`): whoever holds a job is alone, the job is
running and its attempts are those of the holder's copy (`HeldJobsAreCurrent`),
so a completion charges the right attempt; hence claims equal charged attempts,
and attempts stay within the limits (`AttemptsBounded`). A job that was lost with the file is
claimed no more, so the bound on its runs (`RunsWithinBudget`) is part of `QInv`. Consequences:
`OneRunner`, `AttemptsAreRuns`, `RunsStayWithinBudget` and the action property
`SettledJobsStay`.

What is left without that assumption is `StalledRunsStayBounded`, for any number of
workers, stalls and crashes. A stalled copy of a job may later file its own completion
and queue the job once more, so attempts no longer count runs. The invariant
`StallInv` bounds a potential: the runs made, plus the runs the job's record still
allows (`JobRuns`), plus those that the completion of each stalled copy may
still cause (`Owed`, a total over the workers that keep a copy), never exceed
`2^(1+limit) - 1`. Each step moves runs from one account to another: a claim turns
what the queued job was worth into one run, what the running record may still lead to
(a sweep) and what the copy may (its completion), the latter two being equal. The
recurrence of the powers of two it needs (`PowerStep`) is proved by counting subsets,
again in place of an induction.

**Lock.** `LockInvariant` proves `LInv`: until a robbery, a process between its
creation of the file and its release finds its own file at the path
(`OwnersHaveTheFile`), under every fault; and whatever file is at the path belongs to its
owner still, or its owner is dead, or a release has reported it, or a clean-up has
swallowed its failure, or it is unsigned (`FilesAccounted`). Consequences: `LockTypeCorrect`,
`ExclusiveUntilRobbery`, `LiveLocksAreOwned`. `LockIsExclusive` proves
`LockExclusive`, which finding 3 refutes, when nothing fails and `ForceStale` is off:
no file is then ever judged stale (`Undisturbed`), because an unsigned
file is its creator's, who is at work on it, and does not age before it is signed or
judged. No part of that assumption can be dropped: with three processes TLC finds
two holders for each single fault, and for `ForceStale`.

**Watch.** A promotion reads `current.json`, merges and writes in separate steps.
What makes that safe is proved in this order: between its read and its write a
process has the index lock (`LockHeld`); what it read is still what the file says:
the rival's root in the watch's copy (`RivalRootsKnown`, unless a read has failed), the
watch's root in the rival's copy (`OwnRootKnown`). For the current root one also needs that attempts are numbered
and filed once (`AttemptsNumbered`, `AttemptPromoted`) and that the root
`current.json` names is that of the attempt in progress, that of the newest good
one, or of one filed as failed after its promotion (`CurrentRootFiled`), so that the
clean-up after a later attempt spares it. Hence `WatchTypeCorrect`,
`OtherRootsSafe` and `CurrentRootSafe`.

`IndexCurrent` proves `IndexCurrentAtRest` from `CurrencyInv`, which says at every
moment where a change is. A bundle may be served instead of the file, so its content has to
be that of the stat it is recorded under: a bundle with the stat the file has now holds what is
in the file (`BundlesSound`), because no stat anywhere is newer than the last write
(`StatsOld`), so that a new version of a file finds no bundle with its stat. The entry of a
file has its stat, or an event or update will still see to it, a failed one
included, or it was misled (`EntriesKept`). Each change, and each removal of an entry, is in
the index, in what the running build has obtained or will obtain, or ahead of a build that the
timer, the replay or a pending path will start, unless one of the named exceptions has
happened (`PathsCurrent`). Two facts carry it through a build: it starts from nothing
and is aborted by a shutdown only (`BuildFresh`), and the rival writes back the root of
the watch as it is (`WatchRootRead`).

**Patch queue.** Every value in a patch comes from a call for its field
(`PatchesFromCalls`); disk, then the chain of flushes, then the pending entry are in the
order of the calls, until a flush fails with another behind it (`Ordered`); what goes with
the build root leaves no value behind. That
gives `StoredOnlyAdvances`. A caller waits at an entry or a flush whose patch has its
value or a newer one (`WaitersServed`), hence `AnswersTruthful`. As long as no
entry was deleted under them, all flushes belong to the pending entry
(`ChainOfEntry`), and the last call of each field is in memory, on disk or
its failed write was hidden, or it went with the build root (`LatestKept`), hence `LastPatchIsStored`. `PatchTypeCorrect` rests
on the fact that no flush of the chain is empty (`ChainNotEmpty`).

### Only model-checked

The liveness properties: `PromiseEnds`, `ReportsAnswered`, `MonitoredSettle`,
`AbandonedReclaimed`, `ChangesIndexed`, `ShutdownEnds`, `CallersAnswered`. They rest on
fairness and ENABLED, which are out of the prover's reach. So is induction
over data: what a recursive definition computes on every input cannot be proved with
the provers at hand. The modules have therefore no RECURSIVE operators, and the facts
about totals and powers above are proved without induction.

## 5. What the code does otherwise than it says

1. **A reclaimed lease can contradict a late report** (`AppenderJournal`,
   `NoJournalConflict`). No caller sends heartbeats, so a file that takes
   longer than the lease is reclaimed as `fail` by a stall timer; its late report
   journals `success` for the same seq. The specifications in `docs/specs` call
   this fatal; the code keeps the first outcome and goes on, dropping the result.
   Only the replay would refuse the journal. (`FirstOutcomeWins` shows that the
   code's own behaviour is consistent.)
2. **The configured retries are not used for jobs without a limit**
   (`QueueRetries`, `ConfiguredRetriesHonoured`). `Number(null)` is 0 and finite, so
   `job-completion.js:81` never falls back to `queue.maxRetries`.
3. **Two processes can hold a lock after a crash** (`LockRace`, `LockExclusive`).
   A stale lock's owner is checked and the path removed in two steps
   (`file-lock.js:355-358`); a second contender that has judged the same dead
   lock can remove the first one's new lock. Three processes and one crash
   are enough.

4. **A failed build can forget a change** (`WatchForgets`, `EveryChangeIndexed`). A
   clean build clears all pending paths, those recorded during the build
   included (`watch.js:698`); the build that the still armed debounce timer starts
   then counts no queued paths, so that its failure is not replayed
   (`watch.js:700`). The comment above (693-696) promises that it is. The change stays
   out of the index until another file changes.
5. **A best-effort state update may never be answered nor written**
   (`PatchHangs`, `EveryCallerAnswered`). An entry of the patch queue is deleted by
   key at the end of a flush (`patch-queue.js:281`, `419`), even if the entry of the
   key is a later one; its debounce timer and its waiter's timeout are cleared with
   it. No fault is needed: a flush in progress, `flushBuildState` (or a second
   flush behind it), a new heartbeat or progress update, the end of the flush.

Met on the way, without a run of their own: a lock that cannot be had in 15
seconds makes `runBuild` return past its replay (`watch.js:538-542`); an attempt
that was promoted but could not mark its last phase is filed as failed, and the next
failure removes the root `current.json` names; an unreadable `current.json` is
overwritten without the other modes' roots (`promotion.js:56`); a flush that fails with
another queued behind it lets its older patch overwrite the newer one on retry
(`patch-queue.js:307`) and overwrites the durability class of what is pending (308); a failed read of a lock file
counts as an unsigned lock, so that a live lock older than the grace may be
removed (`file-lock.js:549`; `LockFaults` counts it as a robbery); when closing a
completely written lock file fails and then its removal, the error of the removal is swallowed
(`file-lock.js:484-490`), and a file that names a live process stays without anybody being
told (`swallowed`); an update that has looked at a file before its removal was recorded sets
its entry again (`watch.js:438`), the build that follows serves the cached bundle without
opening the file, and the removed file stays indexed, without any fault, until its next
event (`misled`); a file that cannot be read is left out of an index that is promoted as
good (`file-processor.js:467-470`, `skipped`); a required caller is told "flushed" when the build
root is gone and nothing was written (`store.js:1005`, `patch-queue.js:279`, `erased`); any
error of reading the queue file counts as an empty queue (`queue.js:9-16`), so that
a completion is lost, and an enqueue overwrites the file with every job in it; a job whose
stage has no stale threshold stays `running` for ever when its worker dies
(`queue.js:221`); the ledger document speaks of "at most two windows" where the
code allows up to sixteen.

### Not modelled

The limits of model checking rule out little here; the rest is a matter of
what a model could show. The postings queue's waiting never happens in production,
as the drain loop applies one result at a time (`process-files.js:1600-1622`). The
scheduler's decisions depend on measured load. The queue runner, the LSP session
pool, the preflight manager and the content-addressed cache are the next
candidates. Atomic persistence is taken as the atomic replace
it provides. Snapshots mostly copy files. Language front ends, graph, retrieval,
servers, editors and the TUI transform data or present it, without shared
state that interleaves: ordinary tests reach them.

## 6. Plan

Done: the Stage1 commit path (ledger, appender, refinement), the job queue,
the lock both rest on, watch mode with promotion, the patch queue.

The safety of these five is proved. What is left to prove lies beyond the checked
properties: that `ServiceQueue` implements an abstract executor ("each job runs at
most budget times and is then settled") when heartbeats arrive, and that `FileLock`
implements an abstract lock when nothing fails.

Further models, if the project grows: the LSP session pool (leases against reaping); the queue runner.
