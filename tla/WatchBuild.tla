------------------------------ MODULE WatchBuild ------------------------------
(***************************************************************************)
(* Watch mode (index/build/watch.js): events of the file watcher are       *)
(* recorded, tracked entries are brought up to date, a debounced build     *)
(* reads the tracked files and promotes its result by rewriting            *)
(* current.json (promotion.js), and old attempts are trimmed (attempts.js).*)
(* Another process, the rival, promotes builds of other modes under the    *)
(* same index lock.                                                        *)
(*                                                                         *)
(* A JavaScript turn is one action; between actions lie the code's awaits. *)
(* Abstracted: a file is the number of its last write, 0 when it is absent,*)
(* and its stat is that number; all files are eligible for the index; the  *)
(* debounce timer may fire at any time; an unstable file is an event that  *)
(* is handled later; a path stands for a file in one mode.                 *)
(***************************************************************************)
EXTENDS Integers, Sequences

CONSTANTS
  Paths,      \* the files of the repository
  MaxWrites,  \* bound on the changes of files
  MaxRival,   \* bound on the promotions of the rival
  MaxFaults,  \* bound on the faults injected
  Faults      \* the faults that may be injected

FaultNames == {"build", "phase", "release", "read", "stat", "update", "skip", "manifest"}

ASSUME WatchAssumption ==
  /\ {MaxWrites, MaxRival, MaxFaults} \subseteq Nat
  /\ Faults \subseteq FaultNames

VARIABLES
  disk, writes,     \* the files, and how many writes there were
  events,           \* paths whose change the file watcher has still to report
  tracked,          \* trackedEntriesByMode: the stat of each entry, 0 without one
  pendingPaths,
  pendingUpdates,
  updating,         \* per path, how far handleUpdate has come with it
  seen,             \* per path, the stat classifyPath has seen
  manifest,         \* the incremental manifest: the stat recorded for each bundle
  bundle,           \* the bundle files: the content cached for each path
  timer,            \* is the debounce timer of the scheduler armed?
  pending,
  shouldExit,
  build,            \* the run of runBuild in progress
  attempts,         \* the attempt manager, and the attempt roots on disk
  lock,             \* who holds the index lock
  rival,
  current,          \* current.json: for each builder, the root of its modes
  indexed,          \* the contents of the watch's root named in current.json
  skipped,          \* history: files that root lacks, as they could not be read
  misled,           \* history: entries set by a failed or an overtaken look at the file
  stranded,         \* history: did the last build fail with nothing to replay it?
  unread,           \* history: has a promotion failed to read current.json?
  faults

fileVars  == <<disk, writes>>
queueVars == <<tracked, pendingPaths, pendingUpdates, updating, seen, misled>>
cacheVars == <<manifest, bundle>>
indexVars == <<rival, current, indexed, skipped, unread>>
vars == <<fileVars, events, queueVars, cacheVars, timer, pending, shouldExit, build,
          attempts, lock, indexVars, stranded, faults>>

Builders    == {"watch", "rival"}
NoRoot      == -1
KeepSuccess == 2
KeepFailed  == 1
Roots       == [Builders -> Nat \cup {NoRoot}]
Contents    == [Paths -> Nat]
Nothing     == [p \in Paths |-> 0]

Phases == {"idle", "locking", "discovering", "reading", "promoting", "merging",
           "closing", "releasing", "settling"}

NoBuild ==
  [phase |-> "idle", status |-> "ok", queued |-> FALSE, attempt |-> 0,
   toRead |-> Nothing, manifest |-> Nothing, content |-> Nothing, skipped |-> {},
   prior |-> [b \in Builders |-> NoRoot], releaseError |-> FALSE]

running == build.phase # "idle"
To(phase)          == [build EXCEPT !.phase = phase]

\* What the build has read is forgotten when it ends.
EndsIn(phase, status) ==
  [NoBuild EXCEPT !.phase = phase, !.status = status, !.queued = build.queued,
                  !.attempt = build.attempt]
EndsUnreleased(status) == EndsIn(IF status = "aborted" THEN "settling" ELSE "closing", status)
EndsWith(status)       == EndsIn("closing", status)

MayFail(kind)      == kind \in Faults /\ faults < MaxFaults
Fault              == faults' = faults + 1

Init ==
  /\ disk = [p \in Paths |-> 1]
  /\ writes = 1
  /\ events = {}
  /\ tracked = disk
  /\ pendingPaths = {} /\ pendingUpdates = {}
  /\ updating = [p \in Paths |-> "none"] /\ seen = Nothing
  /\ manifest = disk /\ bundle = disk
  /\ timer = FALSE /\ pending = FALSE /\ shouldExit = FALSE
  /\ build = NoBuild
  /\ attempts = [number |-> 0, success |-> <<>>, failed |-> <<>>, roots |-> {}, misfiled |-> {}]
  /\ lock = "none"
  /\ rival = [phase |-> "idle", promoted |-> 0, prior |-> [b \in Builders |-> NoRoot]]
  /\ current = [b \in Builders |-> 0]
  /\ indexed = disk
  /\ skipped = {} /\ misled = {}
  /\ stranded = FALSE /\ unread = FALSE
  /\ faults = 0

-----------------------------------------------------------------------------
(* The file watcher and the tracked entries. *)

\* A file is written or removed, or only touched; the watcher will report the path.  (What
\* changes after a request to shut down is of no interest.)
FileChanges(p) ==
  /\ writes < MaxWrites /\ ~shouldExit
  /\ writes' = writes + 1
  /\ \E v \in {0, disk[p], writes + 1} : disk' = [disk EXCEPT ![p] = v]
  /\ events' = events \cup {p}
  /\ UNCHANGED <<queueVars, cacheVars, timer, pending, shouldExit, build, attempts, lock,
                 indexVars, stranded, faults>>

RecordAddOrChange(p) ==
  /\ p \in events /\ disk[p] # 0
  /\ events' = events \ {p}
  /\ pendingPaths' = pendingPaths \cup {p}
  /\ pendingUpdates' = pendingUpdates \cup {p}
  /\ UNCHANGED <<fileVars, tracked, updating, seen, misled, cacheVars, timer, pending,
                 shouldExit, build, attempts, lock, indexVars, stranded, faults>>

\* An update of the path that has already seen the file will undo the removal.
RecordRemove(p) ==
  /\ p \in events /\ disk[p] = 0
  /\ events' = events \ {p}
  /\ pendingPaths' = pendingPaths \cup {p}
  /\ tracked' = [tracked EXCEPT ![p] = 0]
  /\ timer' = (timer \/ (tracked[p] # 0 /\ ~shouldExit))
  /\ misled' = IF updating[p] = "present" THEN misled \cup {p} ELSE misled \ {p}
  /\ UNCHANGED <<fileVars, pendingUpdates, updating, seen, cacheVars, pending, shouldExit,
                 build, attempts, lock, indexVars, stranded, faults>>

\* A batch is drained when the one before it has ended.
FlushPendingUpdates ==
  /\ pendingUpdates # {}
  /\ \A p \in Paths : updating[p] = "none"
  /\ updating' = [p \in Paths |-> IF p \in pendingUpdates THEN "queued" ELSE "none"]
  /\ pendingUpdates' = {}
  /\ UNCHANGED <<fileVars, events, tracked, pendingPaths, seen, misled, cacheVars, timer,
                 pending, shouldExit, build, attempts, lock, indexVars, stranded, faults>>

\* classifyPath looks at the file; what it saw is used after further awaits.  When the
\* look fails, the file counts as one that is not there.
ClassifyPath(p) ==
  /\ updating[p] = "queued"
  /\ \E stat \in {disk[p], 0} :
       /\ IF stat = disk[p]
            THEN misled' = misled \ {p} /\ UNCHANGED faults
            ELSE misled' = misled \cup {p} /\ MayFail("stat") /\ Fault
       /\ seen' = [seen EXCEPT ![p] = stat]
       /\ updating' = [updating EXCEPT ![p] =
            IF stat # 0 THEN "present" ELSE IF tracked[p] # 0 THEN "removed" ELSE "absent"]
  /\ UNCHANGED <<fileVars, events, tracked, pendingPaths, pendingUpdates, cacheVars, timer,
                 pending, shouldExit, build, attempts, lock, indexVars, stranded>>

\* Mutant: what failed is dropped with its batch.
EndsDropping(p, outcome) ==
  LET ended == [updating EXCEPT ![p] = outcome]
      batch == {q \in Paths : updating[q] # "none"}
  IN  /\ updating' = IF \A q \in batch : ended[q] \in {"done", "failed"}
                       THEN [q \in Paths |-> "none"] ELSE ended
      /\ UNCHANGED pendingUpdates

\* The update of a path has ended.  With the last one the batch ends, and when one of
\* them has failed all of its paths are queued again.
Ends(p, outcome) ==
  LET ended == [updating EXCEPT ![p] = outcome]
      batch == {q \in Paths : updating[q] # "none"}
  IN  IF \A q \in batch : ended[q] \in {"done", "failed"}
        THEN /\ updating' = [q \in Paths |-> "none"]
             /\ pendingUpdates' = IF \E q \in batch : ended[q] = "failed"
                                    THEN pendingUpdates \cup batch ELSE pendingUpdates
        ELSE updating' = ended /\ UNCHANGED pendingUpdates

UpdateTrackedEntry(p) ==
  /\ updating[p] \in {"present", "removed", "absent"}
  /\ tracked' = [tracked EXCEPT ![p] = seen[p]]
  /\ seen' = [seen EXCEPT ![p] = 0]
  /\ timer' = (timer \/ (updating[p] # "absent" /\ ~shouldExit))
  /\ Ends(p, "done")
  /\ UNCHANGED <<fileVars, events, pendingPaths, misled, cacheVars, pending, shouldExit, build,
                 attempts, lock, indexVars, stranded, faults>>

\* handleUpdate throws before it has touched the entry.
UpdateFails(p) ==
  /\ updating[p] = "queued" /\ MayFail("update") /\ Fault
  /\ Ends(p, "failed")
  /\ UNCHANGED <<fileVars, events, tracked, pendingPaths, seen, misled, cacheVars, timer,
                 pending, shouldExit, build, attempts, lock, indexVars, stranded>>

-----------------------------------------------------------------------------
(* The build. *)

\* The debounce timer fires.
RunBuild ==
  /\ timer /\ timer' = FALSE
  /\ IF running
       THEN pending' = TRUE /\ UNCHANGED <<build, stranded>>
       ELSE /\ build' = [NoBuild EXCEPT !.phase = "locking", !.queued = (pendingPaths # {})]
            /\ stranded' = FALSE
            /\ UNCHANGED pending
  /\ UNCHANGED <<fileVars, events, queueVars, cacheVars, shouldExit, attempts, lock, indexVars,
                 faults>>

AcquireIndexLock ==
  /\ build.phase = "locking" /\ lock = "none"
  /\ lock' = "watch"
  /\ IF shouldExit
       THEN build' = EndsWith("aborted") /\ UNCHANGED attempts
       ELSE LET n == attempts.number + 1
            IN  /\ build' = [To("discovering") EXCEPT !.attempt = n]
                /\ attempts' = [attempts EXCEPT !.number = n, !.roots = @ \cup {n}]
  /\ UNCHANGED <<fileVars, events, queueVars, cacheVars, timer, pending, shouldExit, indexVars,
                 stranded, faults>>

\* acquireIndexLockWithBackoff gave up: runBuild returns past its replay.
LockUnavailable ==
  /\ build.phase = "locking" /\ (lock # "none" \/ shouldExit)
  /\ pending' = TRUE
  /\ build' = NoBuild
  /\ stranded' = ~timer
  /\ UNCHANGED <<fileVars, events, queueVars, cacheVars, timer, shouldExit, attempts, lock,
                 indexVars, faults>>

\* buildDiscoveryForMode hands the tracked entries to buildIndexForMode, which loads the
\* manifest; what is not among the entries will be pruned from it.
Discover ==
  /\ build.phase = "discovering"
  /\ build' = IF shouldExit THEN EndsWith("aborted")
               ELSE [To("reading") EXCEPT
                       !.toRead = tracked,
                       !.manifest = [p \in Paths |-> IF tracked[p] # 0 THEN manifest[p] ELSE 0]]
  /\ UNCHANGED <<fileVars, events, queueVars, cacheVars, timer, pending, shouldExit, attempts,
                 lock, indexVars, stranded, faults>>

Reads(p, content) == [build EXCEPT !.toRead[p] = 0, !.content[p] = content]

\* The cached bundle has the stat of the entry: the file itself is not opened.
ServeBundle(p) ==
  /\ build.manifest[p] = build.toRead[p]
  /\ build' = Reads(p, bundle[p])
  /\ UNCHANGED <<bundle, faults>>

\* The file is read, and cached under the stat of the entry.
OpenFile(p) ==
  /\ disk[p] # 0
  /\ build' = [Reads(p, disk[p]) EXCEPT !.manifest[p] = build.toRead[p]]
  /\ bundle' = [bundle EXCEPT ![p] = disk[p]]
  /\ UNCHANGED faults

\* A file that is gone, or cannot be read, is left out of the index; the build goes on.
SkipFile(p) ==
  /\ \/ disk[p] = 0 /\ build' = Reads(p, 0) /\ UNCHANGED faults
     \/ /\ disk[p] # 0 /\ MayFail("skip") /\ Fault
        /\ build' = [Reads(p, 0) EXCEPT !.skipped = @ \cup {p}]
  /\ UNCHANGED bundle

ReadFile(p) ==
  /\ build.phase = "reading" /\ build.toRead[p] # 0
  /\ ServeBundle(p) \/ OpenFile(p) \/ SkipFile(p)
  /\ UNCHANGED <<fileVars, events, queueVars, manifest, timer, pending, shouldExit, attempts,
                 lock, indexVars, stranded>>

\* The manifest is written; that its write fails nobody is told.
ModesBuilt ==
  /\ build.phase = "reading" /\ build.toRead = Nothing
  /\ \/ manifest' = build.manifest /\ UNCHANGED faults
     \/ MayFail("manifest") /\ Fault /\ UNCHANGED manifest
  /\ build' = IF shouldExit THEN EndsWith("aborted")
                            ELSE [To("promoting") EXCEPT !.manifest = Nothing]
  /\ UNCHANGED <<fileVars, events, queueVars, bundle, timer, pending, shouldExit, attempts,
                 lock, indexVars, stranded>>

\* The build, its validation or the write of current.json fails, or is aborted, before or
\* after the manifest is written.
BuildFails ==
  /\ build.phase \in {"discovering", "reading", "promoting", "merging"}
  /\ \/ shouldExit /\ build.phase \in {"discovering", "reading"} /\ UNCHANGED faults
     \/ MayFail("build") /\ Fault
  /\ build' = EndsWith("error")
  /\ \/ UNCHANGED manifest
     \/ build.phase = "reading" /\ manifest' = build.manifest
  /\ UNCHANGED <<fileVars, events, queueVars, bundle, timer, pending, shouldExit, attempts,
                 lock, indexVars, stranded>>

\* promoteBuild reads the roots of all modes; a failed read leaves none.
PriorRoots(prior) ==
  \/ prior = current /\ UNCHANGED <<unread, faults>>
  \/ MayFail("read") /\ Fault /\ unread' = TRUE /\ prior = [b \in Builders |-> NoRoot]

OwnRootOnly(prior, builder, root)   == [b \in Builders |-> IF b = builder THEN root ELSE NoRoot]
PromotedRoots(prior, builder, root) == [prior EXCEPT ![builder] = root]

PromoteReads ==
  /\ build.phase = "promoting"
  /\ \E prior \in {current, [b \in Builders |-> NoRoot]} :
       PriorRoots(prior) /\ build' = [To("merging") EXCEPT !.prior = prior]
  /\ UNCHANGED <<fileVars, events, queueVars, cacheVars, timer, pending, shouldExit, attempts,
                 lock, rival, current, indexed, skipped, stranded>>

PromoteWrites ==
  /\ build.phase = "merging"
  /\ current' = PromotedRoots(build.prior, "watch", build.attempt)
  /\ indexed' = build.content /\ skipped' = build.skipped
  /\ build' = EndsWith("ok")
  /\ UNCHANGED <<fileVars, events, queueVars, cacheVars, timer, pending, shouldExit, attempts,
                 lock, rival, unread, stranded, faults>>

-----------------------------------------------------------------------------
(* The finally block of runBuild, await by await. *)

MarkWatchPhase ==
  /\ build.phase = "closing"
  /\ \/ build' = To("releasing") /\ UNCHANGED faults
     \/ /\ build.attempt # 0 /\ MayFail("phase") /\ Fault
        /\ build' = [To("releasing") EXCEPT !.status = "error"]
  /\ UNCHANGED <<fileVars, events, queueVars, cacheVars, timer, pending, shouldExit, attempts,
                 lock, indexVars, stranded>>

ReleaseIndexLock ==
  /\ build.phase = "releasing"
  /\ \/ lock' = "none" /\ build' = To("settling") /\ UNCHANGED faults
     \/ /\ MayFail("release") /\ Fault
        /\ lock' = "leaked"
        /\ build' = [To("settling") EXCEPT !.status = "error", !.releaseError = TRUE]
  /\ UNCHANGED <<fileVars, events, queueVars, cacheVars, timer, pending, shouldExit, attempts,
                 indexVars, stranded>>

TrimLate(list, keep)    == IF Len(list) <= keep + 1 THEN list ELSE Tail(list)

\* trimAttempts: what stays of a list, the roots that go.
Trim(list, keep) ==
  IF Len(list) <= keep THEN list ELSE SubSeq(list, Len(list) - keep + 1, Len(list))
Trimmed(list, keep) == {list[i] : i \in 1..(Len(list) - keep)}

Clean == build.status = "ok" /\ ~pending

SucceededClean == Clean
Succeeded == build.status = "ok"

RecordOutcome ==
  LET n == build.attempt
      success == IF Succeeded THEN Append(attempts.success, n) ELSE attempts.success
      failed  == IF Succeeded THEN attempts.failed ELSE Append(attempts.failed, n)
  IN  IF n = 0 THEN attempts
      ELSE [attempts EXCEPT
              !.success = Trim(success, KeepSuccess),
              !.failed  = Trim(failed, KeepFailed),
              !.roots = @ \ (Trimmed(success, KeepSuccess) \cup Trimmed(failed, KeepFailed)),
              !.misfiled = IF build.status # "ok" /\ current["watch"] = n
                             THEN @ \cup {n} ELSE @]

ReplayFailures == (build.status # "ok" /\ build.queued) \/ build.releaseError
Replay == pending \/ (~Clean /\ build.queued) \/ build.releaseError

Settle ==
  /\ build.phase = "settling"
  /\ attempts' = RecordOutcome
  /\ pendingPaths' = IF Clean THEN {} ELSE pendingPaths
  /\ pending' = FALSE
  /\ timer' = (timer \/ (Replay /\ ~shouldExit))
  /\ stranded' = (build.status = "error" /\ ~timer')
  /\ build' = NoBuild
  /\ UNCHANGED <<fileVars, events, tracked, pendingUpdates, updating, seen, misled, cacheVars,
                 shouldExit, lock, indexVars, faults>>

-----------------------------------------------------------------------------
(* Shutdown, and the rival. *)

RequestShutdown ==
  /\ ~shouldExit
  /\ shouldExit' = TRUE
  /\ timer' = FALSE
  /\ UNCHANGED <<fileVars, events, queueVars, cacheVars, pending, build, attempts, lock,
                 indexVars, stranded, faults>>

RivalAcquires ==
  /\ rival.phase = "idle" /\ rival.promoted < MaxRival /\ lock = "none"
  /\ lock' = "rival"
  /\ rival' = [rival EXCEPT !.phase = "promoting"]
  /\ UNCHANGED <<fileVars, events, queueVars, cacheVars, timer, pending, shouldExit, build,
                 attempts, current, indexed, skipped, unread, stranded, faults>>

RivalReads ==
  /\ rival.phase = "promoting"
  /\ \E prior \in {current, [b \in Builders |-> NoRoot]} :
       PriorRoots(prior) /\ rival' = [rival EXCEPT !.phase = "merging", !.prior = prior]
  /\ UNCHANGED <<fileVars, events, queueVars, cacheVars, timer, pending, shouldExit, build,
                 attempts, lock, current, indexed, skipped, stranded>>

RivalWrites ==
  /\ rival.phase = "merging"
  /\ current' = PromotedRoots(rival.prior, "rival", rival.promoted + 1)
  /\ indexed' = IF current'["watch"] = current["watch"] THEN indexed ELSE Nothing
  /\ rival' = [phase |-> "idle", promoted |-> rival.promoted + 1,
               prior |-> [b \in Builders |-> NoRoot]]
  /\ lock' = "none"
  /\ UNCHANGED <<fileVars, events, queueVars, cacheVars, timer, pending, shouldExit, build,
                 attempts, skipped, unread, stranded, faults>>

AtRest ==
  /\ ~running /\ ~timer /\ events = {} /\ pendingUpdates = {}
  /\ \A p \in Paths : updating[p] = "none"
  /\ rival.phase = "idle"

\* The watch waits for an event.
Wait == AtRest /\ UNCHANGED vars

HandleEvent(p)    == RecordAddOrChange(p) \/ RecordRemove(p)
ApplyUpdates(p)   == ClassifyPath(p) \/ UpdateTrackedEntry(p) \/ UpdateFails(p)
BuildStep ==
  \/ AcquireIndexLock \/ LockUnavailable \/ Discover \/ ModesBuilt \/ BuildFails
  \/ PromoteReads \/ PromoteWrites \/ MarkWatchPhase \/ ReleaseIndexLock \/ Settle
  \/ \E p \in Paths : ReadFile(p)
RivalStep == RivalReads \/ RivalWrites

\* The event loop of the watch: it takes some step whenever it can.
EventLoop ==
  \/ \E p \in Paths : HandleEvent(p) \/ ApplyUpdates(p)
  \/ FlushPendingUpdates \/ RunBuild \/ BuildStep

Next ==
  \/ \E p \in Paths : FileChanges(p)
  \/ EventLoop \/ RequestShutdown \/ RivalAcquires \/ RivalStep \/ Wait

Spec     == Init /\ [][Next]_vars
FairSpec == Spec /\ WF_vars(EventLoop) /\ WF_vars(RivalStep)

-----------------------------------------------------------------------------
(* Properties. *)

BuildRecords ==
  [phase : Phases, status : {"ok", "aborted", "error"}, queued : BOOLEAN, attempt : Nat,
   toRead : Contents, manifest : Contents, content : Contents, skipped : SUBSET Paths,
   prior : Roots, releaseError : BOOLEAN]
Progress == {"none", "queued", "present", "removed", "absent", "done", "failed"}
AttemptRecords ==
  [number : Nat, success : Seq(Nat), failed : Seq(Nat), roots : SUBSET Nat,
   misfiled : SUBSET Nat]

\* Types; and the attempt manager never keeps more attempts than it says.
TypeOK ==
  /\ disk \in Contents /\ indexed \in Contents
  /\ writes \in Nat /\ faults \in Nat
  /\ tracked \in Contents /\ seen \in Contents
  /\ manifest \in Contents /\ bundle \in Contents
  /\ events \subseteq Paths /\ skipped \subseteq Paths /\ misled \subseteq Paths
  /\ pendingPaths \subseteq Paths /\ pendingUpdates \subseteq Paths
  /\ updating \in [Paths -> Progress]
  /\ timer \in BOOLEAN /\ pending \in BOOLEAN /\ shouldExit \in BOOLEAN
  /\ stranded \in BOOLEAN /\ unread \in BOOLEAN
  /\ build \in BuildRecords /\ attempts \in AttemptRecords
  /\ Len(attempts.success) <= KeepSuccess /\ Len(attempts.failed) <= KeepFailed
  /\ lock \in {"none", "watch", "rival", "leaked"}
  /\ rival \in [phase : {"idle", "promoting", "merging"}, promoted : Nat, prior : Roots]
  /\ current \in Roots

\* The index holds what is on disk, but for files it lacks because they could not be read,
\* and for entries set by a look at the file that failed or that a removal overtook.
IsCurrent ==
  \A p \in Paths : indexed[p] = disk[p] \/ p \in skipped \/ p \in misled

\* The ways in which the whole index may lag behind for good.
Excused == stranded \/ unread \/ shouldExit

\* When the watch is at rest the index holds what is on disk, file by file, whatever the
\* order of events, updates, timers, cached bundles and reads of a build, unless the
\* last build was stranded, current.json could not be read, or the watch is ending.
IndexCurrentAtRest == AtRest => IsCurrent \/ Excused

\* The attempt root current.json names for the watch is on disk: trimming never
\* removes it, unless it was promoted and then filed as a failure because
\* the closing of its build went wrong.
CurrentRootKept ==
  current["watch"] > 0 => current["watch"] \in attempts.roots \cup attempts.misfiled

\* A promotion keeps what the other process promoted, unless current.json
\* could not be read.
OtherRootsKept ==
  unread \/ current["rival"] = rival.promoted

\* Changes reach the promoted index, or are lost to it in one of the ways named: a file
\* that could not be read or looked at, a look overtaken by a removal, a stranded build,
\* an unreadable current.json, a shutdown.
ChangesIndexed == indexed # disk ~> IsCurrent \/ Excused

\* After a request to shut down the build in progress ends, and it has released
\* the index lock (or reported that it could not).
ShutdownEnds ==
  shouldExit ~> ~running /\ lock # "watch"

\* "updates are never forgotten by transient build errors" (watch.js:693-696).
EveryChangeIndexed == indexed # disk ~> indexed = disk \/ shouldExit
=============================================================================
