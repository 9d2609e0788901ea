--------------------------- MODULE WatchBuildProofs ---------------------------
(***************************************************************************)
(* Proofs about watch mode: types, the index lock, and the promotions of   *)
(* two processes that do not undo each other.                              *)
(***************************************************************************)
EXTENDS WatchBuild, SequenceTheorems, TLAPS

-----------------------------------------------------------------------------
(* Type correctness. *)

\* What trimAttempts leaves of a list of attempts: at most "keep" of them.
LEMMA TrimTyped ==
  ASSUME NEW list \in Seq(Nat), NEW keep \in Nat
  PROVE  /\ Trim(list, keep) \in Seq(Nat)
         /\ Len(Trim(list, keep)) <= keep
<1>1. CASE Len(list) <= keep
  BY <1>1 DEF Trim
<1>2. CASE ~(Len(list) <= keep)
  <2>1. /\ Len(list) \in Nat
        /\ Len(list) - keep + 1 \in 1..(Len(list) + 1)
    BY <1>2, LenProperties
  <2>2. /\ SubSeq(list, Len(list) - keep + 1, Len(list)) \in Seq(Nat)
        /\ Len(SubSeq(list, Len(list) - keep + 1, Len(list))) = keep
    BY <2>1, <1>2, SubSeqProperties
  <2> QED
    BY <2>2, <1>2 DEF Trim
<1> QED
  BY <1>1, <1>2

\* The attempt lists stay typed and trimmed when an outcome is recorded.
LEMMA OutcomeTyped ==
  ASSUME TypeOK
  PROVE  /\ RecordOutcome \in AttemptRecords
         /\ Len(RecordOutcome.success) <= KeepSuccess
         /\ Len(RecordOutcome.failed) <= KeepFailed
<1> DEFINE n == build.attempt
           success == IF Succeeded THEN Append(attempts.success, n) ELSE attempts.success
           failed  == IF Succeeded THEN attempts.failed ELSE Append(attempts.failed, n)
<1>1. /\ n \in Nat
      /\ attempts.success \in Seq(Nat) /\ attempts.failed \in Seq(Nat)
      /\ attempts.roots \in SUBSET Nat /\ attempts.misfiled \in SUBSET Nat
      /\ Len(attempts.success) <= KeepSuccess /\ Len(attempts.failed) <= KeepFailed
  BY DEF TypeOK, AttemptRecords, BuildRecords
<1>2. success \in Seq(Nat) /\ failed \in Seq(Nat)
  BY <1>1, AppendProperties
<1>3. KeepSuccess \in Nat /\ KeepFailed \in Nat
  BY DEF KeepSuccess, KeepFailed
<1>4. /\ Trim(success, KeepSuccess) \in Seq(Nat) /\ Trim(failed, KeepFailed) \in Seq(Nat)
      /\ Len(Trim(success, KeepSuccess)) <= KeepSuccess
      /\ Len(Trim(failed, KeepFailed)) <= KeepFailed
  BY <1>2, <1>3, TrimTyped
<1> HIDE DEF success, failed
<1>5. CASE n = 0
  BY <1>5, <1>1 DEF RecordOutcome, TypeOK
<1>6. CASE n # 0
  <2> DEFINE gone == Trimmed(success, KeepSuccess) \cup Trimmed(failed, KeepFailed)
             misfiled == IF build.status # "ok" /\ current["watch"] = n
                           THEN attempts.misfiled \cup {n} ELSE attempts.misfiled
  <2>1. RecordOutcome =
          [attempts EXCEPT !.success = Trim(success, KeepSuccess),
                           !.failed = Trim(failed, KeepFailed),
                           !.roots = @ \ gone, !.misfiled = misfiled]
    BY <1>6 DEF RecordOutcome, success, failed
  <2>2. attempts.roots \ gone \in SUBSET Nat /\ misfiled \in SUBSET Nat
    BY <1>1
  <2> HIDE DEF gone, misfiled
  <2> QED
    BY <2>1, <2>2, <1>4 DEF TypeOK, AttemptRecords
<1> QED
  BY <1>5, <1>6


\* No build in progress is a build record too.
LEMMA NoBuildTyped == NoBuild \in BuildRecords
BY DEF NoBuild, BuildRecords, Phases, Contents, Nothing, Roots, NoRoot, Builders

\* A build that ends keeps its attempt and has forgotten what it read.
LEMMA EndsWithTyped ==
  ASSUME TypeOK, NEW status \in {"ok", "aborted", "error"}
  PROVE  /\ EndsWith(status) \in BuildRecords
         /\ EndsWith(status).phase = "closing" /\ EndsWith(status).status = status
         /\ EndsWith(status).attempt = build.attempt
         /\ EndsWith(status).manifest = Nothing /\ EndsWith(status).toRead = Nothing
<1>1. build.queued \in BOOLEAN /\ build.attempt \in Nat
  BY DEF TypeOK, BuildRecords
<1>2. EndsWith(status) =
        [NoBuild EXCEPT !.phase = "closing", !.status = status, !.queued = build.queued,
                        !.attempt = build.attempt]
  BY DEF EndsWith, EndsIn
<1>3. /\ EndsWith(status).phase = "closing" /\ EndsWith(status).status = status
      /\ EndsWith(status).attempt = build.attempt
      /\ EndsWith(status).manifest = Nothing /\ EndsWith(status).toRead = Nothing
  BY <1>2 DEF NoBuild
<1>4. "closing" \in Phases
  BY DEF Phases
<1>5. EndsWith(status) \in BuildRecords
  <2> DEFINE queued == build.queued
             attempt == build.attempt
  <2>1. EndsWith(status) =
          [NoBuild EXCEPT !.phase = "closing", !.status = status, !.queued = queued,
                          !.attempt = attempt]
    BY <1>2
  <2> HIDE DEF queued, attempt
  <2>2. queued \in BOOLEAN /\ attempt \in Nat
    BY <1>1 DEF queued, attempt
  <2> QED
    BY <2>1, <2>2, <1>4, NoBuildTyped DEF BuildRecords
<1> QED
  BY <1>3, <1>5

\* From one await to the next a build changes its phase only.
LEMMA ToTyped ==
  ASSUME TypeOK, NEW phase \in Phases
  PROVE  /\ To(phase) \in BuildRecords /\ To(phase).phase = phase
         /\ To(phase).status = build.status /\ To(phase).attempt = build.attempt
         /\ To(phase).content = build.content /\ To(phase).skipped = build.skipped
         /\ To(phase).manifest = build.manifest /\ To(phase).toRead = build.toRead
BY DEF To, TypeOK, BuildRecords

\* The end of an update, and of its batch, is typed.
LEMMA EndsTyped ==
  ASSUME TypeOK, NEW p \in Paths, NEW outcome \in {"done", "failed"}, Ends(p, outcome)
  PROVE  updating' \in [Paths -> Progress] /\ pendingUpdates' \subseteq Paths
BY DEF TypeOK, Ends, Progress

\* What a build has after it has read a file: a bundle with the stat of the entry, the
\* content of the file, or nothing where the file is gone or could not be read.
LEMMA FileRead ==
  ASSUME TypeOK, NEW p \in Paths, ReadFile(p)
  PROVE  /\ build' \in BuildRecords /\ bundle' \in Contents
         /\ build'.phase = "reading" /\ build'.status = build.status
         /\ build'.attempt = build.attempt
         /\ build'.toRead = [build.toRead EXCEPT ![p] = 0]
         /\ build.skipped \subseteq build'.skipped
         /\ \A q \in Paths \ {p} : /\ build'.content[q] = build.content[q]
                                  /\ build'.manifest[q] = build.manifest[q]
                                  /\ bundle'[q] = bundle[q]
         /\ \/ /\ build.manifest[p] = build.toRead[p] /\ build'.content[p] = bundle[p]
               /\ build'.manifest[p] = build.manifest[p] /\ bundle'[p] = bundle[p]
            \/ /\ disk[p] # 0 /\ build'.content[p] = disk[p]
               /\ build'.manifest[p] = build.toRead[p] /\ bundle'[p] = disk[p]
            \/ /\ disk[p] = 0 \/ p \in build'.skipped
               /\ build'.content[p] = 0
               /\ build'.manifest[p] = build.manifest[p] /\ bundle'[p] = bundle[p]
<1>0. /\ build \in BuildRecords /\ build.toRead \in Contents /\ build.content \in Contents
      /\ build.manifest \in Contents /\ build.skipped \in SUBSET Paths
      /\ build.manifest[p] \in Nat /\ build.toRead[p] \in Nat /\ disk[p] \in Nat
      /\ bundle[p] \in Nat /\ bundle \in Contents /\ build.phase = "reading"
  BY DEF TypeOK, BuildRecords, Contents, ReadFile
<1> DEFINE toRead == [build.toRead EXCEPT ![p] = 0]
           Result(content, manifests, missing) ==
             [build EXCEPT !.toRead = toRead, !.content = [build.content EXCEPT ![p] = content],
                           !.manifest = manifests, !.skipped = missing]
           Fits(content, manifests, missing) ==
             /\ build' \in BuildRecords
             /\ build'.phase = "reading" /\ build'.status = build.status
             /\ build'.attempt = build.attempt /\ build'.toRead = toRead
             /\ build'.content[p] = content /\ build'.manifest = manifests
             /\ build'.skipped = missing
             /\ \A q \in Paths \ {p} : build'.content[q] = build.content[q]
<1>1. ASSUME NEW content \in Nat, NEW manifests \in Contents, NEW missing \in SUBSET Paths,
             build' = Result(content, manifests, missing)
      PROVE  Fits(content, manifests, missing)
  <2> DEFINE contents == [build.content EXCEPT ![p] = content]
  <2>1. toRead \in Contents /\ contents \in Contents /\ contents[p] = content
        /\ \A q \in Paths \ {p} : contents[q] = build.content[q]
    BY <1>0 DEF Contents
  <2>2. build' = [build EXCEPT !.toRead = toRead, !.content = contents,
                               !.manifest = manifests, !.skipped = missing]
    BY <1>1
  <2> HIDE DEF toRead, contents, Result
  <2>3. build' \in BuildRecords
    BY <2>1, <2>2, <1>0 DEF BuildRecords
  <2>4. /\ build'.phase = build.phase /\ build'.status = build.status
        /\ build'.attempt = build.attempt /\ build'.toRead = toRead
        /\ build'.content = contents /\ build'.manifest = manifests
        /\ build'.skipped = missing
    BY <2>2, <1>0 DEF BuildRecords
  <2> QED
    BY <2>1, <2>3, <2>4, <1>0
<1>2. CASE ServeBundle(p)
  <2>1. build' = Result(bundle[p], build.manifest, build.skipped)
    BY <1>2, <1>0 DEF ServeBundle, Reads, BuildRecords
  <2>2. bundle' = bundle /\ build.manifest[p] = build.toRead[p]
    BY <1>2 DEF ServeBundle
  <2> HIDE DEF Result, Fits
  <2>3. Fits(bundle[p], build.manifest, build.skipped)
    BY <2>1, <1>0, <1>1
  <2> USE DEF Fits
  <2> QED
    BY <2>2, <2>3, <1>0
<1>3. CASE OpenFile(p)
  <2> DEFINE manifests == [build.manifest EXCEPT ![p] = build.toRead[p]]
  <2>1. build' = Result(disk[p], manifests, build.skipped)
    BY <1>3, <1>0 DEF OpenFile, Reads, BuildRecords
  <2>2. /\ manifests \in Contents /\ manifests[p] = build.toRead[p]
        /\ \A q \in Paths \ {p} : manifests[q] = build.manifest[q]
    BY <1>0 DEF Contents
  <2>3. /\ bundle' \in Contents /\ bundle'[p] = disk[p] /\ disk[p] # 0
        /\ \A q \in Paths \ {p} : bundle'[q] = bundle[q]
    BY <1>0, <1>3 DEF OpenFile, Contents
  <2> HIDE DEF manifests, Result, Fits
  <2>4. Fits(disk[p], manifests, build.skipped)
    BY <2>1, <2>2, <1>0, <1>1
  <2> USE DEF Fits
  <2> QED
    BY <2>2, <2>3, <2>4, <1>0
<1>4. CASE SkipFile(p)
  <2> DEFINE missing == IF disk[p] = 0 THEN build.skipped ELSE build.skipped \cup {p}
  <2>1. build' = Result(0, build.manifest, missing)
    BY <1>4, <1>0 DEF SkipFile, Reads, BuildRecords
  <2>2. missing \in SUBSET Paths /\ build.skipped \subseteq missing
        /\ (disk[p] = 0 \/ p \in missing) /\ bundle' = bundle
    BY <1>0, <1>4 DEF SkipFile
  <2> HIDE DEF missing, Result, Fits
  <2>3. Fits(0, build.manifest, missing)
    BY <2>1, <2>2, <1>0, <1>1
  <2> USE DEF Fits
  <2> QED
    BY <2>2, <2>3, <1>0
<1> QED
  BY <1>2, <1>3, <1>4 DEF ReadFile

\* The watch never leaves its types, and keeps no more attempts than it says.
THEOREM WatchTypeCorrect == Spec => []TypeOK
<1>1. Init => TypeOK
  <2> SUFFICES ASSUME Init PROVE TypeOK
    OBVIOUS
  <2>1. build \in BuildRecords
    BY NoBuildTyped DEF Init
  <2>2. attempts \in AttemptRecords /\ attempts.success = <<>> /\ attempts.failed = <<>>
    BY DEF Init, AttemptRecords
  <2>3. current \in Roots /\ rival.prior \in Roots /\ disk \in Contents /\ indexed \in Contents
    BY DEF Init, Roots, NoRoot, Builders, Contents
  <2>4. Len(attempts.success) <= KeepSuccess /\ Len(attempts.failed) <= KeepFailed
    BY <2>2 DEF KeepSuccess, KeepFailed
  <2>5. rival \in [phase : {"idle", "promoting", "merging"}, promoted : Nat, prior : Roots]
    BY <2>3 DEF Init
  <2>6. /\ updating \in [Paths -> Progress]
        /\ tracked \in Contents /\ seen \in Contents /\ manifest \in Contents /\ bundle \in Contents
    BY DEF Init, Progress, Contents, Nothing
  <2> QED
    BY <2>1, <2>2, <2>3, <2>4, <2>5, <2>6 DEF Init, TypeOK
<1>2. TypeOK /\ [Next]_vars => TypeOK'
  <2> SUFFICES ASSUME TypeOK, [Next]_vars PROVE TypeOK'
    OBVIOUS
  <2> DEFINE none == [b \in Builders |-> NoRoot]
  <2>0. /\ Phases = {"idle", "locking", "discovering", "reading", "promoting", "merging",
                     "closing", "releasing", "settling"}
        /\ none \in Roots /\ Nothing \in Contents /\ tracked \in Contents
        /\ disk \in Contents /\ manifest \in Contents /\ bundle \in Contents
        /\ build.attempt \in Nat /\ build.toRead \in Contents /\ build.manifest \in Contents
        /\ build.content \in Contents /\ build.skipped \in SUBSET Paths /\ build.prior \in Roots
        /\ faults \in Nat /\ unread \in BOOLEAN /\ build \in BuildRecords
        /\ current \in Roots /\ indexed \in Contents /\ attempts \in AttemptRecords
        /\ rival \in [phase : {"idle", "promoting", "merging"}, promoted : Nat, prior : Roots]
    BY DEF TypeOK, Phases, Roots, Contents, Nothing, NoRoot, BuildRecords, AttemptRecords
  <2> HIDE DEF none
  <2>1. ASSUME NEW p \in Paths, FileChanges(p) PROVE TypeOK'
    BY <2>1 DEF TypeOK, FileChanges, queueVars, cacheVars, indexVars, Contents
  <2>2. ASSUME NEW p \in Paths, HandleEvent(p) PROVE TypeOK'
    <3>1. CASE RecordAddOrChange(p)
      BY <3>1 DEF TypeOK, RecordAddOrChange, fileVars, cacheVars, indexVars
    <3>2. CASE RecordRemove(p)
      BY <3>2 DEF TypeOK, RecordRemove, fileVars, cacheVars, indexVars, Contents
    <3> QED
      BY <2>2, <3>1, <3>2 DEF HandleEvent
  <2>3. ASSUME NEW p \in Paths, ApplyUpdates(p) PROVE TypeOK'
    <3>1. CASE ClassifyPath(p)
      <4>1. PICK stat \in {disk[p], 0} :
              /\ misled' \in {misled \ {p}, misled \cup {p}} /\ faults' \in {faults, faults + 1}
              /\ seen' = [seen EXCEPT ![p] = stat]
              /\ updating' = [updating EXCEPT ![p] =
                   IF stat # 0 THEN "present" ELSE IF tracked[p] # 0 THEN "removed" ELSE "absent"]
        BY <3>1 DEF ClassifyPath, Fault
      <4>2. stat \in Nat
        BY <2>0 DEF Contents
      <4>3. updating' \in [Paths -> Progress] /\ seen' \in Contents
        BY <4>1, <4>2 DEF TypeOK, Contents, Progress
      <4>4. misled' \subseteq Paths /\ faults' \in Nat
        BY <4>1, <2>0 DEF TypeOK
      <4> QED
        BY <3>1, <4>3, <4>4 DEF TypeOK, ClassifyPath, fileVars, cacheVars, indexVars
    <3>2. CASE UpdateTrackedEntry(p)
      <4>1. updating' \in [Paths -> Progress] /\ pendingUpdates' \subseteq Paths
        BY <3>2, EndsTyped DEF UpdateTrackedEntry
      <4>2. tracked' \in Contents /\ seen' \in Contents
        BY <3>2 DEF UpdateTrackedEntry, TypeOK, Contents
      <4> QED
        BY <3>2, <4>1, <4>2 DEF TypeOK, UpdateTrackedEntry, fileVars, cacheVars, indexVars
    <3>3. CASE UpdateFails(p)
      <4>1. updating' \in [Paths -> Progress] /\ pendingUpdates' \subseteq Paths
        BY <3>3, EndsTyped DEF UpdateFails
      <4> QED
        BY <3>3, <4>1 DEF TypeOK, UpdateFails, Fault, fileVars, cacheVars, indexVars
    <3> QED
      BY <2>3, <3>1, <3>2, <3>3 DEF ApplyUpdates
  <2>4. ASSUME FlushPendingUpdates PROVE TypeOK'
    BY <2>4 DEF TypeOK, FlushPendingUpdates, Progress, fileVars, cacheVars, indexVars
  <2>5. ASSUME RunBuild PROVE TypeOK'
    <3> DEFINE queued == pendingPaths # {}
    <3>0. build' \in {build, [NoBuild EXCEPT !.phase = "locking", !.queued = queued]}
      BY <2>5 DEF RunBuild
    <3>a. queued \in BOOLEAN
      OBVIOUS
    <3> HIDE DEF queued
    <3>1. build' \in BuildRecords
      BY <3>0, <3>a, <2>0, NoBuildTyped DEF BuildRecords
    <3> QED
      BY <2>5, <3>1 DEF TypeOK, RunBuild, fileVars, queueVars, cacheVars, indexVars
  <2>6. ASSUME AcquireIndexLock PROVE TypeOK'
    <3> DEFINE n == attempts.number + 1
    <3>0. n \in Nat /\ attempts.roots \cup {n} \in SUBSET Nat
      <4>1. attempts.number \in Nat /\ attempts.roots \in SUBSET Nat
        BY <2>0 DEF AttemptRecords
      <4> QED
        BY <4>1
    <3>a. \/ build' = EndsWith("aborted") /\ attempts' = attempts
          \/ /\ build' = [To("discovering") EXCEPT !.attempt = n]
             /\ attempts' = [attempts EXCEPT !.number = n, !.roots = attempts.roots \cup {n}]
      BY <2>6 DEF AcquireIndexLock
    <3> HIDE DEF n
    <3>1. build' \in BuildRecords
      BY <3>a, <3>0, <2>0, EndsWithTyped DEF To, BuildRecords
    <3>2. /\ attempts' \in AttemptRecords
          /\ attempts'.success = attempts.success /\ attempts'.failed = attempts.failed
      BY <3>a, <3>0, <2>0 DEF AttemptRecords
    <3> QED
      BY <2>6, <3>1, <3>2 DEF TypeOK, AcquireIndexLock, fileVars, queueVars, cacheVars, indexVars
  <2>7. ASSUME LockUnavailable PROVE TypeOK'
    BY <2>7, NoBuildTyped DEF TypeOK, LockUnavailable, fileVars, queueVars, cacheVars, indexVars
  <2>8. ASSUME Discover PROVE TypeOK'
    <3> DEFINE pruned == [p \in Paths |-> IF tracked[p] # 0 THEN manifest[p] ELSE 0]
    <3>1. pruned \in Contents
      BY <2>0 DEF Contents
    <3>2. \/ build' = EndsWith("aborted")
          \/ build' = [To("reading") EXCEPT !.toRead = tracked, !.manifest = pruned]
      BY <2>8 DEF Discover
    <3> HIDE DEF pruned
    <3>3. build' \in BuildRecords
      <4>1. To("reading") \in BuildRecords /\ EndsWith("aborted") \in BuildRecords
        BY <2>0, ToTyped, EndsWithTyped
      <4> QED
        BY <4>1, <3>1, <3>2, <2>0 DEF BuildRecords
    <3> QED
      BY <2>8, <3>3 DEF TypeOK, Discover, fileVars, queueVars, cacheVars, indexVars
  <2>9. ASSUME ModesBuilt PROVE TypeOK'
    <3>1. build' \in BuildRecords
      BY <2>9, <2>0, EndsWithTyped DEF ModesBuilt, To, BuildRecords
    <3>2. manifest' \in Contents /\ faults' \in Nat
      BY <2>9, <2>0 DEF ModesBuilt, Fault
    <3> QED
      BY <2>9, <3>1, <3>2 DEF TypeOK, ModesBuilt, fileVars, queueVars, indexVars
  <2>10. ASSUME BuildFails PROVE TypeOK'
    <3>1. build' \in BuildRecords
      BY <2>10, EndsWithTyped DEF BuildFails
    <3>2. manifest' \in Contents /\ faults' \in Nat
      BY <2>10, <2>0 DEF BuildFails, Fault
    <3> QED
      BY <2>10, <3>1, <3>2 DEF TypeOK, BuildFails, fileVars, queueVars, indexVars
  <2>11. ASSUME PromoteReads PROVE TypeOK'
    <3>1. PICK prior \in {current, none} :
            PriorRoots(prior) /\ build' = [To("merging") EXCEPT !.prior = prior]
      BY <2>11 DEF PromoteReads, none
    <3>2. build' \in BuildRecords
      BY <3>1, <2>0 DEF To, BuildRecords
    <3>3. /\ faults' = faults \/ faults' = faults + 1
          /\ unread' = unread \/ unread' = TRUE
      BY <3>1 DEF PriorRoots, Fault
    <3>4. faults' \in Nat /\ unread' \in BOOLEAN
      <4>1. faults \in Nat /\ unread \in BOOLEAN
        BY <2>0
      <4>2. faults' \in Nat
        BY <3>3, <4>1
      <4>3. unread' \in BOOLEAN
        BY <3>3, <4>1
      <4> QED
        BY <4>2, <4>3
    <3> QED
      BY <2>11, <3>2, <3>4 DEF TypeOK, PromoteReads, fileVars, queueVars, cacheVars
  <2>12. ASSUME PromoteWrites PROVE TypeOK'
    <3>1. build' \in BuildRecords
      BY <2>12, EndsWithTyped DEF PromoteWrites
    <3>2. current' \in Roots /\ indexed' \in Contents /\ skipped' \subseteq Paths
      BY <2>12, <2>0 DEF PromoteWrites, PromotedRoots, Roots
    <3> QED
      BY <2>12, <3>1, <3>2 DEF TypeOK, PromoteWrites, fileVars, queueVars, cacheVars
  <2>13. ASSUME MarkWatchPhase PROVE TypeOK'
    <3>1. build' \in BuildRecords
      <4>1. To("releasing") \in BuildRecords
        BY <2>0, ToTyped
      <4> QED
        BY <2>13, <4>1 DEF MarkWatchPhase, BuildRecords
    <3> QED
      BY <2>13, <3>1 DEF TypeOK, MarkWatchPhase, fileVars, queueVars, cacheVars, indexVars, Fault
  <2>14. ASSUME ReleaseIndexLock PROVE TypeOK'
    <3>1. build' \in BuildRecords
      <4>1. To("settling") \in BuildRecords
        BY <2>0, ToTyped
      <4> QED
        BY <2>14, <4>1 DEF ReleaseIndexLock, BuildRecords
    <3> QED
      BY <2>14, <3>1 DEF TypeOK, ReleaseIndexLock, fileVars, queueVars, cacheVars, indexVars, Fault
  <2>15. ASSUME Settle PROVE TypeOK'
    <3>1. /\ attempts' \in AttemptRecords
          /\ Len(attempts'.success) <= KeepSuccess /\ Len(attempts'.failed) <= KeepFailed
      BY <2>15, OutcomeTyped DEF Settle
    <3>2. build' \in BuildRecords
      BY <2>15, NoBuildTyped DEF Settle
    <3>3. /\ pendingPaths' \subseteq Paths
          /\ timer' \in BOOLEAN /\ pending' \in BOOLEAN /\ stranded' \in BOOLEAN
      BY <2>15 DEF Settle, TypeOK
    <3> QED
      BY <2>15, <3>1, <3>2, <3>3 DEF TypeOK, Settle, fileVars, cacheVars, indexVars
  <2>16. ASSUME NEW p \in Paths, ReadFile(p) PROVE TypeOK'
    <3>1. build' \in BuildRecords /\ bundle' \in Contents
      BY <2>16, FileRead
    <3>2. faults' \in Nat
      BY <2>16, <2>0 DEF ReadFile, ServeBundle, OpenFile, SkipFile, Fault
    <3> QED
      BY <2>16, <3>1, <3>2 DEF TypeOK, ReadFile, fileVars, queueVars, indexVars
  <2>17. ASSUME RequestShutdown PROVE TypeOK'
    BY <2>17 DEF TypeOK, RequestShutdown, fileVars, queueVars, cacheVars, indexVars
  <2>18. ASSUME RivalAcquires PROVE TypeOK'
    BY <2>18 DEF TypeOK, RivalAcquires, fileVars, queueVars, cacheVars
  <2>19. ASSUME RivalReads PROVE TypeOK'
    <3>1. PICK prior \in {current, none} :
            PriorRoots(prior) /\ rival' = [rival EXCEPT !.phase = "merging", !.prior = prior]
      BY <2>19 DEF RivalReads, none
    <3>2. rival' \in [phase : {"idle", "promoting", "merging"}, promoted : Nat, prior : Roots]
      BY <3>1, <2>0
    <3>3. /\ faults' = faults \/ faults' = faults + 1
          /\ unread' = unread \/ unread' = TRUE
      BY <3>1 DEF PriorRoots, Fault
    <3>4. faults' \in Nat /\ unread' \in BOOLEAN
      <4>1. faults \in Nat /\ unread \in BOOLEAN
        BY <2>0
      <4>2. faults' \in Nat
        BY <3>3, <4>1
      <4>3. unread' \in BOOLEAN
        BY <3>3, <4>1
      <4> QED
        BY <4>2, <4>3
    <3> QED
      BY <2>19, <3>2, <3>4 DEF TypeOK, RivalReads, fileVars, queueVars, cacheVars
  <2>20. ASSUME RivalWrites PROVE TypeOK'
    <3>0. rival.prior \in Roots /\ rival.promoted + 1 \in Nat \cup {NoRoot}
      <4>1. rival.prior \in Roots /\ rival.promoted \in Nat
        BY <2>0
      <4> QED
        BY <4>1
    <3>a. current' = [rival.prior EXCEPT !["rival"] = rival.promoted + 1]
      BY <2>20 DEF RivalWrites, PromotedRoots
    <3>b. indexed' \in {indexed, Nothing}
      BY <2>20 DEF RivalWrites
    <3>1. current' \in Roots /\ indexed' \in Contents
      BY <3>0, <3>a, <3>b, <2>0 DEF Roots
    <3>2. rival' \in [phase : {"idle", "promoting", "merging"}, promoted : Nat, prior : Roots]
      BY <2>20, <2>0 DEF RivalWrites, none
    <3> QED
      BY <2>20, <3>1, <3>2 DEF TypeOK, RivalWrites, fileVars, queueVars, cacheVars
  <2>21. ASSUME UNCHANGED vars PROVE TypeOK'
    BY <2>21 DEF TypeOK, vars, fileVars, queueVars, cacheVars, indexVars
  <2> QED
    BY <2>1, <2>2, <2>3, <2>4, <2>5, <2>6, <2>7, <2>8, <2>9, <2>10, <2>11, <2>12, <2>13,
       <2>14, <2>15, <2>16, <2>17, <2>18, <2>19, <2>20, <2>21
       DEF Next, EventLoop, BuildStep, RivalStep, Wait
<1> QED
  BY <1>1, <1>2, PTL DEF Spec

-----------------------------------------------------------------------------
(* The steps of a build, by what the invariants below need of them. *)

\* Steps that touch neither the build, the attempts, the lock nor current.json.
others == <<attempts, lock, rival, current, unread>>
Aside ==
  \/ \E p \in Paths : FileChanges(p) \/ HandleEvent(p) \/ ApplyUpdates(p)
  \/ FlushPendingUpdates \/ RequestShutdown \/ Wait \/ UNCHANGED vars
  \/ RunBuild /\ running

\* Events, updates and requests to shut down leave the build alone.
LEMMA AsideLeavesRest == Aside => build' = build /\ UNCHANGED others
BY DEF Aside, others, FileChanges, HandleEvent, RecordAddOrChange, RecordRemove, ApplyUpdates,
       ClassifyPath, UpdateTrackedEntry, UpdateFails, FlushPendingUpdates, RequestShutdown, Wait, RunBuild,
       vars, indexVars

\* A build that starts or ends has no attempt.
Empties(phase) == build'.phase = phase /\ build'.attempt = 0 /\ build'.status = "ok"

\* A step of a build from one of "before" to one of "after", with the same attempt.
Moves(before, after) ==
  build.phase \in before /\ build'.phase \in after /\ build'.attempt = build.attempt

BuildStarts  == build.phase = "idle" /\ Empties("locking") /\ UNCHANGED others
BuildGivesUp == build.phase = "locking" /\ Empties("idle") /\ UNCHANGED others
BuildAborts  ==
  /\ Moves({"locking"}, {"closing"}) /\ build'.status # "ok"
  /\ lock = "none" /\ lock' = "watch" /\ UNCHANGED <<attempts, rival, current, unread>>
BuildGoes ==
  /\ build.phase = "locking" /\ build'.phase = "discovering" /\ build'.status = build.status
  /\ build'.attempt = attempts.number + 1
  /\ attempts'.number = attempts.number + 1
  /\ attempts'.roots = attempts.roots \cup {attempts.number + 1}
  /\ attempts'.success = attempts.success /\ attempts'.failed = attempts.failed
  /\ attempts'.misfiled = attempts.misfiled
  /\ lock = "none" /\ lock' = "watch" /\ UNCHANGED <<rival, current, unread>>
BuildWorks ==
  /\ \/ Moves({"discovering", "reading"}, {"reading", "promoting"}) /\ build'.status = build.status
     \/ /\ Moves({"discovering", "reading", "promoting", "merging"}, {"closing"})
        /\ build'.status # "ok"
  /\ UNCHANGED others
BuildPromotes ==
  /\ Moves({"promoting"}, {"merging"}) /\ build'.status = build.status
  /\ unread' = TRUE \/ (build'.prior = current /\ unread' = unread)
  /\ UNCHANGED <<attempts, lock, rival, current>>
BuildCloses ==
  /\ \/ Moves({"closing"}, {"releasing"}) /\ lock' = lock
     \/ Moves({"releasing"}, {"settling"}) /\ lock' \in {"none", "leaked"}
  /\ build'.status \in {build.status, "error"}
  /\ UNCHANGED <<attempts, rival, current, unread>>

\* Every step is one of these.
LEMMA StepCases ==
  ASSUME TypeOK, [Next]_vars
  PROVE  \/ Aside \/ BuildStarts \/ BuildGivesUp \/ BuildAborts \/ BuildGoes \/ BuildWorks
         \/ BuildPromotes \/ PromoteWrites \/ BuildCloses \/ Settle
         \/ RivalAcquires \/ RivalReads \/ RivalWrites
<1>0. /\ build \in BuildRecords /\ attempts \in AttemptRecords
      /\ NoBuild.phase = "idle" /\ NoBuild.attempt = 0 /\ NoBuild.status = "ok"
  BY DEF TypeOK, NoBuild
<1>1. RunBuild => Aside \/ BuildStarts
  <2> SUFFICES ASSUME RunBuild, ~running PROVE BuildStarts
    BY DEF Aside
  <2> DEFINE queued == pendingPaths # {}
  <2>1. build' = [NoBuild EXCEPT !.phase = "locking", !.queued = queued] /\ UNCHANGED others
    BY DEF RunBuild, others, indexVars
  <2> HIDE DEF queued
  <2>2. Empties("locking")
    BY <2>1 DEF Empties, NoBuild
  <2> QED
    BY <2>1, <2>2 DEF BuildStarts, running
<1>2. AcquireIndexLock => BuildAborts \/ BuildGoes
  <2> SUFFICES ASSUME AcquireIndexLock PROVE BuildAborts \/ BuildGoes
    OBVIOUS
  <2>0. /\ build.phase = "locking" /\ lock = "none" /\ lock' = "watch"
        /\ UNCHANGED <<rival, current, unread>>
    BY DEF AcquireIndexLock, indexVars
  <2>1. CASE shouldExit
    <3>1. build' = EndsWith("aborted") /\ attempts' = attempts
      BY <2>1 DEF AcquireIndexLock
    <3> QED
      BY <2>0, <3>1, <1>0, EndsWithTyped DEF BuildAborts, Moves
  <2>2. CASE ~shouldExit
    <3> DEFINE n == attempts.number + 1
    <3>1. /\ build' = [To("discovering") EXCEPT !.attempt = n]
          /\ attempts' = [attempts EXCEPT !.number = n, !.roots = attempts.roots \cup {n}]
      BY <2>2 DEF AcquireIndexLock
    <3> HIDE DEF n
    <3>2. /\ build'.phase = "discovering" /\ build'.status = build.status
          /\ build'.attempt = n
      BY <3>1, <1>0 DEF To, BuildRecords
    <3>3. /\ attempts'.number = n /\ attempts'.roots = attempts.roots \cup {n}
          /\ attempts'.success = attempts.success /\ attempts'.failed = attempts.failed
          /\ attempts'.misfiled = attempts.misfiled
      BY <3>1, <1>0 DEF AttemptRecords
    <3> QED
      BY <2>0, <3>2, <3>3 DEF BuildGoes, n
  <2> QED
    BY <2>1, <2>2
<1>3. LockUnavailable => BuildGivesUp
  BY <1>0 DEF LockUnavailable, BuildGivesUp, Empties, others, indexVars
<1>4. ASSUME Discover \/ ModesBuilt \/ BuildFails \/ (\E p \in Paths : ReadFile(p))
      PROVE  BuildWorks
  <2>1. UNCHANGED others
    BY <1>4 DEF Discover, ModesBuilt, BuildFails, ReadFile, others, indexVars
  <2>2. CASE \E p \in Paths : ReadFile(p)
    <3>1. Moves({"reading"}, {"reading"}) /\ build'.status = build.status
      BY <2>2, FileRead DEF ReadFile, Moves
    <3> QED
      BY <2>1, <3>1 DEF BuildWorks, Moves
  <2>3. CASE Discover
    <3>1. \/ Moves({"discovering"}, {"closing"}) /\ build'.status # "ok"
          \/ Moves({"discovering"}, {"reading"}) /\ build'.status = build.status
      BY <2>3, <1>0, EndsWithTyped DEF Discover, Moves, To, BuildRecords
    <3> QED
      BY <2>1, <3>1 DEF BuildWorks, Moves
  <2>4. CASE ModesBuilt
    <3>1. \/ Moves({"reading"}, {"closing"}) /\ build'.status # "ok"
          \/ Moves({"reading"}, {"promoting"}) /\ build'.status = build.status
      BY <2>4, <1>0, EndsWithTyped DEF ModesBuilt, Moves, To, BuildRecords
    <3> QED
      BY <2>1, <3>1 DEF BuildWorks, Moves
  <2>5. CASE BuildFails
    <3>1. Moves({"discovering", "reading", "promoting", "merging"}, {"closing"})
          /\ build'.status # "ok"
      BY <2>5, EndsWithTyped DEF BuildFails, Moves
    <3> QED
      BY <2>1, <3>1 DEF BuildWorks
  <2> QED
    BY <1>4, <2>2, <2>3, <2>4, <2>5
<1>5. PromoteReads => BuildPromotes
  <2> SUFFICES ASSUME PromoteReads PROVE BuildPromotes
    OBVIOUS
  <2>1. PICK prior : PriorRoots(prior) /\ build' = [To("merging") EXCEPT !.prior = prior]
    BY DEF PromoteReads
  <2>2. Moves({"promoting"}, {"merging"}) /\ build'.status = build.status /\ build'.prior = prior
    BY <2>1, <1>0 DEF PromoteReads, Moves, To, BuildRecords
  <2>3. unread' = TRUE \/ (prior = current /\ unread' = unread)
    BY <2>1 DEF PriorRoots
  <2> QED
    BY <2>2, <2>3 DEF PromoteReads, BuildPromotes
<1>6. MarkWatchPhase => BuildCloses
  <2> SUFFICES ASSUME MarkWatchPhase PROVE BuildCloses
    OBVIOUS
  <2>1. Moves({"closing"}, {"releasing"}) /\ build'.status \in {build.status, "error"}
    BY <1>0 DEF MarkWatchPhase, Moves, To, BuildRecords
  <2> QED
    BY <2>1 DEF MarkWatchPhase, BuildCloses, indexVars
<1>7. ReleaseIndexLock => BuildCloses
  <2> SUFFICES ASSUME ReleaseIndexLock PROVE BuildCloses
    OBVIOUS
  <2>1. Moves({"releasing"}, {"settling"}) /\ build'.status \in {build.status, "error"}
    BY <1>0 DEF ReleaseIndexLock, Moves, To, BuildRecords
  <2>2. lock' \in {"none", "leaked"} /\ UNCHANGED <<attempts, rival, current, unread>>
    BY DEF ReleaseIndexLock, indexVars
  <2> QED
    BY <2>1, <2>2 DEF BuildCloses
<1> QED
  BY <1>1, <1>2, <1>3, <1>4, <1>5, <1>6, <1>7
     DEF Next, EventLoop, BuildStep, RivalStep, Aside

-----------------------------------------------------------------------------
(* The index lock, and who may write current.json. *)

\* A build that has taken the index lock keeps it until it releases it; the rival
\* holds it for the whole of a promotion.
LockHeld ==
  /\ build.phase \in {"discovering", "reading", "promoting", "merging", "closing",
                      "releasing"} => lock = "watch"
  /\ rival.phase # "idle" => lock = "rival"

\* What a promotion has read still stands when it writes.
RivalRootsKnown ==
  unread \/ /\ current["rival"] = rival.promoted
            /\ build.phase = "merging" => build.prior["rival"] = rival.promoted
OwnRootKnown ==
  rival.phase = "merging" => rival.prior["watch"] \in {current["watch"], NoRoot}


\* Every step keeps the index lock with its holder.
LEMMA LockHeldStep ==
  ASSUME TypeOK, LockHeld, [Next]_vars
  PROVE  LockHeld'
<1> USE DEF LockHeld
<1>1. CASE Aside
  BY <1>1, AsideLeavesRest DEF others
<1>2. CASE BuildStarts \/ BuildGivesUp
  BY <1>2 DEF BuildStarts, BuildGivesUp, Empties, others
<1>3. CASE BuildAborts \/ BuildGoes
  BY <1>3 DEF BuildAborts, BuildGoes, Moves
<1>4. CASE BuildWorks
  BY <1>4 DEF BuildWorks, Moves, others
<1>5. CASE BuildPromotes
  BY <1>5 DEF BuildPromotes, Moves
<1>6. CASE PromoteWrites
  <2>1. build.phase = "merging" /\ UNCHANGED <<lock, rival>>
    BY <1>6 DEF PromoteWrites
  <2> QED
    BY <2>1
<1>7. CASE BuildCloses
  BY <1>7 DEF BuildCloses, Moves
<1>8. CASE Settle
  <2>1. build'.phase = "idle" /\ UNCHANGED <<lock, rival>>
    BY <1>8 DEF Settle, NoBuild, indexVars
  <2> QED
    BY <2>1
<1>9. CASE RivalAcquires
  <2>1. lock = "none" /\ lock' = "rival" /\ build' = build
    BY <1>9 DEF RivalAcquires
  <2> QED
    BY <2>1
<1>10. CASE RivalReads
  <2>1. rival.phase = "promoting" /\ UNCHANGED <<build, lock>>
    BY <1>10 DEF RivalReads
  <2> QED
    BY <2>1
<1>11. CASE RivalWrites
  <2>1. rival.phase = "merging" /\ rival'.phase = "idle" /\ build' = build
    BY <1>11 DEF RivalWrites
  <2> QED
    BY <2>1
<1> QED
  BY StepCases, <1>1, <1>2, <1>3, <1>4, <1>5, <1>6, <1>7, <1>8, <1>9, <1>10, <1>11

\* The roots another process promoted are known to every promotion that writes.
LEMMA RivalRootsStep ==
  ASSUME TypeOK, LockHeld, RivalRootsKnown, [Next]_vars
  PROVE  RivalRootsKnown'
<1>1. CASE unread
  <2>1. unread'
    BY <1>1, StepCases, AsideLeavesRest
       DEF others, BuildStarts, BuildGivesUp, BuildAborts, BuildGoes, BuildWorks,
           BuildPromotes, PromoteWrites, BuildCloses, Settle, RivalAcquires, RivalReads,
           RivalWrites, PriorRoots, indexVars
  <2> QED
    BY <2>1 DEF RivalRootsKnown
<1>2. CASE unread'
  BY <1>2 DEF RivalRootsKnown
<1>3. CASE ~unread /\ ~unread'
  <2>0. /\ current["rival"] = rival.promoted
        /\ build.phase = "merging" => build.prior["rival"] = rival.promoted
    BY <1>3 DEF RivalRootsKnown
  <2> SUFFICES /\ current'["rival"] = rival'.promoted
               /\ build'.phase = "merging" => build'.prior["rival"] = rival'.promoted
    BY DEF RivalRootsKnown
  <2>1. CASE Aside
    BY <2>1, <2>0, AsideLeavesRest DEF others
  <2>2. CASE BuildStarts \/ BuildGivesUp \/ BuildWorks
    BY <2>2, <2>0 DEF BuildStarts, BuildGivesUp, Empties, BuildWorks, Moves, others
  <2>3. CASE BuildAborts \/ BuildGoes \/ BuildCloses
    BY <2>3, <2>0 DEF BuildAborts, BuildGoes, BuildCloses, Moves
  <2>4. CASE BuildPromotes
    BY <2>4, <2>0, <1>3 DEF BuildPromotes
  <2>5. CASE PromoteWrites
    <3>1. /\ current' = [build.prior EXCEPT !["watch"] = build.attempt]
          /\ build' = EndsWith("ok") /\ rival' = rival /\ build.phase = "merging"
      BY <2>5 DEF PromoteWrites, PromotedRoots
    <3>2. build'.phase = "closing"
      BY <3>1, EndsWithTyped
    <3>3. current'["rival"] = build.prior["rival"]
      BY <3>1 DEF TypeOK, BuildRecords, Roots, Builders
    <3> QED
      BY <3>1, <3>2, <3>3, <2>0
  <2>6. CASE Settle
    <3>1. build'.phase = "idle" /\ UNCHANGED <<current, rival>>
      BY <2>6 DEF Settle, NoBuild, indexVars
    <3> QED
      BY <3>1, <2>0
  <2>7. CASE RivalAcquires \/ RivalReads
    <3>1. rival'.promoted = rival.promoted /\ UNCHANGED <<current, build>>
      BY <2>7 DEF RivalAcquires, RivalReads, TypeOK
    <3> QED
      BY <3>1, <2>0
  <2>8. CASE RivalWrites
    <3>1. /\ current' = [rival.prior EXCEPT !["rival"] = rival.promoted + 1]
          /\ rival'.promoted = rival.promoted + 1 /\ build' = build
          /\ rival.phase = "merging"
      BY <2>8 DEF RivalWrites, PromotedRoots
    <3>2. current'["rival"] = rival.promoted + 1
      BY <3>1 DEF TypeOK, Roots, Builders
    <3>3. build.phase # "merging"
      BY <3>1 DEF LockHeld
    <3> QED
      BY <3>1, <3>2, <3>3
  <2> QED
    BY StepCases, <2>1, <2>2, <2>3, <2>4, <2>5, <2>6, <2>7, <2>8
<1> QED
  BY <1>1, <1>2, <1>3 DEF TypeOK

\* A promotion keeps what the other process promoted, unless current.json could not
\* be read: promoteBuild reads it before it writes, and the index lock lets no
\* other promotion write between.
THEOREM OtherRootsSafe == Spec => []OtherRootsKept
<1>1. Init => LockHeld /\ RivalRootsKnown
  BY DEF Init, LockHeld, RivalRootsKnown, NoBuild, Builders
<1>2. TypeOK /\ LockHeld /\ RivalRootsKnown /\ [Next]_vars => LockHeld' /\ RivalRootsKnown'
  BY LockHeldStep, RivalRootsStep
<1>3. RivalRootsKnown => OtherRootsKept
  BY DEF RivalRootsKnown, OtherRootsKept
<1> QED
  BY WatchTypeCorrect, <1>1, <1>2, <1>3, PTL DEF Spec

-----------------------------------------------------------------------------
(* The attempts. *)

Elems(list) == {list[i] : i \in 1..Len(list)}

\* Numbers grow: what is filed is older than the attempt of the build in progress.
AttemptsNumbered ==
  /\ \A m \in Elems(attempts.success) \cup Elems(attempts.failed) :
       m <= attempts.number /\ (build.attempt # 0 => m < build.attempt)
  /\ Elems(attempts.success) \cap Elems(attempts.failed) = {}
  /\ build.attempt # 0 => build.attempt = attempts.number /\ build.attempt \in attempts.roots

\* How far a build has come, and what it has written to current.json.
AttemptPromoted ==
  /\ build.phase \in {"idle", "locking"} => build.attempt = 0
  /\ build.phase \in {"discovering", "reading", "promoting", "merging"} => build.attempt # 0
  /\ build.phase \in {"locking", "discovering", "reading", "promoting", "merging"} =>
       build.status = "ok"
  /\ build.phase \in {"closing", "releasing", "settling"} /\ build.status = "ok" =>
       build.attempt # 0 /\ current["watch"] \in {build.attempt, NoRoot}

\* The root current.json names is the attempt of the build in progress, the newest
\* of the good ones, or misfiled.
CurrentRootFiled ==
  current["watch"] > 0 =>
    \/ current["watch"] \in attempts.misfiled
    \/ current["watch"] = build.attempt
    \/ /\ attempts.success # <<>>
       /\ current["watch"] = attempts.success[Len(attempts.success)]
       /\ current["watch"] \in attempts.roots

\* The watch's own root of current.json, as every process knows it.
LEMMA OwnRootStep ==
  ASSUME TypeOK, LockHeld, OwnRootKnown, [Next]_vars
  PROVE  OwnRootKnown'
<1> USE DEF OwnRootKnown
<1>1. CASE Aside
  BY <1>1, AsideLeavesRest DEF others
<1>2. CASE BuildStarts \/ BuildGivesUp \/ BuildWorks
  BY <1>2 DEF BuildStarts, BuildGivesUp, BuildWorks, others
<1>3. CASE BuildAborts \/ BuildGoes \/ BuildCloses \/ BuildPromotes
  BY <1>3 DEF BuildAborts, BuildGoes, BuildCloses, BuildPromotes
<1>4. CASE PromoteWrites
  <2>1. build.phase = "merging" /\ rival' = rival
    BY <1>4 DEF PromoteWrites
  <2>2. rival.phase = "idle"
    BY <2>1 DEF LockHeld
  <2> QED
    BY <2>1, <2>2
<1>5. CASE Settle
  BY <1>5 DEF Settle, indexVars
<1>6. CASE RivalAcquires
  <2>1. rival'.phase = "promoting" /\ current' = current
    BY <1>6 DEF RivalAcquires, TypeOK
  <2> QED
    BY <2>1
<1>7. CASE RivalReads
  <2>1. PICK prior \in {current, [b \in Builders |-> NoRoot]} :
          rival' = [rival EXCEPT !.phase = "merging", !.prior = prior]
    BY <1>7 DEF RivalReads
  <2>2. rival'.prior = prior /\ current' = current
    BY <2>1, <1>7 DEF RivalReads, TypeOK
  <2> QED
    BY <2>1, <2>2 DEF Builders
<1>8. CASE RivalWrites
  <2>1. /\ current' = [rival.prior EXCEPT !["rival"] = rival.promoted + 1]
        /\ rival'.phase = "idle" /\ rival.phase = "merging"
    BY <1>8 DEF RivalWrites, PromotedRoots
  <2>2. current'["watch"] = rival.prior["watch"]
    BY <2>1 DEF TypeOK, Roots, Builders
  <2> QED
    BY <2>1, <2>2
<1> QED
  BY StepCases, <1>1, <1>2, <1>3, <1>4, <1>5, <1>6, <1>7, <1>8

\* The elements of a list and of what is left of it.
LEMMA ElemsWithin ==
  ASSUME NEW list \in Seq(Nat), NEW E, \A i \in 1..Len(list) : list[i] \in E
  PROVE  Elems(list) \subseteq E
BY DEF Elems

\* What a recorded outcome does to the lists, when the build had an attempt: a
\* good attempt becomes the newest good one and only older good ones go; a
\* failed one may push out older failed ones only.
LEMMA OutcomeFiled ==
  ASSUME TypeOK, build.attempt # 0
  PROVE  /\ RecordOutcome.number = attempts.number
         /\ IF build.status = "ok"
              THEN /\ RecordOutcome.success # <<>>
                   /\ RecordOutcome.success[Len(RecordOutcome.success)] = build.attempt
                   /\ Elems(RecordOutcome.success) \subseteq
                        Elems(attempts.success) \cup {build.attempt}
                   /\ RecordOutcome.failed = attempts.failed
                   /\ attempts.roots \ Elems(attempts.success) \subseteq RecordOutcome.roots
                   /\ RecordOutcome.misfiled = attempts.misfiled
              ELSE /\ RecordOutcome.success = attempts.success
                   /\ Elems(RecordOutcome.failed) \subseteq
                        Elems(attempts.failed) \cup {build.attempt}
                   /\ attempts.roots \ (Elems(attempts.failed) \cup {build.attempt})
                        \subseteq RecordOutcome.roots
                   /\ RecordOutcome.misfiled =
                        IF current["watch"] = build.attempt
                          THEN attempts.misfiled \cup {build.attempt} ELSE attempts.misfiled
<1> DEFINE n == build.attempt
           S == attempts.success
           F == attempts.failed
<1>1. /\ n \in Nat /\ S \in Seq(Nat) /\ F \in Seq(Nat)
      /\ Len(S) \in Nat /\ Len(F) \in Nat
      /\ Len(S) <= 2 /\ Len(F) <= 1 /\ attempts \in AttemptRecords
  BY LenProperties DEF TypeOK, BuildRecords, AttemptRecords, KeepSuccess, KeepFailed
<1>2. CASE build.status = "ok"
  <2> DEFINE A == Append(S, n)
             T == Trim(A, KeepSuccess)
  <2>1. RecordOutcome = [attempts EXCEPT !.success = T, !.failed = Trim(F, KeepFailed),
            !.roots = attempts.roots \ (Trimmed(A, KeepSuccess) \cup Trimmed(F, KeepFailed)),
            !.misfiled = attempts.misfiled]
    BY <1>2 DEF RecordOutcome, Succeeded
  <2>2. /\ A \in Seq(Nat) /\ Len(A) = Len(S) + 1
        /\ \A i \in 1..Len(S) : A[i] = S[i]
        /\ A[Len(A)] = n
    BY <1>1, AppendProperties
  <2>3. Trim(F, KeepFailed) = F /\ Trimmed(F, KeepFailed) = {}
    BY <1>1 DEF Trim, Trimmed, KeepFailed
  <2>4. Trimmed(A, KeepSuccess) \subseteq Elems(S)
    <3> SUFFICES ASSUME NEW i \in 1..(Len(A) - 2) PROVE A[i] \in Elems(S)
      BY DEF Trimmed, KeepSuccess
    <3>1. i \in 1..Len(S)
      BY <1>1, <2>2
    <3> QED
      BY <3>1, <2>2 DEF Elems
  <2> HIDE DEF A
  <2>5. T # <<>> /\ T[Len(T)] = n /\ Elems(T) \subseteq Elems(S) \cup {n}
    <3>1. ASSUME NEW i \in 1..Len(A) PROVE A[i] \in Elems(S) \cup {n}
      <4>1. CASE i = Len(A)
        BY <4>1, <2>2
      <4>2. CASE i # Len(A)
        <5>1. i \in 1..Len(S)
          BY <4>2, <2>2, <1>1
        <5> QED
          BY <5>1, <2>2 DEF Elems
      <4> QED
        BY <4>1, <4>2
    <3>2. CASE Len(A) <= 2
      <4>1. T = A
        BY <3>2 DEF Trim, KeepSuccess
      <4>2. Len(T) # 0
        BY <4>1, <2>2, <1>1
      <4>3. Elems(T) \subseteq Elems(S) \cup {n}
        BY <4>1, <3>1, <2>2, ElemsWithin
      <4> QED
        BY <4>1, <4>2, <4>3, <2>2
    <3>3. CASE Len(A) > 2
      <4>1. Len(A) = 3
        BY <3>3, <2>2, <1>1
      <4>2. T = SubSeq(A, 2, 3)
        BY <4>1 DEF Trim, KeepSuccess
      <4>3. Len(T) = 2 /\ T[1] = A[2] /\ T[2] = A[3]
        BY <4>1, <4>2, <2>2, SubSeqProperties
      <4>4. T \in Seq(Nat)
        BY <2>2, TrimTyped DEF KeepSuccess
      <4> HIDE DEF T
      <4>5. \A i \in 1..Len(T) : T[i] \in Elems(S) \cup {n}
        BY <4>1, <4>3, <3>1
      <4>6. Elems(T) \subseteq Elems(S) \cup {n}
        BY <4>4, <4>5, ElemsWithin
      <4>7. T[Len(T)] = n
        BY <4>1, <4>3, <2>2
      <4>8. Len(T) # 0
        BY <4>3
      <4> QED
        BY <4>6, <4>7, <4>8
    <3> QED
      BY <3>2, <3>3, <2>2, <1>1
  <2> HIDE DEF T
  <2> QED
    BY <1>2, <1>1, <2>1, <2>3, <2>4, <2>5 DEF AttemptRecords
<1>3. CASE build.status # "ok"
  <2> DEFINE A == Append(F, n)
             T == Trim(A, KeepFailed)
             misfiled == IF current["watch"] = n THEN attempts.misfiled \cup {n}
                                                 ELSE attempts.misfiled
  <2>1. RecordOutcome = [attempts EXCEPT !.success = Trim(S, KeepSuccess), !.failed = T,
            !.roots = attempts.roots \ (Trimmed(S, KeepSuccess) \cup Trimmed(A, KeepFailed)),
            !.misfiled = misfiled]
    BY <1>3 DEF RecordOutcome, Succeeded
  <2>2. /\ A \in Seq(Nat) /\ Len(A) = Len(F) + 1
        /\ \A i \in 1..Len(F) : A[i] = F[i]
        /\ A[Len(A)] = n
    BY <1>1, AppendProperties
  <2>3. Trim(S, KeepSuccess) = S /\ Trimmed(S, KeepSuccess) = {}
    BY <1>1 DEF Trim, Trimmed, KeepSuccess
  <2> HIDE DEF A
  <2>4. \A i \in 1..Len(A) : A[i] \in Elems(F) \cup {n}
    BY <1>1, <2>2 DEF Elems
  <2>5. Trimmed(A, KeepFailed) \subseteq Elems(F) \cup {n}
    <3> SUFFICES ASSUME NEW i \in 1..(Len(A) - 1) PROVE A[i] \in Elems(F) \cup {n}
      BY DEF Trimmed, KeepFailed
    <3>1. i \in 1..Len(A)
      BY <1>1, <2>2
    <3> QED
      BY <3>1, <2>4
  <2>6. Elems(T) \subseteq Elems(F) \cup {n}
    <3>1. CASE Len(A) <= 1
      <4>1. T = A
        BY <3>1 DEF Trim, KeepFailed
      <4> QED
        BY <4>1, <2>4 DEF Elems
    <3>2. CASE Len(A) > 1
      <4>1. Len(A) = 2
        BY <3>2, <2>2, <1>1
      <4>2. T = SubSeq(A, 2, 2)
        BY <4>1 DEF Trim, KeepFailed
      <4>3. Len(T) = 1 /\ T[1] = A[2]
        BY <4>1, <4>2, <2>2, SubSeqProperties
      <4> HIDE DEF T
      <4> QED
        BY <4>1, <4>3, <2>4 DEF Elems
    <3> QED
      BY <3>1, <3>2, <2>2, <1>1
  <2> HIDE DEF T, misfiled
  <2>7. /\ RecordOutcome.number = attempts.number /\ RecordOutcome.success = S
        /\ RecordOutcome.failed = T /\ RecordOutcome.misfiled = misfiled
        /\ RecordOutcome.roots = attempts.roots \ Trimmed(A, KeepFailed)
    BY <2>1, <2>3, <1>1 DEF AttemptRecords
  <2> QED
    BY <1>3, <2>5, <2>6, <2>7 DEF misfiled
<1> QED
  BY <1>2, <1>3

AttemptsInv == AttemptsNumbered /\ AttemptPromoted /\ CurrentRootFiled

\* Steps that neither touch the attempts nor name another attempt in current.json.
LEMMA AttemptsFrame ==
  ASSUME TypeOK, AttemptsInv, attempts' = attempts,
         build'.attempt = build.attempt, AttemptPromoted',
         current'["watch"] \in {current["watch"], NoRoot, build.attempt}
  PROVE  AttemptsNumbered' /\ CurrentRootFiled'
<1>1. AttemptsNumbered'
  BY DEF AttemptsInv, AttemptsNumbered
<1>2. CurrentRootFiled'
  BY DEF AttemptsInv, CurrentRootFiled, NoRoot
<1> QED
  BY <1>1, <1>2

\* Every step keeps the attempts numbered and the current root filed.
LEMMA AttemptsStep ==
  ASSUME TypeOK, LockHeld, OwnRootKnown, AttemptsInv, [Next]_vars
  PROVE  AttemptsInv'
<1>1. CASE Aside
  BY <1>1, AsideLeavesRest
     DEF others, AttemptsInv, AttemptsNumbered, AttemptPromoted, CurrentRootFiled
<1>2. CASE BuildStarts \/ BuildGivesUp
  <2>1. /\ build'.attempt = 0 /\ build.attempt = 0 /\ build'.status = "ok"
        /\ build'.phase \in {"locking", "idle"} /\ UNCHANGED <<attempts, current>>
    BY <1>2 DEF BuildStarts, BuildGivesUp, Empties, others, AttemptsInv, AttemptPromoted
  <2> QED
    BY <2>1 DEF AttemptsInv, AttemptsNumbered, AttemptPromoted, CurrentRootFiled
<1>3. CASE BuildAborts
  <2>1. /\ build'.attempt = build.attempt /\ build'.phase = "closing" /\ build'.status # "ok"
        /\ UNCHANGED <<attempts, current>>
    BY <1>3 DEF BuildAborts, Moves
  <2> QED
    BY <2>1 DEF AttemptsInv, AttemptsNumbered, AttemptPromoted, CurrentRootFiled
<1>4. CASE BuildGoes
  <2>1. /\ build.phase = "locking" /\ build'.phase = "discovering"
        /\ build'.status = build.status
        /\ build'.attempt = attempts.number + 1 /\ attempts'.number = attempts.number + 1
        /\ attempts'.roots = attempts.roots \cup {attempts.number + 1}
        /\ attempts'.success = attempts.success /\ attempts'.failed = attempts.failed
        /\ attempts'.misfiled = attempts.misfiled /\ current' = current
    BY <1>4 DEF BuildGoes
  <2>2. attempts.number \in Nat /\ attempts.success \in Seq(Nat) /\ attempts.failed \in Seq(Nat)
    BY DEF TypeOK, AttemptRecords
  <2>3. build.attempt = 0 /\ build.status = "ok"
    BY <2>1 DEF AttemptsInv, AttemptPromoted
  <2>4. \A m \in Elems(attempts.success) \cup Elems(attempts.failed) :
          m \in Nat /\ m <= attempts.number
    BY <2>2, ElementOfSeq DEF Elems, AttemptsInv, AttemptsNumbered
  <2>5. AttemptsNumbered'
    <3>1. /\ Elems(attempts'.success) = Elems(attempts.success)
          /\ Elems(attempts'.failed) = Elems(attempts.failed)
      BY <2>1
    <3>2. \A m \in Elems(attempts.success) \cup Elems(attempts.failed) :
            m <= attempts.number + 1 /\ m < attempts.number + 1
      BY <2>2, <2>4
    <3>3. Elems(attempts.success) \cap Elems(attempts.failed) = {}
      BY DEF AttemptsInv, AttemptsNumbered
    <3> QED
      BY <2>1, <3>1, <3>2, <3>3 DEF AttemptsNumbered
  <2>6. AttemptPromoted'
    BY <2>1, <2>2, <2>3 DEF AttemptPromoted
  <2>7. CurrentRootFiled'
    BY <2>1, <2>3 DEF AttemptsInv, CurrentRootFiled
  <2> QED
    BY <2>5, <2>6, <2>7 DEF AttemptsInv
<1>5. CASE BuildWorks
  <2>1. build'.attempt = build.attempt /\ UNCHANGED <<attempts, current>>
    BY <1>5 DEF BuildWorks, Moves, others
  <2>2. AttemptPromoted'
    BY <1>5 DEF BuildWorks, Moves, others, AttemptsInv, AttemptPromoted
  <2> QED
    BY <2>1, <2>2, AttemptsFrame DEF AttemptsInv
<1>6. CASE BuildPromotes
  <2>1. build'.attempt = build.attempt /\ UNCHANGED <<attempts, current>>
    BY <1>6 DEF BuildPromotes, Moves
  <2>2. AttemptPromoted'
    BY <1>6 DEF BuildPromotes, Moves, AttemptsInv, AttemptPromoted
  <2> QED
    BY <2>1, <2>2, AttemptsFrame DEF AttemptsInv
<1>7. CASE PromoteWrites
  <2>1. /\ build.phase = "merging" /\ build' = EndsWith("ok") /\ attempts' = attempts
        /\ current' = [build.prior EXCEPT !["watch"] = build.attempt]
    BY <1>7 DEF PromoteWrites, PromotedRoots
  <2>2. build'.phase = "closing" /\ build'.attempt = build.attempt
    BY <2>1, EndsWithTyped
  <2>3. current'["watch"] = build.attempt
    BY <2>1 DEF TypeOK, BuildRecords, Roots, Builders
  <2>4. AttemptPromoted'
    BY <2>1, <2>2, <2>3 DEF AttemptsInv, AttemptPromoted
  <2> QED
    BY <2>1, <2>2, <2>3, <2>4, AttemptsFrame DEF AttemptsInv
<1>8. CASE BuildCloses
  <2>1. build'.attempt = build.attempt /\ UNCHANGED <<attempts, current>>
    BY <1>8 DEF BuildCloses, Moves
  <2>2. AttemptPromoted'
    BY <1>8 DEF BuildCloses, Moves, AttemptsInv, AttemptPromoted
  <2> QED
    BY <2>1, <2>2, AttemptsFrame DEF AttemptsInv
<1>9. CASE Settle
  <2>1. /\ build.phase = "settling" /\ attempts' = RecordOutcome /\ current' = current
        /\ build'.phase = "idle" /\ build'.attempt = 0 /\ build'.status = "ok"
    BY <1>9 DEF Settle, NoBuild, indexVars
  <2>2. AttemptPromoted'
    BY <2>1 DEF AttemptPromoted
  <2>3. CASE build.attempt = 0
    <3>1. attempts' = attempts
      BY <2>1, <2>3 DEF RecordOutcome
    <3> QED
      BY <2>1, <2>2, <2>3, <3>1, AttemptsFrame DEF AttemptsInv
  <2>4. CASE build.attempt # 0
    <3> DEFINE n == build.attempt
               S == Elems(attempts.success)
               F == Elems(attempts.failed)
    <3>1. /\ n \in Nat /\ n > 0 /\ n = attempts.number /\ n \in attempts.roots
          /\ \A m \in S \cup F : m < n
          /\ S \cap F = {}
      BY <2>4 DEF AttemptsInv, AttemptsNumbered, TypeOK, BuildRecords
    <3>2. n \notin S /\ n \notin F
      BY <3>1
    <3>3. AttemptsNumbered'
      <4>1. /\ Elems(attempts'.success) \cup Elems(attempts'.failed) \subseteq S \cup F \cup {n}
            /\ Elems(attempts'.success) \cap Elems(attempts'.failed) = {}
            /\ attempts'.number = attempts.number
        BY <2>1, <2>4, <3>1, <3>2, OutcomeFiled
      <4>2. \A m \in S \cup F \cup {n} : m <= n
        <5>1. S \subseteq Nat /\ F \subseteq Nat
          BY ElementOfSeq DEF Elems, TypeOK, AttemptRecords
        <5> QED
          BY <3>1, <5>1
      <4> QED
        BY <4>1, <4>2, <3>1, <2>1 DEF AttemptsNumbered
    <3>4. CurrentRootFiled'
      <4> SUFFICES ASSUME current["watch"] > 0
                   PROVE  \/ current["watch"] \in attempts'.misfiled
                          \/ /\ attempts'.success # <<>>
                             /\ current["watch"] = attempts'.success[Len(attempts'.success)]
                             /\ current["watch"] \in attempts'.roots
        BY <2>1 DEF CurrentRootFiled
      <4>1. CASE build.status = "ok"
        <5>1. current["watch"] = n
          BY <4>1, <2>1 DEF AttemptsInv, AttemptPromoted, NoRoot
        <5> QED
          BY <5>1, <4>1, <3>1, <3>2, <2>1, <2>4, OutcomeFiled
      <4>2. CASE build.status # "ok"
        <5>1. CASE current["watch"] \in attempts.misfiled \/ current["watch"] = n
          BY <5>1, <4>2, <2>1, <2>4, OutcomeFiled
        <5>2. CASE /\ attempts.success # <<>>
                   /\ current["watch"] = attempts.success[Len(attempts.success)]
                   /\ current["watch"] \in attempts.roots
          <6>1. current["watch"] \in S
            <7>1. attempts.success \in Seq(Nat)
              BY DEF TypeOK, AttemptRecords
            <7>2. Len(attempts.success) \in 1..Len(attempts.success)
              BY <7>1, <5>2, LenProperties
            <7> QED
              BY <7>2, <5>2 DEF Elems
          <6>2. current["watch"] \notin F \cup {n}
            BY <6>1, <3>1, <3>2
          <6> QED
            BY <6>2, <5>2, <4>2, <2>1, <2>4, OutcomeFiled
        <5> QED
          BY <5>1, <5>2 DEF AttemptsInv, CurrentRootFiled
      <4> QED
        BY <4>1, <4>2
    <3> QED
      BY <2>2, <3>3, <3>4 DEF AttemptsInv
  <2> QED
    BY <2>3, <2>4
<1>10. CASE RivalAcquires \/ RivalReads \/ RivalWrites
  <2>1. build' = build /\ attempts' = attempts
    BY <1>10 DEF RivalAcquires, RivalReads, RivalWrites
  <2>2. current'["watch"] \in {current["watch"], NoRoot}
    <3>1. CASE RivalWrites
      <4>1. /\ current' = [rival.prior EXCEPT !["rival"] = rival.promoted + 1]
            /\ rival.phase = "merging"
        BY <3>1 DEF RivalWrites, PromotedRoots
      <4>2. current'["watch"] = rival.prior["watch"]
        BY <4>1 DEF TypeOK, Roots, Builders
      <4> QED
        BY <4>1, <4>2 DEF OwnRootKnown
    <3>2. CASE ~RivalWrites
      BY <3>2, <1>10 DEF RivalAcquires, RivalReads
    <3> QED
      BY <3>1, <3>2
  <2>3. AttemptPromoted'
    BY <2>1, <2>2 DEF AttemptsInv, AttemptPromoted
  <2> QED
    BY <2>1, <2>2, <2>3, AttemptsFrame DEF AttemptsInv
<1> QED
  BY StepCases, <1>1, <1>2, <1>3, <1>4, <1>5, <1>6, <1>7, <1>8, <1>9, <1>10

\* The attempt root current.json names for the watch stays on disk: trimming removes
\* only older attempts, unless a promoted one was filed as a failure.
THEOREM CurrentRootSafe == Spec => []CurrentRootKept
<1> DEFINE IInv == LockHeld /\ OwnRootKnown /\ AttemptsInv
<1>1. Init => IInv
  <2> SUFFICES ASSUME Init PROVE IInv
    OBVIOUS
  <2>1. LockHeld /\ OwnRootKnown
    BY DEF Init, LockHeld, OwnRootKnown, NoBuild
  <2>2. /\ build.phase = "idle" /\ build.attempt = 0 /\ current["watch"] = 0
        /\ attempts.success = <<>> /\ attempts.failed = <<>>
    BY DEF Init, NoBuild, Builders
  <2>3. Elems(attempts.success) = {} /\ Elems(attempts.failed) = {}
    BY <2>2 DEF Elems
  <2> QED
    BY <2>1, <2>2, <2>3 DEF AttemptsInv, AttemptsNumbered, AttemptPromoted, CurrentRootFiled
<1>2. TypeOK /\ IInv /\ [Next]_vars => IInv'
  BY LockHeldStep, OwnRootStep, AttemptsStep
<1>3. TypeOK /\ IInv => CurrentRootKept
  BY DEF AttemptsInv, AttemptsNumbered, CurrentRootFiled, CurrentRootKept, TypeOK,
         BuildRecords
<1> QED
  BY WatchTypeCorrect, <1>1, <1>2, <1>3, PTL DEF Spec

-----------------------------------------------------------------------------
(* The index and the disk. *)

\* A build is to come that will see every tracked entry; an update of p is to come.
BuildComing ==
  timer \/ (running /\ pending) \/ build.phase \in {"locking", "discovering"}
UpdateComing(p) ==
  p \in events \cup pendingUpdates \/ updating[p] \in {"queued", "present", "removed", "failed"}

\* The build in progress has still to read p; its entry has the stat p has now.
ToBeRead(p)    == build.phase = "reading" /\ build.toRead[p] # 0
FreshToRead(p) == ToBeRead(p) /\ build.toRead[p] = disk[p]

\* The index, or the build that is to replace it, holds v for p or has left p out.
Carries(p, v) ==
  /\ build.phase \in {"reading", "promoting", "merging"} =>
       build.content[p] = v \/ p \in build.skipped
  /\ build.phase \in {"closing", "releasing", "settling"} =>
       build.status # "ok" \/ indexed[p] = v \/ p \in skipped
  /\ build.phase = "idle" => indexed[p] = v \/ p \in skipped

\* No stat anywhere is newer than the last write, so that a new version of a file has
\* the stat of no entry and of no bundle.
StatOld(p) ==
  /\ disk[p] <= writes /\ tracked[p] <= writes /\ seen[p] <= writes
  /\ manifest[p] <= writes /\ build.manifest[p] <= writes /\ build.toRead[p] <= writes
StatsOld == \A p \in Paths : StatOld(p)

\* A bundle with the stat the file has now holds what is in the file.
BundleSound(p) ==
  disk[p] # 0 /\ disk[p] \in {manifest[p], build.manifest[p]} => bundle[p] = disk[p]
BundlesSound == \A p \in Paths : BundleSound(p)

\* The entry of a file has its stat, or an update will give it that stat, or it was misled;
\* an entry classified as absent was not tracked, and is not until that is applied.
EntryKept(p) ==
  /\ \/ p \in misled \cup events \cup pendingUpdates
     \/ updating[p] \in {"queued", "failed"}
     \/ updating[p] \in {"none", "done"} /\ tracked[p] = disk[p]
     \/ updating[p] = "present" /\ seen[p] = disk[p]
     \/ updating[p] \in {"removed", "absent"} /\ disk[p] = 0
  /\ updating[p] = "absent" => tracked[p] = 0
  /\ updating[p] \in {"removed", "absent"} => seen[p] = 0
EntriesKept == \A p \in Paths : EntryKept(p)

\* The removal of an entry, and the last change of a file, are in the index, in the
\* build in progress, or ahead of a build to come.
RemovalCarried(p) ==
  tracked[p] = 0 => BuildComing \/ (~ToBeRead(p) /\ Carries(p, 0))
ChangeCarried(p) ==
  \/ p \in misled \/ BuildComing \/ UpdateComing(p) \/ FreshToRead(p)
  \/ ~ToBeRead(p) /\ Carries(p, disk[p])
PathsCurrent == Excused \/ \A p \in Paths : RemovalCarried(p) /\ ChangeCarried(p)

\* What a build starts from and how it may end.
BuildFresh ==
  /\ build.phase \in {"locking", "discovering"} => build.content = Nothing
  /\ build.status = "aborted" => shouldExit
  /\ build.phase # "idle" => ~stranded

\* The rival writes back the root of the watch it has read, unless it could not read.
WatchRootRead ==
  unread \/ (rival.phase = "merging" => rival.prior["watch"] = current["watch"])

CurrencyInv ==
  StatsOld /\ BundlesSound /\ EntriesKept /\ BuildFresh /\ WatchRootRead /\ PathsCurrent

\* Initially every file is tracked, cached and indexed.
LEMMA CurrencyInit == Init => CurrencyInv
<1> SUFFICES ASSUME Init PROVE CurrencyInv
  OBVIOUS
<1>1. /\ build.phase = "idle" /\ build.status = "ok"
      /\ build.manifest = Nothing /\ build.toRead = Nothing
      /\ rival.phase = "idle"
  BY DEF Init, NoBuild
<1>2. ASSUME NEW p \in Paths
      PROVE  /\ disk[p] = 1 /\ tracked[p] = 1 /\ seen[p] = 0 /\ manifest[p] = 1 /\ bundle[p] = 1
             /\ indexed[p] = 1 /\ updating[p] = "none" /\ writes = 1
             /\ build.manifest[p] = 0 /\ build.toRead[p] = 0
  BY <1>1 DEF Init, Nothing
<1>3. StatsOld /\ BundlesSound /\ EntriesKept
  BY <1>2 DEF StatsOld, StatOld, BundlesSound, BundleSound, EntriesKept, EntryKept
<1>4. BuildFresh /\ WatchRootRead
  BY <1>1 DEF BuildFresh, WatchRootRead
<1>5. PathsCurrent
  BY <1>1, <1>2 DEF PathsCurrent, RemovalCarried, ChangeCarried, ToBeRead, Carries
<1> QED
  BY <1>3, <1>4, <1>5 DEF CurrencyInv

\* The entries, and what is to come for them.
entryVars == <<disk, events, tracked, pendingUpdates, updating, seen, misled>>

\* The steps of a build, of the rival and of a shutdown leave the entries alone.
LEMMA EntriesFrame ==
  ASSUME RunBuild \/ BuildStep \/ RequestShutdown \/ RivalAcquires \/ RivalStep
         \/ Wait \/ UNCHANGED vars
  PROVE  UNCHANGED entryVars /\ UNCHANGED writes
BY DEF entryVars, RunBuild, BuildStep, RequestShutdown, RivalAcquires, RivalStep, Wait, vars,
       fileVars, queueVars, AcquireIndexLock, LockUnavailable, Discover, ModesBuilt, BuildFails,
       PromoteReads, PromoteWrites, MarkWatchPhase, ReleaseIndexLock, Settle, ReadFile,
       RivalReads, RivalWrites

\* The end of an update, and of its batch: a path is queued again, or it has ended.
LEMMA EndsPath ==
  ASSUME TypeOK, NEW q \in Paths, NEW outcome \in {"done", "failed"}, Ends(q, outcome),
         updating[q] # "none", NEW p \in Paths
  PROVE  LET ended == IF p = q THEN outcome ELSE updating[p] IN
         /\ pendingUpdates \subseteq pendingUpdates'
         /\ \/ updating'[p] = ended
            \/ updating'[p] = "none" /\ ended \in {"done", "none"}
            \/ updating'[p] = "none" /\ p \in pendingUpdates'
<1> DEFINE ended == [updating EXCEPT ![q] = outcome]
           batch == {r \in Paths : updating[r] # "none"}
<1>1. /\ ended \in [Paths -> Progress]
      /\ ended[p] = IF p = q THEN outcome ELSE updating[p]
  BY DEF TypeOK, Progress
<1>2. \/ /\ \A r \in batch : ended[r] \in {"done", "failed"}
         /\ updating' = [r \in Paths |-> "none"]
         /\ pendingUpdates' = IF \E r \in batch : ended[r] = "failed"
                                THEN pendingUpdates \cup batch ELSE pendingUpdates
      \/ updating' = ended /\ pendingUpdates' = pendingUpdates
  BY DEF Ends
<1> HIDE DEF ended
<1>3. CASE updating' = ended /\ pendingUpdates' = pendingUpdates
  BY <1>1, <1>3
<1>4. CASE /\ \A r \in batch : ended[r] \in {"done", "failed"}
           /\ updating' = [r \in Paths |-> "none"]
           /\ pendingUpdates' = IF \E r \in batch : ended[r] = "failed"
                                  THEN pendingUpdates \cup batch ELSE pendingUpdates
  <2>1. updating'[p] = "none" /\ pendingUpdates \subseteq pendingUpdates'
    BY <1>4
  <2>2. CASE updating[p] = "none"
    BY <1>1, <2>1, <2>2
  <2>3. CASE updating[p] # "none" /\ ended[p] = "failed"
    <3>1. p \in batch
      BY <2>3
    <3> QED
      BY <3>1, <2>1, <2>3, <1>4
  <2>4. CASE updating[p] # "none" /\ ended[p] # "failed"
    <3>1. ended[p] = "done"
      BY <2>4, <1>4
    <3> QED
      BY <3>1, <1>1, <2>1
  <2> QED
    BY <2>2, <2>3, <2>4
<1> QED
  BY <1>2, <1>3, <1>4

\* A path that changes is reported; what is reported gets its stat, or loses it, in the end.
LEMMA EntriesStep ==
  ASSUME TypeOK, EntriesKept, [Next]_vars
  PROVE  EntriesKept'
<1> SUFFICES ASSUME NEW p \in Paths PROVE EntryKept(p)'
  BY DEF EntriesKept
<1> USE DEF EntryKept
<1>0. /\ EntryKept(p)
      /\ updating \in [Paths -> Progress] /\ tracked \in [Paths -> Nat]
      /\ disk \in [Paths -> Nat] /\ seen \in [Paths -> Nat]
  BY DEF EntriesKept, TypeOK, Contents
<1>1. ASSUME NEW q \in Paths, FileChanges(q) PROVE EntryKept(p)'
  <2>1. /\ UNCHANGED <<tracked, pendingUpdates, updating, seen, misled>>
        /\ events' = events \cup {q}
        /\ q # p => disk'[p] = disk[p]
        /\ updating[p] \in {"removed", "absent"} => seen[p] = 0
    BY <1>1, <1>0 DEF FileChanges, queueVars
  <2> QED
    BY <2>1, <1>0
<1>2. ASSUME NEW q \in Paths, RecordAddOrChange(q) PROVE EntryKept(p)'
  BY <1>2, <1>0 DEF RecordAddOrChange, fileVars
<1>3. ASSUME NEW q \in Paths, RecordRemove(q) PROVE EntryKept(p)'
  <2>1. /\ UNCHANGED <<disk, pendingUpdates, updating, seen>> /\ disk[q] = 0
        /\ events' = events \ {q} /\ tracked' = [tracked EXCEPT ![q] = 0]
        /\ misled' = IF updating[q] = "present" THEN misled \cup {q} ELSE misled \ {q}
    BY <1>3 DEF RecordRemove, fileVars
  <2>2. CASE q # p
    BY <2>1, <2>2, <1>0
  <2>3. CASE q = p
    <3>1. tracked'[p] = 0 /\ disk'[p] = 0
      BY <2>1, <2>3, <1>0
    <3>2. updating[p] \in Progress
      BY <1>0
    <3> QED
      BY <3>1, <3>2, <2>1, <2>3, <1>0 DEF Progress
  <2> QED
    BY <2>2, <2>3
<1>4. ASSUME FlushPendingUpdates PROVE EntryKept(p)'
  BY <1>4, <1>0 DEF FlushPendingUpdates, fileVars
<1>5. ASSUME NEW q \in Paths, ClassifyPath(q) PROVE EntryKept(p)'
  <2>1. PICK stat \in {disk[q], 0} :
          /\ misled' = IF stat = disk[q] THEN misled \ {q} ELSE misled \cup {q}
          /\ seen' = [seen EXCEPT ![q] = stat]
          /\ updating' = [updating EXCEPT ![q] =
               IF stat # 0 THEN "present" ELSE IF tracked[q] # 0 THEN "removed" ELSE "absent"]
    BY <1>5 DEF ClassifyPath
  <2>2. UNCHANGED <<disk, events, tracked, pendingUpdates>>
    BY <1>5 DEF ClassifyPath, fileVars
  <2>3. CASE q # p
    <3>1. seen'[p] = seen[p] /\ updating'[p] = updating[p] /\ (p \in misled' <=> p \in misled)
      BY <2>1, <2>3, <1>0
    <3> QED
      BY <3>1, <2>2, <1>0
  <2>4. CASE q = p
    <3>1. /\ seen'[p] = stat /\ stat \in {disk[p], 0}
          /\ updating'[p] =
               IF stat # 0 THEN "present" ELSE IF tracked[p] # 0 THEN "removed" ELSE "absent"
          /\ stat = disk[p] \/ p \in misled'
      BY <2>1, <2>4, <1>0
    <3> QED
      BY <3>1, <2>2, <1>0
  <2> QED
    BY <2>3, <2>4
<1>6. ASSUME NEW q \in Paths, UpdateTrackedEntry(q) PROVE EntryKept(p)'
  <2>1. /\ UNCHANGED <<disk, events, misled>>
        /\ tracked' = [tracked EXCEPT ![q] = seen[q]] /\ seen' = [seen EXCEPT ![q] = 0]
        /\ updating[q] \in {"present", "removed", "absent"}
    BY <1>6 DEF UpdateTrackedEntry, fileVars
  <2>2. /\ pendingUpdates \subseteq pendingUpdates'
        /\ LET ended == IF p = q THEN "done" ELSE updating[p] IN
           \/ updating'[p] = ended
           \/ updating'[p] = "none" /\ ended \in {"done", "none"}
           \/ updating'[p] = "none" /\ p \in pendingUpdates'
    <3>1. Ends(q, "done") /\ updating[q] # "none"
      BY <1>6 DEF UpdateTrackedEntry
    <3> QED
      BY <3>1, EndsPath
  <2>3. CASE q # p
    <3>1. tracked'[p] = tracked[p] /\ seen'[p] = seen[p]
      BY <2>1, <2>3, <1>0
    <3> QED
      BY <3>1, <2>1, <2>2, <2>3, <1>0
  <2>4. CASE q = p
    <3>1. /\ tracked'[p] = seen[p]
          /\ updating'[p] \in {"done", "none"}
      BY <2>1, <2>2, <2>4, <1>0
    <3> QED
      BY <3>1, <2>1, <2>2, <2>4, <1>0
  <2> QED
    BY <2>3, <2>4
<1>7. ASSUME NEW q \in Paths, UpdateFails(q) PROVE EntryKept(p)'
  <2>1. UNCHANGED <<disk, events, misled, tracked, seen>> /\ updating[q] = "queued"
    BY <1>7 DEF UpdateFails, fileVars
  <2>2. /\ pendingUpdates \subseteq pendingUpdates'
        /\ LET ended == IF p = q THEN "failed" ELSE updating[p] IN
           \/ updating'[p] = ended
           \/ updating'[p] = "none" /\ ended \in {"done", "none"}
           \/ updating'[p] = "none" /\ p \in pendingUpdates'
    <3>1. Ends(q, "failed") /\ updating[q] # "none"
      BY <1>7 DEF UpdateFails
    <3> QED
      BY <3>1, EndsPath
  <2> QED
    BY <2>1, <2>2, <1>0
<1>8. ASSUME UNCHANGED entryVars PROVE EntryKept(p)'
  BY <1>8, <1>0 DEF entryVars
<1> QED
  BY <1>1, <1>2, <1>3, <1>4, <1>5, <1>6, <1>7, <1>8, EntriesFrame
     DEF Next, EventLoop, HandleEvent, ApplyUpdates

\* What a build has to read, and the bundles it may serve, are set when it discovers the
\* files, change as it reads them, and are forgotten in the end.
LEMMA BuildStats ==
  ASSUME TypeOK, [Next]_vars, ~Discover, \A q \in Paths : ~ReadFile(q)
  PROVE  /\ build'.manifest \in {build.manifest, Nothing}
         /\ build'.toRead \in {build.toRead, Nothing}
<1>0. /\ build \in BuildRecords /\ NoBuild.manifest = Nothing /\ NoBuild.toRead = Nothing
  BY DEF TypeOK, NoBuild
<1>1. CASE build' = build
  BY <1>1
<1>2. CASE build' = NoBuild
  BY <1>2, <1>0
<1>3. ASSUME NEW status \in {"ok", "aborted", "error"}, build' = EndsWith(status)
      PROVE  build'.manifest = Nothing /\ build'.toRead = Nothing
  BY <1>3, EndsWithTyped
<1>4. CASE RunBuild
  <2> DEFINE queued == pendingPaths # {}
  <2>1. build' = build \/ build' = [NoBuild EXCEPT !.phase = "locking", !.queued = queued]
    BY <1>4 DEF RunBuild
  <2> HIDE DEF queued
  <2> QED
    BY <2>1, <1>0 DEF NoBuild
<1>5. CASE AcquireIndexLock
  BY <1>5, <1>0, <1>3 DEF AcquireIndexLock, To, BuildRecords
<1>6. CASE ModesBuilt
  BY <1>6, <1>0, <1>3 DEF ModesBuilt, To, BuildRecords
<1>7. CASE PromoteReads \/ MarkWatchPhase \/ ReleaseIndexLock
  BY <1>7, <1>0 DEF PromoteReads, MarkWatchPhase, ReleaseIndexLock, To, BuildRecords
<1>8. CASE BuildFails \/ PromoteWrites
  BY <1>8, <1>3 DEF BuildFails, PromoteWrites
<1>9. CASE LockUnavailable \/ Settle
  BY <1>9, <1>2 DEF LockUnavailable, Settle
<1>10. CASE RivalAcquires \/ RivalStep
  BY <1>10, <1>1 DEF RivalAcquires, RivalStep, RivalReads, RivalWrites
<1>11. CASE Aside
  BY <1>11, <1>1, AsideLeavesRest
<1> QED
  BY <1>4, <1>5, <1>6, <1>7, <1>8, <1>9, <1>10, <1>11
     DEF Next, EventLoop, BuildStep, Aside

\* A build starts to read with the tracked entries and the manifest pruned to them.
LEMMA DiscoverReads ==
  ASSUME TypeOK, Discover, ~shouldExit
  PROVE  /\ build.phase = "discovering" /\ build'.phase = "reading" /\ build'.toRead = tracked
         /\ build'.content = build.content /\ build'.status = build.status
         /\ \A p \in Paths : build'.manifest[p] \in {manifest[p], 0}
<1> DEFINE pruned == [p \in Paths |-> IF tracked[p] # 0 THEN manifest[p] ELSE 0]
<1>1. \A p \in Paths : pruned[p] \in {manifest[p], 0}
  OBVIOUS
<1>2. /\ build' = [To("reading") EXCEPT !.toRead = tracked, !.manifest = pruned]
      /\ build.phase = "discovering" /\ build \in BuildRecords
  BY DEF Discover, TypeOK
<1> HIDE DEF pruned
<1>3. /\ build'.phase = "reading" /\ build'.toRead = tracked /\ build'.manifest = pruned
      /\ build'.content = build.content /\ build'.status = build.status
  BY <1>2 DEF To, BuildRecords
<1> QED
  BY <1>1, <1>2, <1>3

\* Versions only grow, and stats are taken of versions there were.
LEMMA StatsStep ==
  ASSUME TypeOK, StatsOld, [Next]_vars
  PROVE  StatsOld'
<1> SUFFICES ASSUME NEW p \in Paths PROVE StatOld(p)'
  BY DEF StatsOld
<1> USE DEF StatOld
<1>0. /\ StatOld(p) /\ writes \in Nat /\ Nothing[p] = 0
      /\ disk[p] \in Nat /\ tracked[p] \in Nat /\ seen[p] \in Nat /\ manifest[p] \in Nat
      /\ build.manifest[p] \in Nat /\ build.toRead[p] \in Nat
      /\ disk \in Contents /\ tracked \in Contents /\ seen \in Contents
      /\ build.toRead \in Contents
  BY DEF StatsOld, TypeOK, Contents, BuildRecords, Nothing
<1>1. ASSUME NEW q \in Paths, FileChanges(q) PROVE StatOld(p)'
  <2>1. /\ UNCHANGED <<tracked, seen, manifest, build>> /\ writes' = writes + 1
        /\ disk'[p] \in {disk[p], 0, writes + 1}
    BY <1>1, <1>0 DEF FileChanges, queueVars, cacheVars, Contents
  <2> QED
    BY <2>1, <1>0
<1>2. ASSUME NEW q \in Paths, ReadFile(q) PROVE StatOld(p)'
  <2>1. UNCHANGED <<disk, writes, tracked, seen, manifest>>
    BY <1>2 DEF ReadFile, fileVars, queueVars
  <2>2. build'.toRead[p] \in {build.toRead[p], 0}
    <3>1. build'.toRead = [build.toRead EXCEPT ![q] = 0]
      BY <1>2, FileRead
    <3> QED
      BY <3>1, <1>0 DEF Contents
  <2>3. CASE q = p
    <3>1. build'.manifest[p] \in {build.manifest[p], build.toRead[p]}
      BY <2>3, <1>2, FileRead
    <3> QED
      BY <3>1, <2>1, <2>2, <1>0
  <2>4. CASE q # p
    <3>1. build'.manifest[p] = build.manifest[p]
      BY <2>4, <1>2, FileRead
    <3> QED
      BY <3>1, <2>1, <2>2, <1>0
  <2> QED
    BY <2>3, <2>4
<1>3. ASSUME Discover PROVE StatOld(p)'
  <2>1. UNCHANGED <<disk, writes, tracked, seen, manifest>>
    BY <1>3 DEF Discover, fileVars, queueVars, cacheVars
  <2>2. CASE shouldExit
    <3>1. build'.manifest = Nothing /\ build'.toRead = Nothing
      BY <2>2, <1>3, EndsWithTyped DEF Discover
    <3> QED
      BY <3>1, <2>1, <1>0
  <2>3. CASE ~shouldExit
    <3>1. build'.manifest[p] \in {manifest[p], 0} /\ build'.toRead = tracked
      BY <2>3, <1>3, DiscoverReads
    <3> QED
      BY <3>1, <2>1, <1>0
  <2> QED
    BY <2>2, <2>3
<1>4. ASSUME ~Discover, \A q \in Paths : ~ReadFile(q) /\ ~FileChanges(q) PROVE StatOld(p)'
  <2>1. build'.manifest[p] \in {build.manifest[p], 0} /\ build'.toRead[p] \in {build.toRead[p], 0}
    BY <1>4, <1>0, BuildStats
  <2>2. manifest' \in {manifest, build.manifest} /\ UNCHANGED <<disk, writes>>
    BY <1>4 DEF Next, EventLoop, BuildStep, RivalStep, HandleEvent, RecordAddOrChange,
       RecordRemove, ApplyUpdates, ClassifyPath, UpdateTrackedEntry, UpdateFails,
       FlushPendingUpdates, RunBuild, AcquireIndexLock, LockUnavailable, ModesBuilt, BuildFails,
       PromoteReads, PromoteWrites, MarkWatchPhase, ReleaseIndexLock, Settle,
       RequestShutdown, RivalAcquires, RivalReads, RivalWrites, Wait, vars, fileVars, cacheVars
  <2>3. tracked'[p] \in {tracked[p], seen[p], 0} /\ seen'[p] \in {seen[p], disk[p], 0}
    <3>1. ASSUME NEW q \in Paths, HandleEvent(q)
          PROVE  tracked'[p] \in {tracked[p], 0} /\ seen' = seen
      BY <3>1, <1>0 DEF HandleEvent, RecordAddOrChange, RecordRemove, Contents
    <3>2. ASSUME NEW q \in Paths, ApplyUpdates(q)
          PROVE  tracked'[p] \in {tracked[p], seen[p]} /\ seen'[p] \in {seen[p], disk[p], 0}
      BY <3>2, <1>0 DEF ApplyUpdates, ClassifyPath, UpdateTrackedEntry, UpdateFails, Contents
    <3>3. CASE FlushPendingUpdates
      BY <3>3 DEF FlushPendingUpdates
    <3>4. CASE UNCHANGED entryVars
      BY <3>4 DEF entryVars
    <3> QED
      BY <3>1, <3>2, <3>3, <3>4, <1>4, EntriesFrame DEF Next, EventLoop
  <2> QED
    BY <2>1, <2>2, <2>3, <1>0
<1> QED
  BY <1>1, <1>2, <1>3, <1>4

\* A bundle is written under the stat of the entry it was read for: when that is the stat
\* of the file, the file has not changed in between.
LEMMA BundlesStep ==
  ASSUME TypeOK, StatsOld, BundlesSound, [Next]_vars
  PROVE  BundlesSound'
<1> SUFFICES ASSUME NEW p \in Paths PROVE BundleSound(p)'
  BY DEF BundlesSound
<1> USE DEF BundleSound
<1>0. /\ BundleSound(p) /\ StatOld(p) /\ writes \in Nat /\ Nothing[p] = 0
      /\ disk[p] \in Nat /\ manifest[p] \in Nat /\ build.manifest[p] \in Nat
      /\ build.toRead[p] \in Nat /\ disk \in Contents
  BY DEF BundlesSound, StatsOld, TypeOK, Contents, BuildRecords, Nothing
<1>1. ASSUME NEW q \in Paths, FileChanges(q) PROVE BundleSound(p)'
  <2>1. /\ UNCHANGED <<manifest, bundle, build>>
        /\ disk'[p] \in {disk[p], 0, writes + 1}
    BY <1>1, <1>0 DEF FileChanges, cacheVars, Contents
  <2> QED
    BY <2>1, <1>0 DEF StatOld
<1>2. ASSUME NEW q \in Paths, ReadFile(q) PROVE BundleSound(p)'
  <2>1. UNCHANGED <<disk, manifest>>
    BY <1>2 DEF ReadFile, fileVars
  <2>2. CASE q # p
    BY <2>1, <2>2, <1>0, <1>2, FileRead
  <2>3. CASE q = p
    BY <2>1, <2>3, <1>0, <1>2, FileRead
  <2> QED
    BY <2>2, <2>3
<1>3. ASSUME Discover PROVE BundleSound(p)'
  <2>1. UNCHANGED <<disk, manifest, bundle>>
    BY <1>3 DEF Discover, fileVars, cacheVars
  <2>2. build'.manifest[p] \in {manifest[p], 0}
    <3>1. CASE shouldExit
      BY <3>1, <1>3, <1>0, EndsWithTyped DEF Discover
    <3>2. CASE ~shouldExit
      BY <3>2, <1>3, DiscoverReads
    <3> QED
      BY <3>1, <3>2
  <2> QED
    BY <2>1, <2>2, <1>0
<1>4. ASSUME ~Discover, \A q \in Paths : ~ReadFile(q) /\ ~FileChanges(q) PROVE BundleSound(p)'
  <2>1. build'.manifest[p] \in {build.manifest[p], 0}
    BY <1>4, <1>0, BuildStats
  <2>2. manifest' \in {manifest, build.manifest} /\ UNCHANGED <<disk, bundle>>
    BY <1>4 DEF Next, EventLoop, BuildStep, RivalStep, HandleEvent, RecordAddOrChange,
       RecordRemove, ApplyUpdates, ClassifyPath, UpdateTrackedEntry, UpdateFails,
       FlushPendingUpdates, RunBuild, AcquireIndexLock, LockUnavailable, ModesBuilt, BuildFails,
       PromoteReads, PromoteWrites, MarkWatchPhase, ReleaseIndexLock, Settle,
       RequestShutdown, RivalAcquires, RivalReads, RivalWrites, Wait, vars, fileVars, cacheVars
  <2> QED
    BY <2>1, <2>2, <1>0
<1> QED
  BY <1>1, <1>2, <1>3, <1>4

\* What a promotion of the rival writes back for the watch is what current.json names.
LEMMA WatchRootStep ==
  ASSUME TypeOK, LockHeld, WatchRootRead, [Next]_vars
  PROVE  WatchRootRead'
<1>1. CASE unread'
  BY <1>1 DEF WatchRootRead
<1>2. CASE ~unread'
  <2> SUFFICES ASSUME rival'.phase = "merging"
      PROVE  rival'.prior["watch"] = current'["watch"]
    BY DEF WatchRootRead
  <2>1. CASE Aside
    BY <2>1, <1>2, AsideLeavesRest DEF others, WatchRootRead
  <2>2. CASE BuildStarts \/ BuildGivesUp \/ BuildWorks
    BY <2>2, <1>2 DEF BuildStarts, BuildGivesUp, BuildWorks, others, WatchRootRead
  <2>3. CASE BuildAborts \/ BuildGoes \/ BuildCloses
    BY <2>3, <1>2 DEF BuildAborts, BuildGoes, BuildCloses, WatchRootRead
  <2>4. CASE BuildPromotes
    BY <2>4, <1>2 DEF BuildPromotes, WatchRootRead, TypeOK
  <2>5. CASE PromoteWrites
    <3>1. build.phase = "merging" /\ rival' = rival
      BY <2>5 DEF PromoteWrites
    <3> QED
      BY <3>1 DEF LockHeld
  <2>6. CASE Settle
    BY <2>6, <1>2 DEF Settle, indexVars, WatchRootRead
  <2>7. CASE RivalAcquires
    BY <2>7 DEF RivalAcquires, TypeOK
  <2>8. CASE RivalReads
    <3>1. PICK prior \in {current, [b \in Builders |-> NoRoot]} :
            PriorRoots(prior) /\ rival' = [rival EXCEPT !.phase = "merging", !.prior = prior]
      BY <2>8 DEF RivalReads
    <3>2. prior = current
      BY <3>1, <1>2 DEF PriorRoots
    <3>3. rival'.prior = current /\ current' = current
      BY <3>1, <3>2, <2>8 DEF RivalReads, TypeOK
    <3> QED
      BY <3>3
  <2>9. CASE RivalWrites
    BY <2>9 DEF RivalWrites
  <2> QED
    BY StepCases, <2>1, <2>2, <2>3, <2>4, <2>5, <2>6, <2>7, <2>8, <2>9
<1> QED
  BY <1>1, <1>2 DEF TypeOK

\* A build starts with nothing read, is aborted by a shutdown only, and nothing is
\* stranded while it runs.
LEMMA BuildFreshStep ==
  ASSUME TypeOK, BuildFresh, [Next]_vars
  PROVE  BuildFresh'
<1>0. /\ build \in BuildRecords /\ BuildFresh
      /\ NoBuild.phase = "idle" /\ NoBuild.status = "ok" /\ NoBuild.content = Nothing
  BY DEF TypeOK, NoBuild
<1> USE DEF BuildFresh
<1>1. CASE UNCHANGED <<build, stranded, shouldExit>>
  BY <1>1, <1>0
<1>2. CASE RequestShutdown
  BY <1>2, <1>0 DEF RequestShutdown
<1>3. CASE RunBuild
  <2>1. CASE running
    BY <2>1, <1>3, <1>0 DEF RunBuild
  <2>2. CASE ~running
    <3> DEFINE queued == pendingPaths # {}
    <3>1. build' = [NoBuild EXCEPT !.phase = "locking", !.queued = queued]
      BY <2>2, <1>3 DEF RunBuild
    <3> HIDE DEF queued
    <3>2. build'.phase = "locking" /\ build'.status = "ok" /\ build'.content = Nothing
      BY <3>1 DEF NoBuild
    <3> QED
      BY <3>2, <2>2, <1>3 DEF RunBuild
  <2> QED
    BY <2>1, <2>2
<1>4. CASE AcquireIndexLock
  <2>1. UNCHANGED <<stranded, shouldExit>> /\ build.phase = "locking"
    BY <1>4 DEF AcquireIndexLock
  <2>2. CASE shouldExit
    <3>1. build'.phase = "closing"
      BY <2>2, <1>4, EndsWithTyped DEF AcquireIndexLock
    <3> QED
      BY <3>1, <2>1, <2>2, <1>0
  <2>3. CASE ~shouldExit
    <3>1. /\ build'.phase = "discovering" /\ build'.content = build.content
          /\ build'.status = build.status
      BY <2>3, <1>4, <1>0 DEF AcquireIndexLock, To, BuildRecords
    <3> QED
      BY <3>1, <2>1, <1>0
  <2> QED
    BY <2>2, <2>3
<1>5. CASE LockUnavailable \/ Settle
  BY <1>5, <1>0 DEF LockUnavailable, Settle
<1>6. CASE Discover \/ ModesBuilt \/ BuildFails \/ PromoteWrites
  <2>1. UNCHANGED <<stranded, shouldExit>> /\ build.phase # "idle"
    BY <1>6 DEF Discover, ModesBuilt, BuildFails, PromoteWrites
  <2>2. CASE \E status \in {"ok", "aborted", "error"} :
               build' = EndsWith(status) /\ (status = "aborted" => shouldExit)
    BY <2>1, <2>2, <1>0, EndsWithTyped
  <2>3. CASE Discover /\ ~shouldExit
    BY <2>1, <2>3, <1>0, DiscoverReads
  <2>4. CASE ModesBuilt /\ ~shouldExit
    <3>1. build'.phase = "promoting" /\ build'.status = build.status
      BY <2>4, <1>0 DEF ModesBuilt, To, BuildRecords
    <3> QED
      BY <3>1, <2>1, <1>0
  <2> QED
    BY <1>6, <2>2, <2>3, <2>4 DEF Discover, ModesBuilt, BuildFails, PromoteWrites
<1>7. CASE PromoteReads \/ MarkWatchPhase \/ ReleaseIndexLock
  <2>1. build'.phase \notin {"idle", "locking", "discovering"}
    BY <1>7, <1>0 DEF PromoteReads, MarkWatchPhase, ReleaseIndexLock, To, BuildRecords
  <2>2. build'.status \in {build.status, "error"}
    BY <1>7, <1>0 DEF PromoteReads, MarkWatchPhase, ReleaseIndexLock, To, BuildRecords
  <2>3. build.phase # "idle" /\ UNCHANGED <<stranded, shouldExit>>
    BY <1>7 DEF PromoteReads, MarkWatchPhase, ReleaseIndexLock
  <2> QED
    BY <2>1, <2>2, <2>3
<1>8. ASSUME NEW p \in Paths, ReadFile(p) PROVE BuildFresh'
  <2>1. build'.phase = "reading" /\ build'.status = build.status
    BY <1>8, FileRead
  <2> QED
    BY <2>1, <1>8 DEF ReadFile
<1>9. ASSUME NEW p \in Paths, FileChanges(p) \/ HandleEvent(p) \/ ApplyUpdates(p)
      PROVE  UNCHANGED <<build, stranded, shouldExit>>
  BY <1>9 DEF FileChanges, HandleEvent, RecordAddOrChange, RecordRemove, ApplyUpdates,
              ClassifyPath, UpdateTrackedEntry, UpdateFails
<1>10. CASE FlushPendingUpdates \/ Wait \/ RivalAcquires \/ RivalStep \/ UNCHANGED vars
  <2>1. UNCHANGED <<build, stranded, shouldExit>>
    BY <1>10 DEF FlushPendingUpdates, Wait, RivalAcquires, RivalStep, RivalReads, RivalWrites,
                 vars
  <2> QED
    BY <2>1, <1>1
<1> QED
  BY <1>1, <1>2, <1>3, <1>4, <1>5, <1>6, <1>7, <1>8, <1>9, <1>10
     DEF Next, EventLoop, BuildStep

\* The index of the watch is replaced by its own promotions only.
LEMMA IndexedStep ==
  ASSUME TypeOK, WatchRootRead, [Next]_vars, ~unread', ~PromoteWrites
  PROVE  indexed' = indexed /\ skipped' = skipped /\ ~unread
<1>1. ~unread
  BY StepCases, AsideLeavesRest
     DEF others, BuildStarts, BuildGivesUp, BuildAborts, BuildGoes, BuildWorks,
         BuildPromotes, BuildCloses, Settle, RivalAcquires, RivalReads, RivalWrites,
         PriorRoots, indexVars
<1>2. CASE RivalWrites
  <2>1. rival.phase = "merging" /\ rival.prior["watch"] = current["watch"]
    BY <1>1, <1>2 DEF RivalWrites, WatchRootRead
  <2>2. /\ current' = [rival.prior EXCEPT !["rival"] = rival.promoted + 1]
        /\ rival.prior \in Roots
    BY <1>2 DEF RivalWrites, PromotedRoots, TypeOK
  <2>3. current'["watch"] = current["watch"]
    BY <2>1, <2>2 DEF Roots, Builders
  <2> QED
    BY <2>3, <1>1, <1>2 DEF RivalWrites
<1>3. CASE ~RivalWrites
  <2>1. indexed' = indexed /\ skipped' = skipped
    BY <1>3 DEF Next, EventLoop, BuildStep, RivalStep, FileChanges, HandleEvent,
       RecordAddOrChange, RecordRemove, ApplyUpdates, ClassifyPath, UpdateTrackedEntry,
       UpdateFails, FlushPendingUpdates, RunBuild, AcquireIndexLock, LockUnavailable, Discover,
       ModesBuilt, BuildFails, PromoteReads, MarkWatchPhase, ReleaseIndexLock, Settle, ReadFile,
       RequestShutdown, RivalAcquires, RivalReads, Wait, vars, indexVars
  <2> QED
    BY <1>1, <2>1
<1> QED
  BY <1>2, <1>3

\* Changes are carried into the index by every step: one step per action.
LEMMA PathsCurrentStep ==
  ASSUME TypeOK, CurrencyInv, [Next]_vars
  PROVE  PathsCurrent'
<1> SUFFICES ASSUME ~stranded', ~unread', ~shouldExit', NEW p \in Paths
    PROVE  RemovalCarried(p)' /\ ChangeCarried(p)'
  BY DEF PathsCurrent, Excused
<1>0. /\ build \in BuildRecords /\ BuildFresh /\ EntryKept(p) /\ BundleSound(p)
      /\ disk \in [Paths -> Nat] /\ updating \in [Paths -> Progress]
      /\ tracked \in [Paths -> Nat] /\ build.toRead \in [Paths -> Nat]
      /\ NoBuild.phase = "idle" /\ NoBuild.content = Nothing /\ Nothing[p] = 0
  BY DEF TypeOK, CurrencyInv, EntriesKept, BundlesSound, BuildRecords, NoBuild, Nothing, Contents
<1>1. ~shouldExit
  BY DEF Next, EventLoop, BuildStep, RivalStep, FileChanges, HandleEvent,
       RecordAddOrChange, RecordRemove, ApplyUpdates, ClassifyPath, UpdateTrackedEntry,
       UpdateFails, FlushPendingUpdates, RunBuild, AcquireIndexLock, LockUnavailable, Discover,
       ModesBuilt, BuildFails, PromoteReads, PromoteWrites, MarkWatchPhase, ReleaseIndexLock,
       Settle, ReadFile, RequestShutdown, RivalAcquires, RivalReads, RivalWrites, Wait, vars,
       TypeOK
<1>2. ~PromoteWrites => indexed' = indexed /\ skipped' = skipped
  BY IndexedStep DEF CurrencyInv
<1>3. ~unread
  <2>1. PromoteWrites => unread' = unread
    BY DEF PromoteWrites
  <2> QED
    BY <2>1, IndexedStep DEF CurrencyInv
<1>4. ASSUME ~stranded PROVE RemovalCarried(p) /\ ChangeCarried(p)
  BY <1>1, <1>3, <1>4 DEF CurrencyInv, PathsCurrent, Excused
<1>5. BuildComing' => RemovalCarried(p)' /\ ChangeCarried(p)'
  BY DEF RemovalCarried, ChangeCarried
<1>6. PromoteWrites => build' # build
  <2> SUFFICES ASSUME PromoteWrites PROVE build' # build
    OBVIOUS
  <2>1. build'.phase = "closing" /\ build.phase = "merging"
    BY EndsWithTyped DEF PromoteWrites
  <2> QED
    BY <2>1
<1>7. ASSUME NEW q \in Paths, FileChanges(q) PROVE RemovalCarried(p)' /\ ChangeCarried(p)'
  <2>1. /\ UNCHANGED <<tracked, pendingUpdates, updating, timer, build, pending, stranded, misled>>
        /\ events' = events \cup {q} /\ (q # p => disk'[p] = disk[p]) /\ ~PromoteWrites
    BY <1>7, <1>0, <1>6 DEF FileChanges, queueVars
  <2> QED
    BY <2>1, <1>2, <1>4
       DEF RemovalCarried, ChangeCarried, BuildComing, UpdateComing, ToBeRead, FreshToRead,
           Carries, running
<1>8. ASSUME NEW q \in Paths, RecordAddOrChange(q)
      PROVE  RemovalCarried(p)' /\ ChangeCarried(p)'
  <2>1. /\ UNCHANGED <<disk, tracked, updating, timer, build, pending, stranded, misled>>
        /\ events' = events \ {q} /\ pendingUpdates' = pendingUpdates \cup {q}
    BY <1>8 DEF RecordAddOrChange, fileVars
  <2>2. ~PromoteWrites
    BY <1>8, <1>6 DEF RecordAddOrChange
  <2> QED
    BY <2>1, <2>2, <1>2, <1>4
       DEF RemovalCarried, ChangeCarried, BuildComing, UpdateComing, ToBeRead, FreshToRead,
           Carries, running
<1>9. ASSUME NEW q \in Paths, RecordRemove(q)
      PROVE  RemovalCarried(p)' /\ ChangeCarried(p)'
  <2>1. /\ UNCHANGED <<disk, pendingUpdates, updating, build, pending, stranded>>
        /\ events' = events \ {q} /\ tracked' = [tracked EXCEPT ![q] = 0] /\ disk[q] = 0
        /\ timer' = (timer \/ tracked[q] # 0)
        /\ q # p => (p \in misled' <=> p \in misled)
    BY <1>9, <1>1 DEF RecordRemove, fileVars
  <2>2. ~PromoteWrites
    BY <1>9, <1>6 DEF RecordRemove
  <2>3. CASE tracked[q] # 0
    BY <2>3, <2>1, <1>5 DEF BuildComing
  <2>4. CASE tracked[q] = 0
    <3>1. tracked' = tracked /\ timer' = timer
      BY <2>1, <2>4, <1>0 DEF TypeOK
    <3>2. RemovalCarried(p)'
      BY <3>1, <2>1, <2>2, <1>2, <1>4 DEF RemovalCarried, BuildComing, ToBeRead, Carries, running
    <3>3. CASE q = p
      BY <3>1, <3>2, <3>3, <2>1, <2>4 DEF RemovalCarried, ChangeCarried
    <3>4. CASE q # p
      <4>1. (UpdateComing(p) => UpdateComing(p)') /\ (p \in misled => p \in misled')
        BY <3>4, <2>1 DEF UpdateComing
      <4> QED
        BY <3>1, <3>2, <4>1, <2>1, <2>2, <1>2, <1>4
           DEF ChangeCarried, BuildComing, ToBeRead, FreshToRead, Carries, running
    <3> QED
      BY <3>2, <3>3, <3>4
  <2> QED
    BY <2>3, <2>4
<1>10. ASSUME FlushPendingUpdates PROVE RemovalCarried(p)' /\ ChangeCarried(p)'
  <2>1. /\ UNCHANGED <<disk, events, tracked, timer, build, pending, stranded, misled>>
        /\ updating[p] = "none"
        /\ updating'[p] = IF p \in pendingUpdates THEN "queued" ELSE "none"
    BY <1>10 DEF FlushPendingUpdates, fileVars
  <2>2. ~PromoteWrites
    BY <1>10, <1>6 DEF FlushPendingUpdates
  <2> QED
    BY <2>1, <2>2, <1>2, <1>4
       DEF RemovalCarried, ChangeCarried, BuildComing, UpdateComing, ToBeRead, FreshToRead,
           Carries, running
<1>11. ASSUME NEW q \in Paths, ClassifyPath(q)
       PROVE  RemovalCarried(p)' /\ ChangeCarried(p)'
  <2>1. PICK stat \in {disk[q], 0} :
          /\ misled' = IF stat = disk[q] THEN misled \ {q} ELSE misled \cup {q}
          /\ updating' = [updating EXCEPT ![q] =
               IF stat # 0 THEN "present" ELSE IF tracked[q] # 0 THEN "removed" ELSE "absent"]
    BY <1>11 DEF ClassifyPath
  <2>2. UNCHANGED <<disk, events, tracked, pendingUpdates, timer, build, pending, stranded>>
    BY <1>11 DEF ClassifyPath, fileVars
  <2>3. ~PromoteWrites
    BY <2>2, <1>6
  <2>4. RemovalCarried(p)'
    BY <2>2, <2>3, <1>2, <1>4 DEF RemovalCarried, BuildComing, ToBeRead, Carries, running
  <2>5. CASE q # p
    <3>1. updating'[p] = updating[p] /\ (p \in misled' <=> p \in misled)
      BY <2>1, <2>5, <1>0
    <3> QED
      BY <3>1, <2>2, <2>3, <2>4, <1>2, <1>4
         DEF ChangeCarried, BuildComing, UpdateComing, ToBeRead, FreshToRead, Carries, running
  <2>6. CASE q = p
    <3>1. /\ stat = disk[p] \/ p \in misled'
          /\ updating'[p] =
               IF stat # 0 THEN "present" ELSE IF tracked[p] # 0 THEN "removed" ELSE "absent"
      BY <2>1, <2>6, <1>0
    <3>2. CASE p \in misled' \/ updating'[p] \in {"present", "removed"}
      BY <3>2, <2>4 DEF ChangeCarried, UpdateComing
    <3>3. CASE tracked[p] = 0 /\ disk[p] = 0
      BY <3>3, <2>2, <2>4 DEF RemovalCarried, ChangeCarried
    <3> QED
      BY <3>1, <3>2, <3>3, <2>4
  <2> QED
    BY <2>5, <2>6
<1>12. ASSUME NEW q \in Paths, UpdateTrackedEntry(q)
       PROVE  RemovalCarried(p)' /\ ChangeCarried(p)'
  <2>1. /\ UNCHANGED <<disk, events, build, pending, stranded, misled>>
        /\ timer' = (timer \/ updating[q] # "absent")
        /\ updating[q] \in {"present", "removed", "absent"}
        /\ tracked' = [tracked EXCEPT ![q] = seen[q]]
    BY <1>12, <1>1 DEF UpdateTrackedEntry, fileVars
  <2>2. ~PromoteWrites
    BY <2>1, <1>6
  <2>3. CASE updating[q] # "absent"
    BY <2>3, <2>1, <1>5 DEF BuildComing
  <2>4. CASE updating[q] = "absent"
    <3>1. tracked[q] = 0 /\ seen[q] = 0
      BY <2>4 DEF CurrencyInv, EntriesKept, EntryKept
    <3>2. tracked' = tracked /\ timer' = timer
      BY <3>1, <2>1, <2>4, <1>0 DEF TypeOK
    <3>3. UpdateComing(p) => UpdateComing(p)'
      <4>1. Ends(q, "done") /\ updating[q] # "none"
        BY <1>12 DEF UpdateTrackedEntry
      <4>2. /\ pendingUpdates \subseteq pendingUpdates'
            /\ LET ended == IF p = q THEN "done" ELSE updating[p] IN
               \/ updating'[p] = ended
               \/ updating'[p] = "none" /\ ended \in {"done", "none"}
               \/ updating'[p] = "none" /\ p \in pendingUpdates'
        BY <4>1, EndsPath
      <4> QED
        BY <4>2, <2>1, <2>4 DEF UpdateComing
    <3> QED
      BY <3>2, <3>3, <2>1, <2>2, <1>2, <1>4
         DEF RemovalCarried, ChangeCarried, BuildComing, ToBeRead, FreshToRead, Carries, running
  <2> QED
    BY <2>3, <2>4
<1>13. ASSUME NEW q \in Paths, UpdateFails(q)
       PROVE  RemovalCarried(p)' /\ ChangeCarried(p)'
  <2>1. /\ UNCHANGED <<disk, events, tracked, timer, build, pending, stranded, misled>>
        /\ updating[q] = "queued"
    BY <1>13 DEF UpdateFails, fileVars
  <2>2. ~PromoteWrites
    BY <2>1, <1>6
  <2>3. UpdateComing(p) => UpdateComing(p)'
    <3>1. Ends(q, "failed") /\ updating[q] # "none"
      BY <1>13 DEF UpdateFails
    <3>2. /\ pendingUpdates \subseteq pendingUpdates'
          /\ LET ended == IF p = q THEN "failed" ELSE updating[p] IN
             \/ updating'[p] = ended
             \/ updating'[p] = "none" /\ ended \in {"done", "none"}
             \/ updating'[p] = "none" /\ p \in pendingUpdates'
      BY <3>1, EndsPath
    <3> QED
      BY <3>2, <2>1 DEF UpdateComing
  <2> QED
    BY <2>1, <2>2, <2>3, <1>2, <1>4
       DEF RemovalCarried, ChangeCarried, BuildComing, ToBeRead, FreshToRead, Carries, running
<1>14. ASSUME RunBuild PROVE RemovalCarried(p)' /\ ChangeCarried(p)'
  <2>1. CASE running
    BY <2>1, <1>14, <1>5 DEF RunBuild, BuildComing, running
  <2>2. CASE ~running
    <3>1. build'.phase = "locking"
      <4> DEFINE queued == pendingPaths # {}
      <4>1. build' = [NoBuild EXCEPT !.phase = "locking", !.queued = queued]
        BY <2>2, <1>14 DEF RunBuild
      <4> HIDE DEF queued
      <4> QED
        BY <4>1 DEF NoBuild
    <3> QED
      BY <3>1, <1>5 DEF BuildComing
  <2> QED
    BY <2>1, <2>2
<1>15. ASSUME AcquireIndexLock PROVE RemovalCarried(p)' /\ ChangeCarried(p)'
  <2>1. build'.phase = "discovering"
    BY <1>15, <1>0, <1>1 DEF AcquireIndexLock, To, BuildRecords
  <2> QED
    BY <2>1, <1>5 DEF BuildComing
<1>16. ASSUME LockUnavailable PROVE RemovalCarried(p)' /\ ChangeCarried(p)'
  <2>1. timer'
    BY <1>16 DEF LockUnavailable, TypeOK
  <2> QED
    BY <2>1, <1>5 DEF BuildComing
<1>17. ASSUME Discover PROVE RemovalCarried(p)' /\ ChangeCarried(p)'
  <2>1. /\ build'.phase = "reading" /\ build'.toRead = tracked
        /\ build'.content[p] = 0
    BY <1>17, <1>0, <1>1, DiscoverReads DEF BuildFresh
  <2>2. UNCHANGED entryVars
    BY <1>17, EntriesFrame DEF BuildStep
  <2>3. UpdateComing(p) \/ p \in misled \/ tracked[p] = disk[p]
    BY <1>0 DEF EntryKept, UpdateComing
  <2>4. RemovalCarried(p)'
    BY <2>1, <2>2 DEF entryVars, RemovalCarried, ToBeRead, Carries
  <2>5. ChangeCarried(p)'
    BY <2>1, <2>2, <2>3
       DEF entryVars, ChangeCarried, UpdateComing, ToBeRead, FreshToRead, Carries
  <2> QED
    BY <2>4, <2>5
<1>18. ASSUME NEW q \in Paths, ReadFile(q) PROVE RemovalCarried(p)' /\ ChangeCarried(p)'
  <2>1. /\ build.phase = "reading" /\ build'.phase = "reading" /\ build.toRead[q] # 0
        /\ UNCHANGED <<timer, pending, stranded>>
    BY <1>18, FileRead DEF ReadFile
  <2>2. UNCHANGED entryVars
    BY <1>18, EntriesFrame DEF BuildStep
  <2>3. build'.toRead = [build.toRead EXCEPT ![q] = 0] /\ build.skipped \subseteq build'.skipped
    BY <1>18, FileRead
  <2>4. ~stranded
    BY <2>1
  <2>5. BuildComing => BuildComing'
    BY <2>1 DEF BuildComing, running
  <2>6. CASE q # p
    <3>1. build'.content[p] = build.content[p] /\ build'.toRead[p] = build.toRead[p]
      BY <2>6, <2>3, <1>0, <1>18, FileRead
    <3> QED
      BY <3>1, <2>1, <2>2, <2>3, <2>4, <2>5, <1>4
         DEF RemovalCarried, ChangeCarried, UpdateComing, ToBeRead, FreshToRead, Carries,
             entryVars
  <2>7. CASE q = p
    <3>1. build'.toRead[p] = 0 /\ ToBeRead(p)
      BY <2>1, <2>3, <2>7, <1>0 DEF ToBeRead
    <3>2. RemovalCarried(p)'
      BY <3>1, <2>2, <2>4, <2>5, <1>4 DEF RemovalCarried, entryVars
    <3>3. CASE ~FreshToRead(p)
      BY <3>1, <3>2, <3>3, <2>2, <2>4, <2>5, <1>4
         DEF ChangeCarried, UpdateComing, entryVars
    <3>4. CASE FreshToRead(p)
      <4>1. build.toRead[p] = disk[p] /\ disk[p] # 0
        BY <3>1, <3>4 DEF FreshToRead, ToBeRead
      <4>2. build.manifest[p] = build.toRead[p] => bundle[p] = disk[p]
        BY <4>1, <1>0 DEF BundleSound
      <4>3. build'.content[p] = disk[p] \/ p \in build'.skipped
        BY <4>1, <4>2, <2>7, <1>18, FileRead
      <4> QED
        BY <4>3, <3>1, <3>2, <2>1, <2>2 DEF ChangeCarried, ToBeRead, Carries, entryVars
    <3> QED
      BY <3>3, <3>4
  <2> QED
    BY <2>6, <2>7
<1>19. ASSUME ModesBuilt PROVE RemovalCarried(p)' /\ ChangeCarried(p)'
  <2>1. /\ build' = [To("promoting") EXCEPT !.manifest = Nothing] /\ build.phase = "reading"
        /\ build.toRead = Nothing /\ UNCHANGED <<timer, pending, stranded>>
    BY <1>19, <1>1 DEF ModesBuilt
  <2>2. /\ build'.phase = "promoting" /\ build'.content = build.content
        /\ build'.skipped = build.skipped
    BY <2>1, <1>0 DEF To, BuildRecords
  <2>3. UNCHANGED entryVars
    BY <1>19, EntriesFrame DEF BuildStep
  <2> QED
    BY <2>1, <2>2, <2>3, <1>0, <1>4
       DEF RemovalCarried, ChangeCarried, BuildComing, UpdateComing, ToBeRead, FreshToRead,
           Carries, running, entryVars
<1>20. ASSUME BuildFails PROVE RemovalCarried(p)' /\ ChangeCarried(p)'
  <2>1. build'.phase = "closing" /\ build'.status = "error"
    BY <1>20, EndsWithTyped DEF BuildFails
  <2> QED
    BY <2>1 DEF RemovalCarried, ChangeCarried, ToBeRead, Carries
<1>21. ASSUME PromoteReads PROVE RemovalCarried(p)' /\ ChangeCarried(p)'
  <2>1. PICK prior : build' = [To("merging") EXCEPT !.prior = prior]
    BY <1>21 DEF PromoteReads
  <2>2. /\ build'.phase = "merging" /\ build'.content = build.content
        /\ build'.skipped = build.skipped
        /\ build.phase = "promoting" /\ UNCHANGED <<timer, pending, stranded>>
    BY <2>1, <1>0, <1>21 DEF To, BuildRecords, PromoteReads
  <2>3. UNCHANGED entryVars
    BY <1>21, EntriesFrame DEF BuildStep
  <2> QED
    BY <2>2, <2>3, <1>0, <1>4
       DEF RemovalCarried, ChangeCarried, BuildComing, UpdateComing, ToBeRead, FreshToRead,
           Carries, running, entryVars
<1>22. ASSUME PromoteWrites PROVE RemovalCarried(p)' /\ ChangeCarried(p)'
  <2>1. /\ build.phase = "merging" /\ indexed' = build.content /\ skipped' = build.skipped
        /\ UNCHANGED <<timer, pending, stranded>>
    BY <1>22 DEF PromoteWrites
  <2>2. build'.phase = "closing"
    BY <1>22, EndsWithTyped DEF PromoteWrites
  <2>3. UNCHANGED entryVars
    BY <1>22, EntriesFrame DEF BuildStep
  <2> QED
    BY <2>1, <2>2, <2>3, <1>0, <1>4
       DEF RemovalCarried, ChangeCarried, BuildComing, UpdateComing, ToBeRead, FreshToRead,
           Carries, running, entryVars
<1>23. ASSUME MarkWatchPhase \/ ReleaseIndexLock
       PROVE  RemovalCarried(p)' /\ ChangeCarried(p)'
  <2>1. /\ build.phase \in {"closing", "releasing"} /\ build'.phase \in {"releasing", "settling"}
        /\ build'.status \in {build.status, "error"}
    BY <1>23, <1>0 DEF MarkWatchPhase, ReleaseIndexLock, To, BuildRecords
  <2>2. UNCHANGED <<timer, pending, stranded>> /\ ~PromoteWrites
    BY <1>23 DEF MarkWatchPhase, ReleaseIndexLock, PromoteWrites
  <2>3. UNCHANGED entryVars
    BY <1>23, EntriesFrame DEF BuildStep
  <2> QED
    BY <2>1, <2>2, <2>3, <1>0, <1>2, <1>4
       DEF RemovalCarried, ChangeCarried, BuildComing, UpdateComing, ToBeRead, FreshToRead,
           Carries, running, entryVars
<1>24. ASSUME Settle PROVE RemovalCarried(p)' /\ ChangeCarried(p)'
  <2>1. /\ build.phase = "settling" /\ build'.phase = "idle"
        /\ timer \/ Replay => timer'
        /\ build.status = "error" => timer'
    BY <1>24, <1>0, <1>1 DEF Settle, TypeOK
  <2>2. ~PromoteWrites
    BY <1>24 DEF Settle, PromoteWrites
  <2>3. UNCHANGED entryVars
    BY <1>24, EntriesFrame DEF BuildStep
  <2>4. build.status \in {"ok", "error"}
    BY <1>0, <1>1 DEF BuildFresh, BuildRecords
  <2>5. CASE timer'
    BY <2>5, <1>5 DEF BuildComing
  <2>6. CASE ~timer'
    <3>1. build.status = "ok" /\ ~timer /\ ~pending
      BY <2>6, <2>1, <2>4 DEF Replay
    <3> QED
      BY <3>1, <2>1, <2>2, <2>3, <1>0, <1>2, <1>4
         DEF RemovalCarried, ChangeCarried, BuildFresh, BuildComing, UpdateComing, ToBeRead,
             FreshToRead, Carries, entryVars
  <2> QED
    BY <2>5, <2>6
<1>25. ASSUME RivalAcquires \/ RivalStep \/ Wait \/ UNCHANGED vars
       PROVE  RemovalCarried(p)' /\ ChangeCarried(p)'
  <2>1. UNCHANGED <<timer, pending, stranded, build>>
    BY <1>25, <1>0 DEF RivalAcquires, RivalStep, RivalReads, RivalWrites, Wait, vars
  <2>2. ~PromoteWrites
    BY <2>1, <1>6
  <2>3. UNCHANGED entryVars
    BY <1>25, EntriesFrame
  <2> QED
    BY <2>1, <2>2, <2>3, <1>2, <1>4
       DEF RemovalCarried, ChangeCarried, BuildComing, UpdateComing, ToBeRead, FreshToRead,
           Carries, running, entryVars
<1>26. ~RequestShutdown
  BY DEF RequestShutdown
<1> QED
  BY <1>7, <1>8, <1>9, <1>10, <1>11, <1>12, <1>13, <1>14, <1>15, <1>16, <1>17, <1>18, <1>19,
     <1>20, <1>21, <1>22, <1>23, <1>24, <1>25, <1>26
     DEF Next, EventLoop, HandleEvent, ApplyUpdates, BuildStep

\* When the watch is at rest the index holds what is on disk, file by file, whatever the
\* order of events, updates, timers, cached bundles and reads of a build, unless the last
\* build was stranded, current.json could not be read, or the watch is ending; a file may
\* differ that could not be read, or whose entry was set by a look at it that failed or that
\* a removal overtook.
THEOREM IndexCurrent == Spec => []IndexCurrentAtRest
<1>1. Init => LockHeld /\ CurrencyInv
  BY CurrencyInit DEF Init, LockHeld, NoBuild
<1>2. TypeOK /\ LockHeld /\ CurrencyInv /\ [Next]_vars => LockHeld' /\ CurrencyInv'
  BY LockHeldStep, StatsStep, BundlesStep, EntriesStep, BuildFreshStep, WatchRootStep,
     PathsCurrentStep DEF CurrencyInv
<1>3. TypeOK /\ CurrencyInv => IndexCurrentAtRest
  <2> SUFFICES ASSUME TypeOK, CurrencyInv, AtRest, ~Excused, NEW p \in Paths
      PROVE  indexed[p] = disk[p] \/ p \in skipped \/ p \in misled
    BY DEF IndexCurrentAtRest, IsCurrent
  <2>1. ChangeCarried(p)
    BY DEF CurrencyInv, PathsCurrent
  <2> QED
    BY <2>1
       DEF AtRest, ChangeCarried, BuildComing, UpdateComing, FreshToRead, ToBeRead, Carries,
           running
<1> QED
  BY WatchTypeCorrect, <1>1, <1>2, <1>3, PTL DEF Spec
=============================================================================
