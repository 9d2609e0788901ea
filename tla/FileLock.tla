------------------------------- MODULE FileLock -------------------------------
(***************************************************************************)
(* The lock files of shared/locks/file-lock.js, on which the index lock    *)
(* (index/build/lock.js), the service queue and the embeddings cache rely. *)
(*                                                                         *)
(* A process takes the lock by creating a file exclusively and writing its *)
(* pid and a fresh lock id into it.  A contender that finds the file reads *)
(* it, and removes it when its owner is dead or when nobody has signed it  *)
(* for too long.  Every file operation is one action, because every one is *)
(* awaited: between any two of them other processes run.                   *)
(*                                                                         *)
(* Abstracted: the clock, as the age of the file.  A killed process stays  *)
(* dead; a restarted one has a new pid and is another process.             *)
(***************************************************************************)
EXTENDS Integers

CONSTANTS
  Processes,
  ForceStale,   \* forceStaleCleanup: whether an old lock is taken from a live owner
  MaxLocks,     \* bound on the lock files ever created
  MaxCrashes,   \* bound on the crashes explored
  Faults        \* subset of {"crash", "stall", "rm", "read"}

ASSUME LockAssumption ==
  /\ ForceStale \in BOOLEAN
  /\ {MaxLocks, MaxCrashes} \subseteq Nat
  /\ Faults \subseteq {"crash", "stall", "rm", "read"}

VARIABLES
  file,     \* the file at the lock path: its lock id, owner, contents and age
  proc,     \* where each process is in acquireFileLock or release
  created,  \* the lock ids used so far
  crashes,
  robbed,   \* history: has a file been removed under its owner?
  failed,   \* the ids of the locks whose release reported failure
  swallowed \* history: the ids of the locks whose cleanup could not remove the file

history == <<robbed, failed, swallowed>>
vars == <<file, proc, created, crashes, history>>

\* Ages: past the grace of an unsigned lock file, past staleMs.
Graced == 1
Old    == 2

Unlocked == [id |-> 0]
At(phase)        == [phase |-> phase]
With(phase, id)  == [phase |-> phase, id |-> id]
Exists           == file.id # 0
Signed           == Exists /\ file.written

\* The phases of a process that has created a file and not yet given it up.
OwnerPhases == {"writing", "cleaning", "holding", "releasing"}
Owns(p, id) == proc[p].phase \in OwnerPhases /\ proc[p].id = id
Dead(p)     == proc[p].phase = "dead"

LockFiles == [id : Nat \ {0}, owner : Processes, written : BOOLEAN, age : 0..Old]

ProcessStates ==
  [phase : {"idle", "opening", "inspecting", "waiting", "removing", "dead"}]
  \cup [phase : {"judging"}, id : Nat, alive : BOOLEAN]
  \cup [phase : OwnerPhases \cup {"checking"}, id : Nat \ {0}]
  \cup [phase : {"rechecking"}, id : Nat \ {0}, written : BOOLEAN]

TypeOK ==
  /\ file \in {Unlocked} \cup LockFiles
  /\ proc \in [Processes -> ProcessStates]
  /\ created \in Nat /\ crashes \in Nat
  /\ robbed \in BOOLEAN
  /\ failed \subseteq Nat /\ swallowed \subseteq Nat

Init ==
  /\ file = Unlocked
  /\ proc = [p \in Processes |-> At("idle")]
  /\ created = 0 /\ crashes = 0
  /\ robbed = FALSE
  /\ failed = {} /\ swallowed = {}

\* p's part of a step, and the step on everything else.
Goes(p, state) == proc' = [proc EXCEPT ![p] = state]

(* fs.rm(lockPath): whatever file is there goes. *)
Rm(p) ==
  /\ file' = Unlocked
  /\ robbed' = (robbed \/ (Exists /\ \E q \in Processes \ {p} : Owns(q, file.id)))

-----------------------------------------------------------------------------
(* acquireFileLock *)

Begin(p) ==
  /\ proc[p].phase \in {"idle", "waiting"}
  /\ Goes(p, At("opening"))
  /\ UNCHANGED <<file, created, crashes, history>>

\* The deadline passes, or the caller aborts.
GiveUp(p) ==
  /\ proc[p].phase \in {"opening", "waiting"}
  /\ Goes(p, At("idle"))
  /\ UNCHANGED <<file, created, crashes, history>>

Create(p) ==
  /\ created < MaxLocks
  /\ created' = created + 1
  /\ file' = [id |-> created + 1, owner |-> p, written |-> FALSE, age |-> 0]
  /\ Goes(p, With("writing", created + 1))

\* Mutant: opened for writing, exclusive or not.
OpenAnyway(p) ==
  /\ proc[p].phase = "opening"
  /\ Create(p)
  /\ UNCHANGED <<crashes, history>>

(* fs.open(lockPath, 'wx') *)
Open(p) ==
  /\ proc[p].phase = "opening"
  /\ IF Exists THEN Goes(p, At("inspecting")) /\ UNCHANGED <<file, created>>
               ELSE Create(p)
  /\ UNCHANGED <<crashes, history>>

(* The owner signs the file it has open, which may no longer be at the     *)
(* lock path.                                                              *)
SignedBy(p) ==
  IF file.id = proc[p].id THEN [file EXCEPT !.written = TRUE, !.age = 0] ELSE file

Write(p) ==
  /\ proc[p].phase = "writing"
  /\ file' = SignedBy(p)
  /\ Goes(p, With("holding", proc[p].id))
  /\ UNCHANGED <<created, crashes, history>>

(* The write fails; or it is complete and closing the file fails.          *)
WriteFails(p) ==
  /\ proc[p].phase = "writing"
  /\ file' \in {file, SignedBy(p)}
  /\ Goes(p, With("cleaning", proc[p].id))
  /\ UNCHANGED <<created, crashes, history>>

\* Mutant: a failed write leaves the file behind.
CleanupSkipped(p) ==
  /\ proc[p].phase = "cleaning"
  /\ Goes(p, At("idle"))
  /\ UNCHANGED <<file, created, crashes, history>>

(* The catch block of a failed write.  The caller gets the error of the    *)
(* write; that of the removal is swallowed.                                *)
Cleanup(p) ==
  /\ proc[p].phase = "cleaning"
  /\ Goes(p, At("idle"))
  /\ \/ Rm(p) /\ UNCHANGED swallowed
     \/ /\ "rm" \in Faults
        /\ swallowed' = swallowed \cup {proc[p].id}
        /\ UNCHANGED <<file, robbed>>
  /\ UNCHANGED <<created, crashes, failed>>

-----------------------------------------------------------------------------
(* acquireFileLock, when the file exists *)

(* readLockInfo: what it can tell of a signed file, unless reading fails.  *)
Readings == {Signed} \cup (IF "read" \in Faults THEN {FALSE} ELSE {})

(* readLockInfo and isProcessAlive: an unsigned, missing or unreadable     *)
(* file tells no owner (id 0).                                             *)
Inspect(p) ==
  /\ proc[p].phase = "inspecting"
  /\ \E known \in Readings :
       Goes(p, [phase |-> "judging",
                id    |-> IF known THEN file.id ELSE 0,
                alive |-> known /\ ~Dead(file.owner)])
  /\ UNCHANGED <<file, created, crashes, history>>

\* Mutant: an unsigned lock is never reclaimed.
ReclaimableSigned(p) ==
  \/ proc[p].id # 0 /\ ~proc[p].alive
  \/ ForceStale /\ Exists /\ file.age = Old

\* Is the file to be reclaimed, by what was read and by its present age?
Reclaimable(p) ==
  \/ proc[p].id # 0 /\ ~proc[p].alive
  \/ proc[p].id = 0 /\ Exists /\ file.age >= Graced
  \/ ForceStale /\ Exists /\ file.age = Old

\* Mutant: the owner of an unsigned file is checked like any other.
JudgeOwnerless(p) ==
  /\ proc[p].phase = "judging"
  /\ Goes(p, IF Reclaimable(p) THEN With("checking", proc[p].id) ELSE At("waiting"))
  /\ UNCHANGED <<file, created, crashes, history>>

(* removeStaleLockFile removes an ownerless file at once.                  *)
Judge(p) ==
  /\ proc[p].phase = "judging"
  /\ Goes(p, IF ~Reclaimable(p) THEN At("waiting")
             ELSE IF proc[p].id = 0 THEN At("removing") ELSE With("checking", proc[p].id))
  /\ UNCHANGED <<file, created, crashes, history>>

(* removeLockFileIfOwned: is the file still the one that was judged?  A    *)
(* missing file counts as removed, an old one is looked at once more.      *)
Check(p) ==
  /\ proc[p].phase = "checking"
  /\ \E known \in Readings :
       Goes(p, IF known /\ file.id = proc[p].id THEN At("removing")
               ELSE IF ~Exists THEN At("opening")
               ELSE IF file.age = Old
               THEN [phase |-> "rechecking", id |-> file.id, written |-> file.written]
               ELSE At("waiting"))
  /\ UNCHANGED <<file, created, crashes, history>>

(* isStableStaleSnapshot *)
Recheck(p) ==
  /\ proc[p].phase = "rechecking"
  /\ LET stable == /\ file.id = proc[p].id
                   /\ file.written = proc[p].written
                   /\ file.age = Old
     IN Goes(p, IF stable THEN At("removing") ELSE At("waiting"))
  /\ UNCHANGED <<file, created, crashes, history>>

Remove(p) ==
  /\ proc[p].phase = "removing"
  /\ Rm(p)
  /\ Goes(p, At("opening"))
  /\ UNCHANGED <<created, crashes, failed, swallowed>>

(* A failed removal is thrown at the caller. *)
RemoveFails(p) ==
  /\ "rm" \in Faults
  /\ proc[p].phase = "removing"
  /\ Goes(p, At("idle"))
  /\ UNCHANGED <<file, created, crashes, history>>

-----------------------------------------------------------------------------
(* release: removeLockFileIfOwned, by lock id *)

Release(p) ==
  /\ proc[p].phase = "holding"
  /\ \E known \in Readings :
       IF known /\ file.id = proc[p].id
       THEN Goes(p, With("releasing", proc[p].id)) /\ UNCHANGED failed
       ELSE Goes(p, At("idle")) /\ failed' = failed \cup {proc[p].id}
  /\ UNCHANGED <<file, created, crashes, robbed, swallowed>>

Unlink(p) ==
  /\ proc[p].phase = "releasing"
  /\ Goes(p, At("idle"))
  /\ \/ Rm(p) /\ UNCHANGED failed
     \/ "rm" \in Faults /\ failed' = failed \cup {proc[p].id} /\ UNCHANGED <<file, robbed>>
  /\ UNCHANGED <<created, crashes, swallowed>>

-----------------------------------------------------------------------------
(* The environment *)

Crash(p) ==
  /\ "crash" \in Faults
  /\ ~Dead(p)
  /\ crashes < MaxCrashes
  /\ crashes' = crashes + 1
  /\ Goes(p, At("dead"))
  /\ UNCHANGED <<file, created, history>>

\* Phases in which the next file operation follows without a pause.
Busy == {"writing", "cleaning", "inspecting", "judging", "checking", "rechecking",
         "removing", "releasing"}

(* The grace is at least five seconds: a file does not age while a process *)
(* is between two file operations, unless that process stalls.             *)
GrowOld ==
  /\ Exists /\ file.age < Old
  /\ "stall" \in Faults \/ \A p \in Processes : proc[p].phase \notin Busy
  /\ file' = [file EXCEPT !.age = @ + 1]
  /\ UNCHANGED <<proc, created, crashes, history>>

Acquire(p) ==
  \/ Begin(p) \/ GiveUp(p) \/ Open(p) \/ Write(p) \/ WriteFails(p) \/ Cleanup(p)
Reclaim(p) ==
  \/ Inspect(p) \/ Judge(p) \/ Check(p) \/ Recheck(p) \/ Remove(p) \/ RemoveFails(p)

Next ==
  \/ \E p \in Processes : Acquire(p) \/ Reclaim(p) \/ Release(p) \/ Unlink(p) \/ Crash(p)
  \/ GrowOld

Spec == Init /\ [][Next]_vars

(* A live process finishes what it has begun and asks for the lock again,  *)
(* as the polling service workers and watchers do; time passes; a removal  *)
(* that can succeed does not fail for ever.                                *)
Fairness ==
  /\ \A p \in Processes :
       /\ WF_vars(Begin(p)) /\ SF_vars(Open(p)) /\ WF_vars(Write(p)) /\ WF_vars(Cleanup(p))
       /\ WF_vars(Inspect(p)) /\ WF_vars(Judge(p)) /\ WF_vars(Check(p)) /\ WF_vars(Recheck(p))
       /\ SF_vars(Remove(p)) /\ WF_vars(Release(p)) /\ WF_vars(Unlink(p))
  /\ SF_vars(GrowOld)

FairSpec == Spec /\ Fairness

-----------------------------------------------------------------------------
(* index/build/lock.js:14, "Acquire a repo-scoped index lock to prevent    *)
(* concurrent writes.", docs/perf/indexing-stage-audit.md:71 likewise of   *)
(* the embeddings cache: one process holds the lock.                       *)
LockExclusive ==
  \A p, q \in Processes :
    proc[p].phase = "holding" /\ proc[q].phase = "holding" => p = q

(* Creation, signing, release and timeouts keep the lock exclusive: two    *)
(* processes own it only after a file has been removed under its owner.    *)
ExclusiveUnlessRobbed ==
  robbed \/ \A p, q \in Processes :
              proc[p].phase \in OwnerPhases /\ proc[q].phase \in OwnerPhases => p = q

(* A file that names a live process is reclaimed by nobody, so it must not *)
(* outlive its lock: it is there because its owner is still at work on it, *)
(* or the release told its owner that it could not be removed.  The code   *)
(* leaves one way to leak a lock untold, by two failures in a row: closing *)
(* the completely written file, and removing it.                           *)
NoSilentLeak ==
  Signed /\ ~Dead(file.owner) =>
    Owns(file.owner, file.id) \/ file.id \in failed \/ file.id \in swallowed

\* Nobody will ever release this file, and it names no live process.
Abandoned ==
  Exists /\ (Dead(file.owner) \/ (~file.written /\ ~Owns(file.owner, file.id)))

(* A lock left behind by a dead process, signed or not, and one that its   *)
(* owner could neither sign nor remove, are reclaimed, as long as somebody *)
(* wants the lock.                                                         *)
AbandonedReclaimed ==
  Abandoned ~> ~Exists \/ \A p \in Processes : Dead(p)
=============================================================================
