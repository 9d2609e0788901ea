---------------------------- MODULE FileLockProofs ----------------------------
(* What the lock file guarantees for any number of processes, crashes,     *)
(* stalls and failing removals: it is exclusive until a file is removed    *)
(* under its owner; a signed file that outlives its lock was reported, or  *)
(* is that of a clean-up which failed as well; and it is exclusive         *)
(* outright when nothing fails.                                            *)
EXTENDS FileLock, TLAPS

(* Until a lock is robbed, whoever has created a file and not given it up  *)
(* finds it at the lock path, in its own name.                             *)
OwnersHaveTheFile ==
  ~robbed => \A p \in Processes :
               proc[p].phase \in OwnerPhases
               => Exists /\ file.id = proc[p].id /\ file.owner = p

(* A file of a live process, signed or not, is at work, was reported, or   *)
(* survived its clean-up.                                                  *)
FilesAccounted ==
  Exists /\ ~Dead(file.owner)
  => Owns(file.owner, file.id) \/ file.id \in failed \/ file.id \in swallowed

LInv == TypeOK /\ OwnersHaveTheFile /\ FilesAccounted

-----------------------------------------------------------------------------
(* Steps by the effect they have on the file.                              *)

\* A live p does not own a file and still owns none.
Quiet(p) ==
  /\ UNCHANGED <<file, created, crashes, robbed, failed, swallowed>>
  /\ proc[p].phase \notin OwnerPhases \cup {"dead"}
  /\ \E state \in ProcessStates : state.phase \notin OwnerPhases /\ Goes(p, state)

(* Contending, judging and giving up leave the file and its owner alone.   *)
LEMMA ContendersAreQuiet ==
  ASSUME TypeOK, NEW p \in Processes,
         \/ Begin(p) \/ GiveUp(p) \/ Inspect(p) \/ Judge(p) \/ Check(p) \/ Recheck(p)
         \/ RemoveFails(p)
  PROVE  Quiet(p)
<1>1. /\ file \in {Unlocked} \cup LockFiles
      /\ proc[p] \in ProcessStates
  BY DEF TypeOK
<1>2. file.id \in Nat /\ (Exists => file.id \in Nat \ {0} /\ file.written \in BOOLEAN)
  BY <1>1 DEF Unlocked, LockFiles, Exists
<1>3. CASE Begin(p) \/ GiveUp(p) \/ RemoveFails(p)
  BY <1>3 DEF history, Begin, GiveUp, RemoveFails, Quiet, At, OwnerPhases, ProcessStates
<1>4. CASE Inspect(p)
  <2>1. PICK known \in Readings :
          Goes(p, [phase |-> "judging", id |-> IF known THEN file.id ELSE 0,
                   alive |-> known /\ ~Dead(file.owner)])
    BY <1>4 DEF Inspect
  <2> DEFINE state == [phase |-> "judging", id |-> IF known THEN file.id ELSE 0,
                       alive |-> known /\ ~Dead(file.owner)]
  <2>2. (IF known THEN file.id ELSE 0) \in Nat
    BY <1>2
  <2>3. state \in ProcessStates /\ state.phase \notin OwnerPhases
    BY <2>2, Zenon DEF ProcessStates, OwnerPhases
  <2>4. /\ proc[p].phase \notin OwnerPhases \cup {"dead"}
        /\ UNCHANGED <<file, created, crashes, robbed, failed, swallowed>>
    BY <1>4 DEF history, Inspect, OwnerPhases
  <2> QED
    BY <2>1, <2>3, <2>4 DEF Quiet
<1>5. CASE Judge(p)
  <2>1. proc[p].phase = "judging" /\ proc[p].id \in Nat
    BY <1>1, <1>5 DEF Judge, ProcessStates, OwnerPhases
  <2>2. PICK state \in {At("waiting"), At("removing"), With("checking", proc[p].id)} :
          Goes(p, state) /\ (state = With("checking", proc[p].id) => proc[p].id # 0)
    BY <1>5 DEF Judge, At, With
  <2>3. state \in ProcessStates /\ state.phase \notin OwnerPhases
    BY <2>1, <2>2 DEF At, With, ProcessStates, OwnerPhases
  <2> QED
    BY <1>5, <2>1, <2>2, <2>3 DEF history, Quiet, OwnerPhases, Judge
<1>6. CASE Check(p)
  <2>1. PICK state \in {At("removing"), At("opening"), At("waiting"),
                        [phase |-> "rechecking", id |-> file.id, written |-> file.written]} :
          Goes(p, state) /\ (state.phase = "rechecking" => Exists)
    BY <1>6 DEF Check, At
  <2>2. state \in ProcessStates /\ state.phase \notin OwnerPhases
    BY <1>2, <2>1 DEF At, ProcessStates, OwnerPhases
  <2> QED
    BY <1>6, <2>1, <2>2 DEF history, Quiet, OwnerPhases, Check
<1>7. CASE Recheck(p)
  <2>1. PICK state \in {At("removing"), At("waiting")} : Goes(p, state)
    BY <1>7 DEF Recheck
  <2>2. state \in ProcessStates /\ state.phase \notin OwnerPhases
    BY <2>1 DEF At, ProcessStates, OwnerPhases
  <2> QED
    BY <1>7, <2>1, <2>2 DEF history, Quiet, OwnerPhases, Recheck
<1> QED
  BY <1>3, <1>4, <1>5, <1>6, <1>7

(* A quiet step keeps the invariant. *)
LEMMA QuietKeeps ==
  ASSUME LInv, NEW p \in Processes, Quiet(p)
  PROVE  LInv'
<1>1. PICK state \in ProcessStates : state.phase \notin OwnerPhases /\ Goes(p, state)
  BY DEF Quiet
<1>2. proc'[p] = state /\ \A q \in Processes : q # p => proc'[q] = proc[q]
  BY <1>1 DEF Goes, LInv, TypeOK
<1>3. UNCHANGED <<file, created, crashes, robbed, failed, swallowed>>
      /\ proc[p].phase \notin OwnerPhases \cup {"dead"}
  BY DEF Quiet
<1>4. TypeOK'
  BY <1>1, <1>3 DEF Goes, LInv, TypeOK
<1>5. OwnersHaveTheFile'
  BY <1>1, <1>2, <1>3 DEF LInv, OwnersHaveTheFile, Exists
<1>6. FilesAccounted'
  <2> SUFFICES ASSUME Exists', ~Dead(file.owner)'
               PROVE  Owns(file.owner, file.id)' \/ file'.id \in failed' \/ file'.id \in swallowed'
    BY DEF FilesAccounted
  <2>1. Exists /\ file.owner \in Processes
    BY <1>3 DEF Exists, LInv, TypeOK, Unlocked, LockFiles
  <2>2. ~Dead(file.owner)
    BY <1>2, <1>3, <2>1 DEF Dead
  <2>3. Owns(file.owner, file.id) \/ file.id \in failed \/ file.id \in swallowed
    BY <2>1, <2>2 DEF LInv, FilesAccounted
  <2>4. Owns(file.owner, file.id) => file.owner # p
    BY <1>3 DEF Owns
  <2> QED
    BY <1>2, <1>3, <2>1, <2>3, <2>4 DEF Owns
<1> QED
  BY <1>4, <1>5, <1>6 DEF LInv

-----------------------------------------------------------------------------
(* A removal without a victim: nobody else owns the file, so that before a *)
(* robbery nobody but the remover owns any.                                *)
LEMMA RmFacts ==
  ASSUME LInv, NEW p \in Processes, Rm(p)
  PROVE  /\ file' = Unlocked /\ ~Exists'
         /\ robbed' \in BOOLEAN
         /\ ~robbed' => ~robbed /\ \A q \in Processes : proc[q].phase \in OwnerPhases => q = p
<1>1. file' = Unlocked /\ ~Exists' /\ robbed' \in BOOLEAN
  BY DEF Rm, Exists, Unlocked, LInv, TypeOK
<1>2. ASSUME ~robbed', NEW q \in Processes, proc[q].phase \in OwnerPhases
      PROVE  q = p
  <2>1. ~robbed /\ ~(Exists /\ \E r \in Processes \ {p} : Owns(r, file.id))
    BY <1>2 DEF Rm
  <2>2. Exists /\ Owns(q, file.id)
    BY <1>2, <2>1 DEF LInv, OwnersHaveTheFile, Owns
  <2> QED
    BY <2>1, <2>2
<1> QED
  BY <1>1, <1>2 DEF Rm

(* The end of a process's ownership, or of its claim to remove, by rm.     *)
LEMMA RmKeeps ==
  ASSUME LInv, NEW p \in Processes, Rm(p),
         NEW phase \in {"idle", "opening"}, Goes(p, At(phase)),
         UNCHANGED <<created, crashes, failed, swallowed>>
  PROVE  LInv'
<1>1. /\ proc'[p].phase = phase /\ proc' \in [Processes -> ProcessStates]
      /\ \A q \in Processes : q # p => proc'[q] = proc[q]
  BY DEF Goes, At, LInv, TypeOK, ProcessStates
<1>2. /\ file' = Unlocked /\ ~Exists' /\ robbed' \in BOOLEAN
      /\ ~robbed' => ~robbed /\ \A q \in Processes : proc[q].phase \in OwnerPhases => q = p
  BY RmFacts
<1>3. TypeOK'
  BY <1>1, <1>2 DEF LInv, TypeOK
<1>4. OwnersHaveTheFile'
  BY <1>1, <1>2 DEF OwnersHaveTheFile, OwnerPhases
<1>5. FilesAccounted'
  BY <1>2 DEF FilesAccounted
<1> QED
  BY <1>3, <1>4, <1>5 DEF LInv

(* A process that keeps its file, or gives it up and is told so.           *)
LEMMA OwnerMoveKeeps ==
  ASSUME LInv, NEW p \in Processes, proc[p].phase \in OwnerPhases,
         NEW state \in ProcessStates, Goes(p, state), state.phase # "dead",
         UNCHANGED <<created, crashes, robbed>>,
         file' = file \/ (Exists /\ file' = [file EXCEPT !.written = TRUE, !.age = 0]),
         failed \subseteq failed', swallowed \subseteq swallowed',
         failed' \subseteq Nat, swallowed' \subseteq Nat,
         \/ state.phase \in OwnerPhases /\ state.id = proc[p].id
         \/ state.phase \notin OwnerPhases /\ proc[p].id \in failed' \cup swallowed'
  PROVE  LInv'
<1>1. proc'[p] = state /\ \A q \in Processes : q # p => proc'[q] = proc[q]
  BY DEF Goes, LInv, TypeOK
<1>2. /\ proc[p].id \in Nat /\ file \in {Unlocked} \cup LockFiles
      /\ proc[p].phase # "dead"
  BY DEF LInv, TypeOK, ProcessStates, OwnerPhases
<1>3. /\ file'.id = file.id /\ (Exists' <=> Exists)
      /\ Exists => file'.owner = file.owner /\ file.owner \in Processes
      /\ file' \in {Unlocked} \cup LockFiles
  <2>1. CASE file' = file
    BY <1>2, <2>1 DEF Unlocked, LockFiles, Exists
  <2>2. CASE Exists /\ file' = [file EXCEPT !.written = TRUE, !.age = 0]
    <3>1. file \in LockFiles
      BY <1>2, <2>2 DEF Exists, Unlocked
    <3>2. file' = [id |-> file.id, owner |-> file.owner, written |-> TRUE, age |-> 0]
      BY <2>2, <3>1 DEF LockFiles
    <3>3. file.id \in Nat \ {0} /\ file.owner \in Processes
      BY <3>1 DEF LockFiles
    <3>4. file' \in LockFiles
      <4>1. TRUE \in BOOLEAN /\ 0 \in 0..Old
        BY DEF Old
      <4> QED
        BY <3>2, <3>3, <4>1 DEF LockFiles
    <3>5. file'.id = file.id /\ file'.owner = file.owner
      BY <3>2
    <3> QED
      BY <3>3, <3>4, <3>5 DEF Exists
  <2> QED
    BY <2>1, <2>2
<1>4. TypeOK'
  BY <1>2, <1>3 DEF Goes, LInv, TypeOK
<1>5. OwnersHaveTheFile'
  BY <1>1, <1>3 DEF LInv, OwnersHaveTheFile
<1>6. FilesAccounted'
  <2> SUFFICES ASSUME Exists', ~Dead(file.owner)'
               PROVE  Owns(file.owner, file.id)' \/ file'.id \in failed' \/ file'.id \in swallowed'
    BY DEF FilesAccounted
  <2>1. Exists /\ file.owner \in Processes /\ file'.owner = file.owner /\ file'.id = file.id
    BY <1>3
  <2>2. ~Dead(file.owner)
    BY <1>1, <1>2, <2>1 DEF Dead
  <2>3. Owns(file.owner, file.id) \/ file.id \in failed \/ file.id \in swallowed
    BY <2>1, <2>2 DEF LInv, FilesAccounted
  <2>4. CASE file.owner = p
    BY <1>1, <2>1, <2>3, <2>4 DEF Owns
  <2>5. CASE file.owner # p
    BY <1>1, <2>1, <2>3, <2>5 DEF Owns
  <2> QED
    BY <2>4, <2>5
<1> QED
  BY <1>4, <1>5, <1>6 DEF LInv

-----------------------------------------------------------------------------
(* An empty lock path satisfies the invariant. *)
LEMMA LInit == Init => LInv
<1> SUFFICES ASSUME Init PROVE LInv
  OBVIOUS
<1>1. TypeOK
  BY DEF Init, TypeOK, At, ProcessStates
<1>2. OwnersHaveTheFile /\ FilesAccounted
  BY DEF Init, OwnersHaveTheFile, FilesAccounted, At, OwnerPhases, Exists, Unlocked
<1> QED
  BY <1>1, <1>2 DEF LInv

(* fs.open with 'wx' makes an owner only where there was no file, and      *)
(* before a robbery no file means no owner.                                *)
LEMMA OpenKeeps ==
  ASSUME LInv, NEW p \in Processes, Open(p)
  PROVE  LInv'
<1>1. CASE Exists
  <2>1. Quiet(p)
    BY <1>1 DEF history, Open, Quiet, At, OwnerPhases, ProcessStates
  <2> QED
    BY <2>1, QuietKeeps
<1>2. CASE ~Exists
  <2> DEFINE n == created + 1
  <2>1. /\ file' = [id |-> n, owner |-> p, written |-> FALSE, age |-> 0]
        /\ Goes(p, With("writing", n)) /\ created' = n
        /\ UNCHANGED <<crashes, robbed, failed, swallowed>>
    BY <1>2 DEF history, Open, Create
  <2>2. n \in Nat \ {0}
    BY DEF LInv, TypeOK
  <2>3. /\ proc'[p] = With("writing", n) /\ \A q \in Processes : q # p => proc'[q] = proc[q]
        /\ proc' \in [Processes -> ProcessStates]
    BY <2>1, <2>2 DEF Goes, With, LInv, TypeOK, ProcessStates, OwnerPhases
  <2>4. TypeOK'
    BY <2>1, <2>2, <2>3 DEF LInv, TypeOK, LockFiles, Old
  <2>5. file'.id = n /\ file'.owner = p /\ Exists'
    BY <2>1, <2>2 DEF Exists
  <2>6. OwnersHaveTheFile'
    BY <1>2, <2>1, <2>3, <2>5 DEF LInv, OwnersHaveTheFile, With
  <2>7. FilesAccounted'
    BY <2>3, <2>5 DEF FilesAccounted, Owns, With, OwnerPhases
  <2> QED
    BY <2>4, <2>6, <2>7 DEF LInv
<1> QED
  BY <1>1, <1>2

(* Signing the file, failing to, and releasing the lock keep the invariant. *)
LEMMA OwnersKeep ==
  ASSUME LInv, NEW p \in Processes,
         Write(p) \/ WriteFails(p) \/ Release(p) \/ Cleanup(p) \/ Unlink(p)
  PROVE  LInv'
<1>1. proc[p].phase \in OwnerPhases /\ proc[p].id \in Nat \ {0}
  BY DEF history, Write, WriteFails, Release, Cleanup, Unlink, OwnerPhases, LInv, TypeOK, ProcessStates
<1>2. /\ \A phase \in OwnerPhases :
           /\ With(phase, proc[p].id) \in ProcessStates
           /\ With(phase, proc[p].id).phase = phase /\ With(phase, proc[p].id).id = proc[p].id
      /\ At("idle") \in ProcessStates /\ At("idle").phase = "idle"
  BY <1>1 DEF With, At, ProcessStates
<1>3. CASE Write(p) \/ WriteFails(p)
  <2>1. PICK phase \in {"holding", "cleaning"} :
          /\ Goes(p, With(phase, proc[p].id))
          /\ UNCHANGED <<created, crashes, robbed, failed, swallowed>>
          /\ file' = file \/ (Exists /\ file' = [file EXCEPT !.written = TRUE, !.age = 0])
    BY <1>1, <1>3 DEF Write, WriteFails, SignedBy, history, Exists
  <2>2. failed' \subseteq Nat /\ swallowed' \subseteq Nat
    BY <2>1 DEF LInv, TypeOK
  <2> QED
    BY <1>1, <1>2, <2>1, <2>2, OwnerMoveKeeps DEF OwnerPhases
<1>4. proc[p].id \in Nat /\ failed \subseteq Nat /\ swallowed \subseteq Nat
  BY <1>1 DEF LInv, TypeOK
<1>5. CASE Release(p)
  <2>1. /\ UNCHANGED <<file, created, crashes, robbed, swallowed>>
        /\ \/ Goes(p, With("releasing", proc[p].id)) /\ UNCHANGED failed
           \/ Goes(p, At("idle")) /\ failed' = failed \cup {proc[p].id}
    BY <1>5 DEF Release
  <2> QED
    BY <1>1, <1>2, <1>4, <2>1, OwnerMoveKeeps DEF OwnerPhases
<1>6. CASE Cleanup(p) \/ Unlink(p)
  <2>1. Goes(p, At("idle")) /\ UNCHANGED <<created, crashes>>
    BY <1>6 DEF Cleanup, Unlink
  <2>2. CASE Rm(p) /\ UNCHANGED <<failed, swallowed>>
    BY <2>1, <2>2, RmKeeps
  <2>3. CASE /\ UNCHANGED <<file, robbed>>
             /\ \/ failed' = failed \cup {proc[p].id} /\ UNCHANGED swallowed
                \/ swallowed' = swallowed \cup {proc[p].id} /\ UNCHANGED failed
    BY <1>1, <1>2, <1>4, <2>1, <2>3, OwnerMoveKeeps DEF OwnerPhases
  <2> QED
    BY <1>6, <2>2, <2>3 DEF Cleanup, Unlink
<1> QED
  BY <1>3, <1>5, <1>6

(* A crash keeps the invariant: the file now names a dead process.         *)
LEMMA CrashKeeps ==
  ASSUME LInv, NEW p \in Processes, Crash(p)
  PROVE  LInv'
<1>1. /\ proc'[p] = At("dead") /\ \A q \in Processes : q # p => proc'[q] = proc[q]
      /\ proc' \in [Processes -> ProcessStates]
  BY DEF Crash, Goes, At, LInv, TypeOK, ProcessStates
<1>2. UNCHANGED <<file, created, robbed, failed, swallowed>> /\ crashes' \in Nat
  BY DEF history, Crash, LInv, TypeOK
<1>3. TypeOK'
  BY <1>1, <1>2 DEF LInv, TypeOK
<1>4. OwnersHaveTheFile'
  BY <1>1, <1>2 DEF LInv, OwnersHaveTheFile, Exists, At, OwnerPhases
<1>5. FilesAccounted'
  <2> SUFFICES ASSUME Exists', ~Dead(file.owner)'
               PROVE  Owns(file.owner, file.id)' \/ file'.id \in failed' \/ file'.id \in swallowed'
    BY DEF FilesAccounted
  <2>1. Exists /\ file.owner \in Processes
    BY <1>2 DEF Exists, LInv, TypeOK, Unlocked, LockFiles
  <2>2. file.owner # p
    BY <1>1, <1>2 DEF Dead, At
  <2> QED
    BY <1>1, <1>2, <2>1, <2>2 DEF LInv, FilesAccounted, Owns, Dead
<1> QED
  BY <1>3, <1>4, <1>5 DEF LInv

(* The age of a file is no part of who owns it.                            *)
LEMMA GrowOldKeeps ==
  ASSUME LInv, GrowOld
  PROVE  LInv'
<1>1. file \in LockFiles /\ UNCHANGED <<proc, created, crashes, robbed, failed, swallowed>>
  BY DEF history, GrowOld, Exists, LInv, TypeOK, Unlocked
<1>2. file' = [id |-> file.id, owner |-> file.owner, written |-> file.written, age |-> file.age + 1]
      /\ file.age \in 0..Old /\ file.age < Old
  BY <1>1 DEF GrowOld, LockFiles
<1>3. file' \in LockFiles /\ file'.id = file.id /\ file'.owner = file.owner
  BY <1>1, <1>2 DEF LockFiles, Old
<1> QED
  BY <1>1, <1>3 DEF LInv, TypeOK, OwnersHaveTheFile, FilesAccounted, Exists, Owns, Dead

(* Every step keeps the invariant. *)
LEMMA LNext ==
  ASSUME LInv, [Next]_vars
  PROVE  LInv'
<1>1. CASE UNCHANGED vars
  BY <1>1 DEF history, vars, LInv, TypeOK, OwnersHaveTheFile, FilesAccounted, Exists, Owns, Dead
<1>2. ASSUME NEW p \in Processes, Acquire(p) \/ Reclaim(p) \/ Release(p) \/ Unlink(p) \/ Crash(p)
      PROVE  LInv'
  <2>1. CASE Begin(p) \/ GiveUp(p) \/ Inspect(p) \/ Judge(p) \/ Check(p) \/ Recheck(p)
             \/ RemoveFails(p)
    <3>1. TypeOK
      BY DEF LInv
    <3>2. Quiet(p)
      BY <2>1, <3>1, ContendersAreQuiet
    <3> QED
      BY <3>2, QuietKeeps
  <2>2. CASE Remove(p)
    BY <2>2, RmKeeps DEF Remove
  <2>3. CASE Write(p) \/ WriteFails(p) \/ Release(p) \/ Cleanup(p) \/ Unlink(p)
    BY <2>3, OwnersKeep
  <2> QED
    BY <1>2, <2>1, <2>2, <2>3, OpenKeeps, CrashKeeps DEF Acquire, Reclaim
<1> QED
  BY <1>1, <1>2, GrowOldKeeps DEF Next

-----------------------------------------------------------------------------
(* The lock file's owners find their file until it is robbed, and no live  *)
(* process leaves one behind unknowingly.                                  *)
THEOREM LockInvariant == Spec => []LInv
<1>1. Init => LInv
  BY LInit
<1>2. LInv /\ [Next]_vars => LInv'
  BY LNext
<1> QED
  BY <1>1, <1>2, PTL DEF Spec

(* The file, the processes and the histories keep their types.             *)
THEOREM LockTypeCorrect == Spec => []TypeOK
<1>1. LInv => TypeOK
  BY DEF LInv
<1> QED
  BY <1>1, LockInvariant, PTL

(* Whatever crashes, stalls or fails to be removed, two processes own the  *)
(* lock only after a reclaim has removed a file under its owner.           *)
THEOREM ExclusiveUntilRobbery == Spec => []ExclusiveUnlessRobbed
<1>1. LInv => ExclusiveUnlessRobbed
  BY DEF LInv, OwnersHaveTheFile, ExclusiveUnlessRobbed
<1> QED
  BY <1>1, LockInvariant, PTL

(* A signed lock file that names a live process is that process's, or the  *)
(* release told it that the file could not be removed, or two failures in  *)
(* a row left it: its closing and its clean-up.                            *)
THEOREM LiveLocksAreOwned == Spec => []NoSilentLeak
<1>1. LInv => NoSilentLeak
  BY DEF LInv, FilesAccounted, NoSilentLeak, Signed
<1> QED
  BY <1>1, LockInvariant, PTL

-----------------------------------------------------------------------------
(* Exclusion itself, when nothing goes wrong.  Each half of the assumption *)
(* is needed: three processes lose exclusion by any one of the faults, and *)
(* by forceStaleCleanup.                                                   *)

NothingFails == Faults = {} /\ ~ForceStale

(* Then no file is ever reclaimed.  A signed one is read as its live       *)
(* owner's; an unsigned one is its creator's, which is at work on it, so   *)
(* that it does not age; and a file that was unsigned when it was read     *)
(* does not age before it is judged, even if it has been signed, or        *)
(* released and created anew, meanwhile.                                   *)
Undisturbed ==
  /\ ~robbed
  /\ \A p \in Processes :
       /\ proc[p].phase \notin {"dead", "checking", "rechecking", "removing"}
       /\ proc[p].phase = "judging" =>
            IF proc[p].id = 0 THEN Exists => file.age = 0 ELSE proc[p].alive
  /\ Exists /\ ~file.written =>
       file.age = 0 /\ proc[file.owner].phase \in {"writing", "cleaning"}

(* Contending, reading and judging: nobody concludes that the file is      *)
(* stale.                                                                  *)
LEMMA ContendersStayCalm ==
  ASSUME NothingFails, LInv, Undisturbed, NEW p \in Processes,
         \/ Begin(p) \/ GiveUp(p) \/ Inspect(p) \/ Judge(p) \/ (Open(p) /\ Exists)
  PROVE  Undisturbed'
<1>1. UNCHANGED <<file, robbed>> /\ proc[p].phase \notin OwnerPhases
  BY DEF history, Begin, GiveUp, Inspect, Judge, Open, OwnerPhases
<1>2. PICK state : Goes(p, state)
  BY DEF Begin, GiveUp, Inspect, Judge, Open
<1>3. proc'[p] = state /\ \A q \in Processes : q # p => proc'[q] = proc[q]
  BY <1>2 DEF Goes, LInv, TypeOK
<1>4. /\ proc'[p].phase \notin {"dead", "checking", "rechecking", "removing"}
      /\ proc'[p].phase = "judging" =>
           IF proc'[p].id = 0 THEN Exists => file.age = 0 ELSE proc'[p].alive
  <2>1. CASE Begin(p) \/ GiveUp(p) \/ (Open(p) /\ Exists)
    <3>1. proc'[p] \in {At("opening"), At("idle"), At("inspecting")}
      BY <2>1, <1>3 DEF Begin, GiveUp, Open, Goes, LInv, TypeOK
    <3> QED
      BY <3>1 DEF At
  <2>2. CASE Inspect(p)
    <3>1. proc'[p] = [phase |-> "judging", id |-> IF Signed THEN file.id ELSE 0,
                      alive |-> Signed /\ ~Dead(file.owner)]
      BY <2>2 DEF Inspect, Readings, NothingFails, Goes, LInv, TypeOK
    <3>2. CASE Signed
      <4>1. file.owner \in Processes /\ file.id # 0
        BY <3>2 DEF Signed, Exists, LInv, TypeOK, Unlocked, LockFiles
      <4>2. ~Dead(file.owner)
        BY <4>1 DEF Undisturbed, Dead
      <4>3. proc'[p].phase = "judging" /\ proc'[p].id = file.id
        BY <3>1, <3>2
      <4>4. (Signed /\ ~Dead(file.owner)) = TRUE
        BY <3>2, <4>2
      <4>5. proc'[p] = [phase |-> "judging", id |-> IF Signed THEN file.id ELSE 0, alive |-> TRUE]
        BY <3>1, <4>4, Zenon
      <4>6. proc'[p].alive
        BY <4>5
      <4> QED
        BY <4>1, <4>3, <4>6
    <3>3. CASE ~Signed
      BY <3>1, <3>3 DEF Signed, Undisturbed
    <3> QED
      BY <3>2, <3>3
  <2>3. CASE Judge(p)
    <3>1. proc[p].phase = "judging" /\ (proc[p].id = 0 => (Exists => file.age = 0))
      BY <2>3 DEF Judge, Undisturbed
    <3>2. proc[p].id # 0 => proc[p].alive
      BY <3>1 DEF Undisturbed
    <3>3. ~Reclaimable(p)
      BY <3>1, <3>2 DEF Reclaimable, NothingFails, Graced
    <3>4. proc'[p] = At("waiting")
      BY <2>3, <3>3 DEF Judge, Goes, LInv, TypeOK
    <3> QED
      BY <3>4 DEF At
  <2> QED
    BY <2>1, <2>2, <2>3
<1>5. ASSUME Exists, ~file.written
      PROVE  proc'[file.owner].phase \in {"writing", "cleaning"}
  <2>1. proc[file.owner].phase \in {"writing", "cleaning"} /\ file.owner \in Processes
    BY <1>5 DEF Undisturbed, Exists, LInv, TypeOK, Unlocked, LockFiles
  <2> QED
    BY <1>1, <1>3, <2>1 DEF OwnerPhases
<1> QED
  BY <1>1, <1>3, <1>4, <1>5 DEF Undisturbed, Exists

(* Creating, signing and giving up a lock file: it is new, and its owner's *)
(* alone.                                                                  *)
LEMMA OwnersStayCalm ==
  ASSUME NothingFails, LInv, Undisturbed, NEW p \in Processes,
         \/ (Open(p) /\ ~Exists) \/ Write(p) \/ WriteFails(p) \/ Cleanup(p)
         \/ Release(p) \/ Unlink(p)
  PROVE  Undisturbed'
<1>1. PICK state : Goes(p, state) /\ state.phase \in OwnerPhases \cup {"idle"}
  BY DEF Open, Create, Write, WriteFails, Cleanup, Release, Unlink, OwnerPhases, At, With
<1>2. proc'[p] = state /\ \A q \in Processes : q # p => proc'[q] = proc[q]
  BY <1>1 DEF Goes, LInv, TypeOK
<1>3. \A q \in Processes :
        /\ proc'[q].phase \notin {"dead", "checking", "rechecking", "removing"}
        /\ proc'[q].phase = "judging" => q # p /\ proc'[q] = proc[q]
  BY <1>1, <1>2 DEF Undisturbed, OwnerPhases
<1>4. proc[p].phase \in OwnerPhases => Exists /\ file.id = proc[p].id /\ file.owner = p
  BY DEF LInv, OwnersHaveTheFile, Undisturbed
<1>5. /\ ~robbed'
      /\ Exists' => file'.age = 0 \/ (Exists /\ file'.age = file.age)
      /\ Exists' /\ ~file'.written => file'.age = 0 /\ proc'[file'.owner].phase \in {"writing", "cleaning"}
  <2>1. CASE Open(p) /\ ~Exists
    <3>1. /\ file' = [id |-> created + 1, owner |-> p, written |-> FALSE, age |-> 0]
          /\ proc'[p] = With("writing", created + 1) /\ robbed' = robbed
      BY <2>1 DEF history, Open, Create, Goes, LInv, TypeOK
    <3> QED
      BY <3>1 DEF Undisturbed, With
  <2>2. CASE Write(p)
    <3>1. /\ file' = [file EXCEPT !.written = TRUE, !.age = 0] /\ robbed' = robbed
          /\ file \in LockFiles
      BY <2>2, <1>4 DEF history, Write, SignedBy, OwnerPhases, Exists, LInv, TypeOK, Unlocked
    <3>2. file'.written /\ file'.age = 0
      BY <3>1 DEF LockFiles
    <3> QED
      BY <3>1, <3>2 DEF Undisturbed
  <2>3. CASE WriteFails(p)
    <3>1. /\ robbed' = robbed /\ proc'[p] = With("cleaning", proc[p].id)
          /\ file' = file \/ file' = [file EXCEPT !.written = TRUE, !.age = 0]
          /\ file.owner = p /\ file.id = proc[p].id /\ file \in LockFiles
      BY <2>3, <1>4 DEF WriteFails, SignedBy, history, Goes, OwnerPhases, Exists, LInv, TypeOK,
                        Unlocked
    <3>2. CASE file' = file
      BY <3>1, <3>2 DEF Undisturbed, Exists, With
    <3>3. CASE file' = [file EXCEPT !.written = TRUE, !.age = 0]
      <4>1. file'.written /\ file'.age = 0
        BY <3>1, <3>3 DEF LockFiles
      <4> QED
        BY <3>1, <4>1 DEF Undisturbed
    <3> QED
      BY <3>1, <3>2, <3>3
  <2>4. CASE Release(p)
    <3>1. UNCHANGED <<file, robbed>> /\ proc[p].phase = "holding"
      BY <2>4 DEF Release
    <3>2. file.written
      BY <3>1, <1>4 DEF Undisturbed, OwnerPhases
    <3> QED
      BY <3>1, <3>2 DEF Undisturbed, Exists
  <2>5. CASE Cleanup(p) \/ Unlink(p)
    <3>1. Rm(p) /\ proc[p].phase \in OwnerPhases
      BY <2>5 DEF Cleanup, Unlink, NothingFails, OwnerPhases
    <3>2. \A q \in Processes : Owns(q, file.id) => q = p
      BY <1>4, <3>1 DEF LInv, OwnersHaveTheFile, Undisturbed, Owns
    <3> QED
      BY <3>1, <3>2 DEF Rm, Undisturbed, Exists, Unlocked
  <2> QED
    BY <2>1, <2>2, <2>3, <2>4, <2>5
<1> QED
  BY <1>3, <1>5 DEF Undisturbed

(* Time passes only for a file that is signed, and while nobody judges.    *)
LEMMA GrowOldStaysCalm ==
  ASSUME NothingFails, LInv, Undisturbed, GrowOld
  PROVE  Undisturbed'
<1>1. /\ \A p \in Processes : proc[p].phase \notin Busy
      /\ Exists /\ file \in LockFiles /\ file' = [file EXCEPT !.age = @ + 1]
      /\ UNCHANGED <<proc, robbed>>
  BY DEF history, GrowOld, NothingFails, LInv, TypeOK, Exists, Unlocked
<1>2. file.written /\ file'.written
  BY <1>1 DEF Undisturbed, Busy, LockFiles
<1> QED
  BY <1>1, <1>2 DEF Undisturbed, Busy

(* One process holds the lock, as long as nothing fails.                   *)
THEOREM LockIsExclusive == NothingFails => (Spec => []LockExclusive)
<1> SUFFICES ASSUME NothingFails PROVE Spec => []LockExclusive
  OBVIOUS
<1>1. Init => Undisturbed
  BY DEF Init, Undisturbed, At, Exists, Unlocked
<1>2. LInv /\ Undisturbed /\ [Next]_vars => Undisturbed'
  <2> SUFFICES ASSUME LInv, Undisturbed, [Next]_vars PROVE Undisturbed'
    OBVIOUS
  <2>1. CASE UNCHANGED vars
    BY <2>1 DEF history, vars, Undisturbed, Exists
  <2>2. ASSUME NEW p \in Processes,
               Acquire(p) \/ Reclaim(p) \/ Release(p) \/ Unlink(p) \/ Crash(p)
        PROVE  Undisturbed'
    <3>1. ~Check(p) /\ ~Recheck(p) /\ ~Remove(p) /\ ~RemoveFails(p) /\ ~Crash(p)
      BY DEF Undisturbed, NothingFails, Check, Recheck, Remove, RemoveFails, Crash
    <3> QED
      BY <2>2, <3>1, ContendersStayCalm, OwnersStayCalm DEF Acquire, Reclaim
  <2> QED
    BY <2>1, <2>2, GrowOldStaysCalm DEF Next
<1>3. LInv /\ Undisturbed => LockExclusive
  BY DEF LInv, OwnersHaveTheFile, Undisturbed, LockExclusive, OwnerPhases
<1> QED
  BY <1>1, <1>2, <1>3, LockInvariant, PTL DEF Spec
=============================================================================
