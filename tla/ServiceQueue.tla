----------------------------- MODULE ServiceQueue -----------------------------
(***************************************************************************)
(* The indexer service's job queue: tools/service/queue.js, and the worker *)
(* loops that drain it (tools/service/indexer-service/queue-worker.js and  *)
(* job-completion.js).                                                     *)
(*                                                                         *)
(* The queue is a file that several processes read, change and replace     *)
(* under a file lock; each operation on it is one action here.  A worker   *)
(* loop sweeps stale jobs, claims a job, runs it with a heartbeat, and     *)
(* completes it, four separately locked steps between which it may crash.  *)
(* The copy of the job it works with is the one it read when claiming.     *)
(* An operation that cannot read the file finds an empty queue in it, and  *)
(* a job that is not in the file is "absent".                              *)
(*                                                                         *)
(* Abstracted: the clock.  A heartbeat is "fresh" or, once older than the  *)
(* threshold of its stage, "stale"; a retry delay is over or not.          *)
(***************************************************************************)
EXTENDS Integers, Sequences, FiniteSets

CONSTANTS
  Jobs,             \* the jobs that are ever enqueued
  Workers,          \* worker loops
  MaxRetries,       \* per job, the maxRetries it is stored with or NoLimit
  Monitored,        \* the jobs whose stage has a stale threshold
  MaxQueued,        \* queue capacity
  QueueMaxRetries,  \* queue.maxRetries of the service configuration
  MaxFaults,        \* bound on the crashes and failing reads explored
  Faults            \* subset of {"crash", "stall", "read"}

NoLimit == -1

ASSUME QueueAssumption ==
  /\ Monitored \subseteq Jobs
  /\ MaxRetries \in [Jobs -> Nat \cup {NoLimit}]
  /\ {MaxQueued, QueueMaxRetries, MaxFaults} \subseteq Nat
  /\ Faults \subseteq {"crash", "stall", "read"}

VARIABLES
  submitted,  \* the jobs somebody has tried to enqueue
  order,      \* queue.jobs: the accepted jobs, oldest first
  job,        \*   and the fields of each
  report,     \* the report file of each job
  worker,     \* what each worker loop is doing
  faults,
  claims      \* history: how often each job was claimed

vars == <<submitted, order, job, report, worker, faults, claims>>

Statuses == {"queued", "running", "done", "failed"}
Settled  == {"done", "failed"}
NoJob    == [status |-> "absent", attempts |-> 0, eligible |-> TRUE, beat |-> "none"]
\* Mutant: the attempts of a new job are as unset as its limit.
UnsetJob == [NoJob EXCEPT !.status = "queued", !.attempts = NoLimit]
NewJob   == [NoJob EXCEPT !.status = "queued"]
Idle     == [phase |-> "idle"]

JobFields ==
  [status   : Statuses \cup {"absent"},
   attempts : Nat,
   eligible : BOOLEAN,
   beat     : {"none", "fresh", "stale"}]

WorkerStates ==
  [phase : {"idle", "swept", "down"}]
  \cup [phase : {"running"}, job : Jobs, attempts : Nat]
  \cup [phase : {"finished"}, job : Jobs, attempts : Nat, result : Settled]

TypeOK ==
  /\ submitted \subseteq Jobs
  /\ order \in Seq(Jobs)
  /\ job \in [Jobs -> JobFields]
  /\ report \in [Jobs -> Statuses \cup {"none"}]
  /\ worker \in [Workers -> WorkerStates]
  /\ faults \in Nat
  /\ claims \in [Jobs -> Nat]

Init ==
  /\ submitted = {}
  /\ order = <<>>
  /\ job = [j \in Jobs |-> NoJob]
  /\ report = [j \in Jobs |-> "none"]
  /\ worker = [w \in Workers |-> Idle]
  /\ faults = 0
  /\ claims = [j \in Jobs |-> 0]

Having(status) == {j \in Jobs : job[j].status = status}
Holds(w, j)    == worker[w].phase \in {"running", "finished"} /\ worker[w].job = j

(* readJson: any error of reading the file is taken for an empty queue.    *)
ReadFails == "read" \in Faults /\ faults < MaxFaults /\ faults' = faults + 1

-----------------------------------------------------------------------------
\* Mutant: one job too many is accepted.
EnqueueOver(j) ==
  /\ j \notin submitted
  /\ submitted' = submitted \cup {j}
  /\ IF Cardinality(Having("queued")) > MaxQueued
     THEN UNCHANGED <<order, job>>
     ELSE /\ order' = Append(order, j)
          /\ job' = [job EXCEPT ![j] = NewJob]
  /\ UNCHANGED <<report, worker, faults, claims>>

(* enqueueJob: refused when the queue is full. *)
Enqueue(j) ==
  /\ j \notin submitted
  /\ submitted' = submitted \cup {j}
  /\ IF Cardinality(Having("queued")) >= MaxQueued
     THEN UNCHANGED <<order, job>>
     ELSE /\ order' = Append(order, j)
          /\ job' = [job EXCEPT ![j] = NewJob]
  /\ UNCHANGED <<report, worker, faults, claims>>

(* ... and writes the queue it found: the other jobs are lost if it could  *)
(* not read them.                                                          *)
EnqueueUnread(j) ==
  /\ j \notin submitted /\ ReadFails
  /\ MaxQueued > 0
  /\ submitted' = submitted \cup {j}
  /\ order' = <<j>>
  /\ job' = [i \in Jobs |-> IF i = j THEN NewJob ELSE NoJob]
  /\ UNCHANGED <<report, worker, claims>>

-----------------------------------------------------------------------------
(* requeueStaleJobs: a running job without a recent heartbeat is queued    *)
(* again after a delay, or fails when its retries are used up.             *)
StaleLimit(j) == IF MaxRetries[j] = NoLimit THEN QueueMaxRetries ELSE MaxRetries[j]

Stale == {j \in Monitored : job[j].status = "running" /\ job[j].beat = "stale"}

\* Mutant: a requeue is not counted as an attempt.
RequeuedFree(j) == [job[j] EXCEPT !.status = "queued", !.eligible = FALSE, !.beat = "none"]

\* Mutant: a job that has used up its retries is left as it is.
RequeuedOrLeft(j) ==
  IF job[j].attempts + 1 <= StaleLimit(j)
  THEN [status |-> "queued", attempts |-> job[j].attempts + 1, eligible |-> FALSE, beat |-> "none"]
  ELSE job[j]

Requeued(j) ==
  IF job[j].attempts + 1 <= StaleLimit(j)
  THEN [status |-> "queued", attempts |-> job[j].attempts + 1, eligible |-> FALSE, beat |-> "none"]
  ELSE [job[j] EXCEPT !.status = "failed", !.beat = "none"]

\* Mutant: any running job counts as stale.
SweepAll(w) ==
  /\ worker[w].phase = "idle"
  /\ job' = [j \in Jobs |-> IF j \in Having("running") THEN Requeued(j) ELSE job[j]]
  /\ worker' = [worker EXCEPT ![w] = [phase |-> "swept"]]
  /\ UNCHANGED <<submitted, order, report, faults, claims>>

Sweep(w) ==
  /\ worker[w].phase = "idle"
  /\ job' = [j \in Jobs |-> IF j \in Stale THEN Requeued(j) ELSE job[j]]
  /\ worker' = [worker EXCEPT ![w] = [phase |-> "swept"]]
  /\ UNCHANGED <<submitted, order, report, faults, claims>>

(* ensureStaleSweep: another sweep ran less than a second ago; or the      *)
(* sweep could not read the file and found nothing stale.                  *)
SkipSweep(w) ==
  /\ worker[w].phase = "idle"
  /\ worker' = [worker EXCEPT ![w] = [phase |-> "swept"]]
  /\ UNCHANGED <<submitted, order, job, report, faults, claims>>

-----------------------------------------------------------------------------
(* claimNextJob: the oldest queued job whose retry delay is over. *)
Claimable(j) == job[j].status = "queued" /\ job[j].eligible

ClaimNextJob(w) ==
  /\ worker[w].phase = "swept"
  /\ \E i \in 1..Len(order) :
       /\ Claimable(order[i]) /\ \A k \in 1..(i - 1) : ~Claimable(order[k])
       /\ job' = [job EXCEPT ![order[i]].status = "running", ![order[i]].beat = "fresh"]
       /\ claims' = [claims EXCEPT ![order[i]] = @ + 1]
       /\ worker' = [worker EXCEPT ![w] = [phase |-> "running", job |-> order[i],
                                           attempts |-> job[order[i]].attempts]]
  /\ UNCHANGED <<submitted, order, report, faults>>

NothingToClaim(w) ==
  /\ worker[w].phase = "swept"
  /\ \/ (\A i \in 1..Len(order) : ~Claimable(order[i])) /\ UNCHANGED faults
     \/ ReadFails
  /\ worker' = [worker EXCEPT ![w] = Idle]
  /\ UNCHANGED <<submitted, order, job, report, claims>>

-----------------------------------------------------------------------------
(* touchJobHeartbeat, whoever the job's present runner is. *)
Heartbeat(w) ==
  /\ worker[w].phase = "running"
  /\ job[worker[w].job].status = "running"
  /\ job' = [job EXCEPT ![worker[w].job].beat = "fresh"]
  /\ UNCHANGED <<submitted, order, report, worker, faults, claims>>

(* Time passes.  The last heartbeat, or for want of one the start of the   *)
(* run, outlives the threshold only when the runner is gone, or has been   *)
(* paused ("stall").                                                       *)
BeatExpires(j) ==
  /\ job[j].status = "running"
  /\ job[j].beat # "stale"
  /\ "stall" \in Faults \/ \A w \in Workers : ~Holds(w, j)
  /\ job' = [job EXCEPT ![j].beat = "stale"]
  /\ UNCHANGED <<submitted, order, report, worker, faults, claims>>

DelayEnds(j) ==
  /\ job[j].status = "queued"
  /\ ~job[j].eligible
  /\ job' = [job EXCEPT ![j].eligible = TRUE]
  /\ UNCHANGED <<submitted, order, report, worker, faults, claims>>

-----------------------------------------------------------------------------
(* The job's subprocess ends. *)
Execute(w, result) ==
  /\ worker[w].phase = "running"
  /\ worker' = [worker EXCEPT ![w] = [phase |-> "finished", job |-> worker[w].job,
                                      attempts |-> worker[w].attempts, result |-> result]]
  /\ UNCHANGED <<submitted, order, job, report, faults, claims>>

(* completeJob: the status is written whatever the job's present one; the  *)
(* report follows, its errors swallowed.  Nobody asks whether the job was  *)
(* found.                                                                  *)
Record(j, status, attempts) ==
  /\ job[j].status # "absent"
  /\ job' = [job EXCEPT ![j] = [status |-> status, attempts |-> attempts,
                                 eligible |-> job[j].eligible, beat |-> "none"]]
  /\ report' \in {report, [report EXCEPT ![j] = status]}
  /\ UNCHANGED faults

FindsNoJob(j) ==
  /\ (job[j].status = "absent" /\ UNCHANGED faults) \/ ReadFails
  /\ UNCHANGED <<job, report>>

CompleteJob(w, status, attempts) ==
  /\ Record(worker[w].job, status, attempts) \/ FindsNoJob(worker[w].job)
  /\ worker' = [worker EXCEPT ![w] = Idle]
  /\ UNCHANGED <<submitted, order, claims>>

(* completeNonRetriableFailure: the executor cannot even start the job. *)
CannotStart(w) ==
  /\ worker[w].phase = "running"
  /\ CompleteJob(w, "failed", job[worker[w].job].attempts)

(* finalizeJobRun: Number(null) is 0, so a job stored without a limit is   *)
(* not retried.                                                            *)
RetryLimit(j) == IF MaxRetries[j] = NoLimit THEN 0 ELSE MaxRetries[j]

\* Mutant: one retry too many.
RetriesOnceMore(w) == worker[w].result = "failed" /\ RetryLimit(worker[w].job) >= worker[w].attempts
Retries(w) == worker[w].result = "failed" /\ RetryLimit(worker[w].job) > worker[w].attempts

FinalizeRun(w) ==
  /\ worker[w].phase = "finished"
  /\ IF Retries(w)
     THEN CompleteJob(w, "queued", worker[w].attempts + 1)
     ELSE CompleteJob(w, worker[w].result, job[worker[w].job].attempts)

-----------------------------------------------------------------------------
(* The process dies, or gives up on the queue lock; its service manager    *)
(* starts it again.                                                        *)
Crash(w) ==
  /\ "crash" \in Faults
  /\ worker[w].phase # "down"
  /\ faults < MaxFaults
  /\ faults' = faults + 1
  /\ worker' = [worker EXCEPT ![w] = [phase |-> "down"]]
  /\ UNCHANGED <<submitted, order, job, report, claims>>

Restart(w) ==
  /\ worker[w].phase = "down"
  /\ worker' = [worker EXCEPT ![w] = Idle]
  /\ UNCHANGED <<submitted, order, job, report, faults, claims>>

Work(w) ==
  \/ Sweep(w) \/ SkipSweep(w) \/ ClaimNextJob(w) \/ NothingToClaim(w)
  \/ Heartbeat(w) \/ CannotStart(w) \/ FinalizeRun(w)
  \/ \E result \in Settled : Execute(w, result)

Next ==
  \/ \E j \in Jobs : Enqueue(j) \/ EnqueueUnread(j) \/ BeatExpires(j) \/ DelayEnds(j)
  \/ \E w \in Workers : Work(w) \/ Crash(w) \/ Restart(w)

Spec == Init /\ [][Next]_vars

(* A watching worker polls for ever; a sweep is skipped only for a second; *)
(* a subprocess ends; time passes.                                         *)
Fairness ==
  /\ \A w \in Workers :
       /\ SF_vars(Sweep(w))
       /\ SF_vars(ClaimNextJob(w))
       /\ WF_vars(NothingToClaim(w))
       /\ WF_vars(\E result \in Settled : Execute(w, result))
       /\ WF_vars(FinalizeRun(w))
       /\ WF_vars(Restart(w))
  /\ \A j \in Jobs : WF_vars(BeatExpires(j)) /\ WF_vars(DelayEnds(j))

FairSpec == Spec /\ Fairness

-----------------------------------------------------------------------------
(* A job has at most one runner, and a runner's job is marked running, if  *)
(* the file still has it: neither a sweep nor another completion takes a   *)
(* job from a live worker, as long as heartbeats arrive.                   *)
SingleRunner ==
  \A w \in Workers, j \in Jobs :
    Holds(w, j) => /\ job[j].status \in {"running", "absent"}
                   /\ \A v \in Workers : Holds(v, j) => v = w

(* The persisted attempts count the runs: every claim but the one under    *)
(* way, or the last, has been charged, whether it failed, its worker       *)
(* crashed or its completion was lost.                                     *)
AttemptsCountRuns ==
  \A j \in Jobs : job[j].status # "absent" =>
    claims[j] = job[j].attempts
                + (IF job[j].status \in {"running"} \cup Settled THEN 1 ELSE 0)

(* No job is run more often than its retries allow, however failures and   *)
(* crashes alternate.                                                      *)
Larger(a, b) == IF a >= b THEN a ELSE b
RunsWithinBudget ==
  \A j \in Jobs : claims[j] <= 1 + Larger(StaleLimit(j), RetryLimit(j))

(* With workers that stall past the threshold a job may run twice at once; *)
(* each attempt then doubles at most: once requeued by the sweep, once by  *)
(* its own late completion.                                                *)
StalledRunsBounded ==
  \A j \in Jobs : claims[j] <= 2 ^ (1 + Larger(StaleLimit(j), RetryLimit(j))) - 1

(* Retries may exceed the capacity of the queue, new jobs never do. *)
NewJobsWithinCapacity ==
  Cardinality({j \in Having("queued") : job[j].attempts = 0}) <= MaxQueued

(* docs/guides/service-mode.md, "Config defaults": `queue.maxRetries: 2`.  *)
(* A failed run of a job without a limit of its own is retried that often. *)
ConfiguredRetriesHonoured ==
  [][\A w \in Workers :
       ( /\ worker[w].phase = "finished" /\ worker[w].result = "failed"
         /\ MaxRetries[worker[w].job] = NoLimit
         /\ worker[w].attempts < QueueMaxRetries
         /\ worker'[w].phase = "idle" )
       => job'[worker[w].job].status = "queued"]_vars

(* A settled job is not revived, rerun or relabelled; it may be lost with  *)
(* the file it is in.                                                      *)
SettledStays ==
  [][\A j \in Jobs : job[j].status \in Settled => job'[j].status \in {job[j].status, "absent"}]_vars

(* A monitored job that was accepted is settled in the end, crashes of its *)
(* workers and lost completions notwithstanding, unless the file is lost.  *)
MonitoredSettle ==
  \A j \in Monitored : job[j].status = "queued" ~> job[j].status \in Settled \cup {"absent"}
=============================================================================
