-------------------------- MODULE ServiceQueueProofs --------------------------
(* The service queue charges every run once, for every number of           *)
(* jobs, workers, retries, crashes and reads that fail: as long as          *)
(* heartbeats arrive, a job has one runner, its attempts count its runs    *)
(* and its outcome stays.                                                  *)
EXTENDS ServiceQueue, SumsProofs, FiniteSetTheorems, TLAPS

(* The assumption on the environment: no live worker is paused for longer  *)
(* than the stale threshold of its job.                                    *)
NoStalls == "stall" \notin Faults

-----------------------------------------------------------------------------
(* The inductive invariant *)

(* What a worker read when it claimed its job is still true, and the       *)
(* heartbeat it keeps up protects the job from the sweep.                  *)
HeldJobsAreCurrent ==
  \A w \in Workers, j \in Jobs :
    Holds(w, j) /\ job[j].status # "absent" =>
      worker[w].attempts = job[j].attempts /\ job[j].beat = "fresh"

(* A job that was never offered to the queue is not in it, and never ran. *)
UnsubmittedAbsent ==
  \A j \in Jobs : j \notin submitted =>
    job[j] = NoJob /\ claims[j] = 0 /\ \A w \in Workers : ~Holds(w, j)

AttemptsBounded ==
  \A j \in Jobs : job[j].attempts <= Larger(StaleLimit(j), RetryLimit(j))

QInv ==
  /\ TypeOK
  /\ SingleRunner
  /\ AttemptsCountRuns
  /\ HeldJobsAreCurrent
  /\ UnsubmittedAbsent
  /\ AttemptsBounded
  /\ RunsWithinBudget

-----------------------------------------------------------------------------
(* The limits are naturals, or the job is not retried at all. *)
LEMMA LimitsType ==
  ASSUME NEW j \in Jobs
  PROVE  StaleLimit(j) \in Nat /\ RetryLimit(j) \in Nat
BY QueueAssumption DEF StaleLimit, RetryLimit, NoLimit

(* A swept job is a job whose attempts stay within the limit. *)
LEMMA RequeuedType ==
  ASSUME NEW j \in Jobs, TypeOK
  PROVE  /\ Requeued(j) \in JobFields
         /\ Requeued(j).status \in {"queued", "failed"}
         /\ Requeued(j).status = "queued"
            => Requeued(j).attempts = job[j].attempts + 1 /\ Requeued(j).attempts <= StaleLimit(j)
         /\ Requeued(j).status = "failed" => Requeued(j).attempts = job[j].attempts
<1>1. /\ job[j] \in JobFields /\ job[j].attempts \in Nat
      /\ job[j].eligible \in BOOLEAN
  BY DEF TypeOK, JobFields
<1>2. CASE job[j].attempts + 1 <= StaleLimit(j)
  <2>1. Requeued(j) = [status |-> "queued", attempts |-> job[j].attempts + 1,
                       eligible |-> FALSE, beat |-> "none"]
    BY <1>2 DEF Requeued
  <2> QED
    BY <1>1, <1>2, <2>1 DEF JobFields, Statuses
<1>3. CASE ~(job[j].attempts + 1 <= StaleLimit(j))
  <2>1. Requeued(j) = [status |-> "failed", attempts |-> job[j].attempts,
                       eligible |-> job[j].eligible, beat |-> "none"]
    BY <1>1, <1>3 DEF Requeued, JobFields
  <2> QED
    BY <1>1, <2>1 DEF JobFields, Statuses
<1> QED
  BY <1>2, <1>3

(* A worker that holds a job holds one of the jobs.                        *)
LEMMA HeldType ==
  ASSUME TypeOK, NEW w \in Workers, worker[w].phase \in {"running", "finished"}
  PROVE  /\ worker[w].job \in Jobs /\ worker[w].attempts \in Nat
         /\ worker[w].phase = "finished" => worker[w].result \in Settled
<1>1. worker[w] \in WorkerStates
  BY DEF TypeOK
<1> QED
  BY <1>1 DEF WorkerStates

(* An empty queue satisfies the invariant. *)
LEMMA QInit == Init => QInv
<1> SUFFICES ASSUME Init PROVE QInv
  OBVIOUS
<1>1. TypeOK
  BY DEF Init, TypeOK, NoJob, Idle, Statuses, JobFields, WorkerStates
<1>2. \A w \in Workers, j \in Jobs : ~Holds(w, j)
  BY DEF Init, Holds, Idle
<1>3. AttemptsCountRuns /\ UnsubmittedAbsent
  BY <1>2 DEF Init, AttemptsCountRuns, UnsubmittedAbsent, NoJob, Settled
<1>4. AttemptsBounded /\ RunsWithinBudget
  BY LimitsType DEF Init, AttemptsBounded, RunsWithinBudget, NoJob, Larger
<1> QED
  BY <1>1, <1>2, <1>3, <1>4 DEF QInv, SingleRunner, HeldJobsAreCurrent

-----------------------------------------------------------------------------
(* One lemma per action.  Only a claim makes a worker hold a job.          *)

(* A step that changes no job and lets nobody take one keeps the invariant. *)
LEMMA IdleStepKeeps ==
  ASSUME QInv, UNCHANGED <<submitted, order, job, claims>>,
         \A w \in Workers, j \in Jobs :
           Holds(w, j)' => Holds(w, j) /\ worker'[w].attempts = worker[w].attempts,
         worker' \in [Workers -> WorkerStates],
         report' \in [Jobs -> Statuses \cup {"none"}],
         faults' \in Nat
  PROVE  QInv'
<1>1. TypeOK'
  BY DEF QInv, TypeOK
<1>2. SingleRunner' /\ HeldJobsAreCurrent'
  BY DEF QInv, SingleRunner, HeldJobsAreCurrent
<1>3. AttemptsCountRuns'
  BY DEF QInv, AttemptsCountRuns
<1>4. UnsubmittedAbsent'
  BY DEF QInv, UnsubmittedAbsent
<1>5. AttemptsBounded' /\ RunsWithinBudget'
  BY DEF QInv, AttemptsBounded, RunsWithinBudget, StaleLimit, RetryLimit
<1> QED
  BY <1>1, <1>2, <1>3, <1>4, <1>5 DEF QInv

(* enqueueJob keeps the invariant. *)
LEMMA EnqueueKeeps ==
  ASSUME QInv, NEW j \in Jobs, Enqueue(j)
  PROVE  QInv'
<1>1. job[j] = NoJob /\ claims[j] = 0 /\ \A w \in Workers : ~Holds(w, j)
  BY DEF QInv, Enqueue, UnsubmittedAbsent
<1>2. /\ order' \in Seq(Jobs)
      /\ job' = job \/ job' = [job EXCEPT ![j] = NewJob]
      /\ submitted' = submitted \cup {j}
      /\ UNCHANGED <<report, worker, faults, claims>>
  <2>1. order \in Seq(Jobs)
    BY DEF QInv, TypeOK
  <2> QED
    BY <2>1 DEF Enqueue
<1>3. NewJob = [NoJob EXCEPT !.status = "queued"] /\ NewJob \in JobFields /\ NoJob.attempts = 0
      /\ NewJob.attempts = 0 /\ NewJob.status = "queued" /\ NoJob.status = "absent"
  BY DEF NewJob, NoJob, JobFields, Statuses
<1>4. \A i \in Jobs : i # j => job'[i] = job[i]
  BY <1>2 DEF QInv, TypeOK
<1>5. job'[j] \in {NoJob, NewJob}
  BY <1>1, <1>2 DEF QInv, TypeOK
<1>6. TypeOK'
  BY <1>2, <1>3 DEF QInv, TypeOK
<1>7. SingleRunner' /\ HeldJobsAreCurrent'
  BY <1>1, <1>2, <1>4 DEF QInv, SingleRunner, HeldJobsAreCurrent, Holds
<1>8. AttemptsCountRuns'
  <2> SUFFICES ASSUME NEW i \in Jobs, job'[i].status # "absent"
               PROVE  claims'[i] = job'[i].attempts
                        + (IF job'[i].status \in {"running"} \cup Settled THEN 1 ELSE 0)
    BY DEF AttemptsCountRuns
  <2>2. CASE i = j
    <3>1. claims'[i] = 0 /\ job'[i].status = "queued" /\ job'[i].attempts = 0
      BY <1>1, <1>2, <1>3, <1>5, <2>2
    <3> QED
      BY <3>1 DEF Settled
  <2>3. CASE i # j
    BY <1>2, <1>4, <2>3 DEF QInv, AttemptsCountRuns
  <2> QED
    BY <2>2, <2>3
<1>9. UnsubmittedAbsent'
  BY <1>2, <1>4 DEF QInv, UnsubmittedAbsent, Holds
<1>10. AttemptsBounded' /\ RunsWithinBudget'
  <2>1. \A i \in Jobs : job'[i].attempts = job[i].attempts
    BY <1>1, <1>3, <1>4, <1>5
  <2> QED
    BY <1>2, <2>1 DEF QInv, AttemptsBounded, RunsWithinBudget, StaleLimit, RetryLimit
<1> QED
  BY <1>6, <1>7, <1>8, <1>9, <1>10 DEF QInv

(* ... and so does an enqueueJob that loses the other jobs: a lost job has *)
(* run as often as it had, and no runner of it is doubled.                 *)
LEMMA EnqueueUnreadKeeps ==
  ASSUME QInv, NEW j \in Jobs, EnqueueUnread(j)
  PROVE  QInv'
<1>1. claims[j] = 0 /\ \A w \in Workers : ~Holds(w, j)
  BY DEF QInv, EnqueueUnread, UnsubmittedAbsent
<1>2. /\ submitted' = submitted \cup {j} /\ order' = <<j>>
      /\ job' = [i \in Jobs |-> IF i = j THEN NewJob ELSE NoJob]
      /\ UNCHANGED <<report, worker, claims>> /\ faults' = faults + 1
  BY DEF EnqueueUnread, ReadFails
<1>3. /\ NewJob \in JobFields /\ NewJob.attempts = 0 /\ NewJob.status = "queued"
      /\ NoJob \in JobFields /\ NoJob.attempts = 0 /\ NoJob.status = "absent"
  BY DEF NewJob, NoJob, JobFields, Statuses
<1>4. \A i \in Jobs : job'[i] = IF i = j THEN NewJob ELSE NoJob
  BY <1>2
<1>5. TypeOK'
  <2>1. job' \in [Jobs -> JobFields]
    BY <1>2, <1>3
  <2>2. order' \in Seq(Jobs)
    BY <1>2
  <2> QED
    BY <1>2, <2>1, <2>2 DEF QInv, TypeOK
<1>6. SingleRunner' /\ HeldJobsAreCurrent'
  BY <1>1, <1>2, <1>3, <1>4 DEF QInv, SingleRunner, HeldJobsAreCurrent, Holds
<1>7. AttemptsCountRuns'
  BY <1>1, <1>2, <1>3, <1>4 DEF AttemptsCountRuns, Settled
<1>8. UnsubmittedAbsent'
  BY <1>2, <1>4 DEF QInv, UnsubmittedAbsent, Holds
<1>9. AttemptsBounded' /\ RunsWithinBudget'
  <2>1. \A i \in Jobs : job'[i].attempts = 0 /\ claims'[i] = claims[i]
    BY <1>2, <1>3, <1>4
  <2>2. \A i \in Jobs : 0 <= Larger(StaleLimit(i), RetryLimit(i))
    BY LimitsType DEF Larger
  <2> QED
    BY <2>1, <2>2 DEF QInv, AttemptsBounded, RunsWithinBudget, StaleLimit, RetryLimit
<1> QED
  BY <1>5, <1>6, <1>7, <1>8, <1>9 DEF QInv

(* requeueStaleJobs keeps the invariant: what it takes, nobody holds. *)
LEMMA SweepKeeps ==
  ASSUME QInv, NEW w \in Workers, Sweep(w)
  PROVE  QInv'
<1>1. \A j \in Jobs : /\ j \in Stale => job'[j] = Requeued(j)
                      /\ j \notin Stale => job'[j] = job[j]
  BY DEF Sweep
<1>2. \A j \in Stale : j \in Jobs /\ job[j].status = "running" /\ \A v \in Workers : ~Holds(v, j)
  BY QueueAssumption DEF Stale, QInv, HeldJobsAreCurrent
<1>3. \A v \in Workers, j \in Jobs :
        Holds(v, j)' => Holds(v, j) /\ worker'[v] = worker[v] /\ job'[j] = job[j]
  BY <1>1, <1>2 DEF Sweep, Holds, QInv, TypeOK
<1>4. TypeOK'
  <2>1. job' \in [Jobs -> JobFields]
    BY RequeuedType DEF Sweep, QInv, TypeOK
  <2>2. worker' \in [Workers -> WorkerStates]
    BY DEF Sweep, QInv, TypeOK, WorkerStates
  <2> QED
    BY <2>1, <2>2 DEF Sweep, QInv, TypeOK
<1>5. SingleRunner' /\ HeldJobsAreCurrent'
  BY <1>3 DEF QInv, SingleRunner, HeldJobsAreCurrent
<1>6. AttemptsCountRuns'
  <2> SUFFICES ASSUME NEW j \in Jobs, job'[j].status # "absent"
               PROVE  claims'[j] = job'[j].attempts
                        + (IF job'[j].status \in {"running"} \cup Settled THEN 1 ELSE 0)
    BY DEF AttemptsCountRuns
  <2>1. /\ claims'[j] = claims[j] /\ job[j].attempts \in Nat
        /\ job[j].status # "absent" =>
             claims[j] = job[j].attempts
                         + (IF job[j].status \in {"running"} \cup Settled THEN 1 ELSE 0)
    BY DEF QInv, AttemptsCountRuns, Sweep, TypeOK, JobFields
  <2>2. CASE j \in Stale
    <3>0. job[j].status = "running" /\ job'[j] = Requeued(j)
      BY <1>1, <1>2, <2>2
    <3>1. claims[j] = job[j].attempts + 1
      BY <2>1, <3>0
    <3>2. \/ job'[j].status = "queued" /\ job'[j].attempts = job[j].attempts + 1
          \/ job'[j].status = "failed" /\ job'[j].attempts = job[j].attempts
      BY <3>0, RequeuedType DEF QInv
    <3> QED
      BY <2>1, <3>1, <3>2 DEF Settled
  <2>3. CASE j \notin Stale
    BY <1>1, <2>1, <2>3
  <2> QED
    BY <2>2, <2>3
<1>7. UnsubmittedAbsent' /\ RunsWithinBudget'
  <2>1. submitted' = submitted /\ claims' = claims
    BY DEF Sweep
  <2>2. ASSUME NEW j \in Jobs, j \notin submitted PROVE job'[j] = NoJob
    <3>1. job[j] = NoJob
      BY <2>2 DEF QInv, UnsubmittedAbsent
    <3> QED
      BY <1>1, <1>2, <3>1 DEF NoJob
  <2>3. UnsubmittedAbsent'
    BY <1>3, <2>1, <2>2 DEF QInv, UnsubmittedAbsent
  <2>4. RunsWithinBudget'
    BY <2>1 DEF QInv, RunsWithinBudget, StaleLimit, RetryLimit
  <2> QED
    BY <2>3, <2>4
<1>8. AttemptsBounded'
  <2> SUFFICES ASSUME NEW j \in Jobs
               PROVE  job'[j].attempts <= Larger(StaleLimit(j), RetryLimit(j))
    BY DEF AttemptsBounded, StaleLimit, RetryLimit
  <2>1. job[j].attempts <= Larger(StaleLimit(j), RetryLimit(j)) /\ job[j].attempts \in Nat
    BY DEF QInv, AttemptsBounded, TypeOK, JobFields
  <2>2. CASE j \in Stale
    <3>1. job'[j] = Requeued(j) /\ Requeued(j).attempts \in Nat
      BY <1>1, <2>2, RequeuedType DEF QInv, JobFields
    <3>2. Requeued(j).attempts <= StaleLimit(j) \/ Requeued(j).attempts = job[j].attempts
      BY RequeuedType, Zenon DEF QInv
    <3>3. StaleLimit(j) \in Nat /\ RetryLimit(j) \in Nat
      BY LimitsType
    <3> QED
      BY <2>1, <3>1, <3>2, <3>3 DEF Larger
  <2>3. CASE j \notin Stale
    BY <1>1, <2>1, <2>3
  <2> QED
    BY <2>2, <2>3
<1> QED
  BY <1>4, <1>5, <1>6, <1>7, <1>8 DEF QInv

(* A claim takes a job nobody holds and remembers its present attempts. *)
LEMMA ClaimKeeps ==
  ASSUME QInv, NEW w \in Workers, ClaimNextJob(w)
  PROVE  QInv'
<1> DEFINE ClaimOf(j) ==
        /\ job[j].status = "queued"
        /\ job' = [job EXCEPT ![j].status = "running", ![j].beat = "fresh"]
        /\ claims' = [claims EXCEPT ![j] = @ + 1]
        /\ worker' = [worker EXCEPT ![w] = [phase |-> "running", job |-> j,
                                            attempts |-> job[j].attempts]]
        /\ UNCHANGED <<submitted, order, report, faults>>
<1>1. PICK j \in Jobs : ClaimOf(j)
  <2>1. PICK i \in 1..Len(order) : ClaimOf(order[i])
    BY Zenon DEF ClaimNextJob, Claimable
  <2>2. order[i] \in Jobs
    BY DEF QInv, TypeOK
  <2> QED
    BY <2>1, <2>2
<1>2. job[j] \in JobFields /\ job[j].attempts \in Nat /\ claims[j] \in Nat
  BY DEF QInv, TypeOK, JobFields
<1>3. /\ job'[j] = [job[j] EXCEPT !.status = "running", !.beat = "fresh"]
      /\ \A i \in Jobs : i # j => job'[i] = job[i] /\ claims'[i] = claims[i]
      /\ claims'[j] = claims[j] + 1
      /\ worker'[w] = [phase |-> "running", job |-> j, attempts |-> job[j].attempts]
      /\ \A v \in Workers : v # w => worker'[v] = worker[v]
  BY <1>1 DEF QInv, TypeOK
<1>4. /\ job'[j] \in JobFields /\ job'[j].status = "running" /\ job'[j].beat = "fresh"
      /\ job'[j].attempts = job[j].attempts
  BY <1>2, <1>3 DEF JobFields, Statuses
<1>5. TypeOK'
  <2>1. job' \in [Jobs -> JobFields] /\ claims' \in [Jobs -> Nat]
    BY <1>1, <1>2, <1>3, <1>4 DEF QInv, TypeOK
  <2>2. worker' \in [Workers -> WorkerStates]
    BY <1>1, <1>2 DEF QInv, TypeOK, WorkerStates
  <2> QED
    BY <1>1, <2>1, <2>2 DEF QInv, TypeOK
<1>6. \A v \in Workers : ~Holds(v, j)
  BY <1>1 DEF QInv, SingleRunner
<1>7. \A i \in Jobs : Holds(w, i)' => i = j
  BY <1>3 DEF Holds
<1>8. \A v \in Workers, i \in Jobs : v # w /\ Holds(v, i)' => Holds(v, i) /\ i # j
  BY <1>3, <1>6 DEF Holds
<1>9. SingleRunner' /\ HeldJobsAreCurrent'
  <2> SUFFICES ASSUME NEW v \in Workers, NEW i \in Jobs, Holds(v, i)'
               PROVE  /\ job'[i].status \in {"running", "absent"}
                      /\ \A u \in Workers : Holds(u, i)' => u = v
                      /\ job'[i].status # "absent" =>
                           worker'[v].attempts = job'[i].attempts /\ job'[i].beat = "fresh"
    BY DEF SingleRunner, HeldJobsAreCurrent
  <2>1. CASE v = w
    <3>1. i = j
      BY <1>7, <2>1
    <3>2. \A u \in Workers : Holds(u, i)' => u = v
      BY <1>8, <2>1, <3>1
    <3>3. worker'[w].attempts = job[j].attempts
      BY <1>3
    <3> QED
      BY <1>4, <2>1, <3>1, <3>2, <3>3
  <2>2. CASE v # w
    <3>1. Holds(v, i) /\ i # j
      BY <1>8, <2>2
    <3>2. \A u \in Workers : Holds(u, i)' => Holds(u, i)
      BY <1>7, <1>8, <3>1
    <3>3. worker'[v] = worker[v] /\ job'[i] = job[i]
      BY <1>3, <2>2, <3>1
    <3> QED
      BY <3>1, <3>2, <3>3 DEF QInv, SingleRunner, HeldJobsAreCurrent
  <2> QED
    BY <2>1, <2>2
<1>10. claims[j] = job[j].attempts
  BY <1>1, <1>2 DEF QInv, AttemptsCountRuns, Settled
<1>11. AttemptsCountRuns'
  <2> SUFFICES ASSUME NEW i \in Jobs, job'[i].status # "absent"
               PROVE  claims'[i] = job'[i].attempts
                        + (IF job'[i].status \in {"running"} \cup Settled THEN 1 ELSE 0)
    BY DEF AttemptsCountRuns
  <2>2. CASE i = j
    BY <1>2, <1>3, <1>4, <1>10, <2>2
  <2>3. CASE i # j
    BY <1>3, <2>3 DEF QInv, AttemptsCountRuns
  <2> QED
    BY <2>2, <2>3
<1>12. UnsubmittedAbsent'
  <2>1. j \in submitted
    BY <1>1 DEF QInv, UnsubmittedAbsent, NoJob
  <2>2. submitted' = submitted
    BY <1>1
  <2> QED
    BY <1>3, <1>7, <1>8, <2>1, <2>2 DEF QInv, UnsubmittedAbsent
<1>13. AttemptsBounded' /\ RunsWithinBudget'
  <2>1. \A i \in Jobs : job'[i].attempts = job[i].attempts
    BY <1>3, <1>4
  <2>2. AttemptsBounded'
    BY <2>1 DEF QInv, AttemptsBounded, StaleLimit, RetryLimit
  <2>3. claims'[j] <= 1 + Larger(StaleLimit(j), RetryLimit(j))
    <3>1. job[j].attempts <= Larger(StaleLimit(j), RetryLimit(j))
      BY DEF QInv, AttemptsBounded
    <3>2. Larger(StaleLimit(j), RetryLimit(j)) \in Nat
      BY LimitsType DEF Larger
    <3> QED
      BY <1>2, <1>3, <1>10, <3>1, <3>2
  <2>4. RunsWithinBudget'
    BY <1>3, <2>3 DEF QInv, RunsWithinBudget, StaleLimit, RetryLimit
  <2> QED
    BY <2>2, <2>4
<1> QED
  BY <1>5, <1>9, <1>12, <1>13, <1>11 DEF QInv
-----------------------------------------------------------------------------
(* A step that rewrites one accepted job without claiming it keeps the     *)
(* invariant, if who still holds the job finds it unchanged, and if the    *)
(* new attempts account for the same runs.                                 *)
LEMMA OneJobStepKeeps ==
  ASSUME QInv, NEW j \in Jobs, NEW r \in JobFields,
         job' = [job EXCEPT ![j] = r],
         UNCHANGED <<submitted, order, faults, claims>>,
         report' \in [Jobs -> Statuses \cup {"none"}],
         worker' \in [Workers -> WorkerStates],
         \A v \in Workers, i \in Jobs :
           Holds(v, i)' => Holds(v, i) /\ worker'[v].attempts = worker[v].attempts,
         \A v \in Workers :
           Holds(v, j)' => r.status = "running" /\ r.beat = "fresh" /\ r.attempts = job[j].attempts,
         job[j].status # "absent",
         claims[j] = r.attempts + (IF r.status \in {"running"} \cup Settled THEN 1 ELSE 0),
         r.attempts <= Larger(StaleLimit(j), RetryLimit(j))
  PROVE  QInv'
<1>1. job'[j] = r /\ \A i \in Jobs : i # j => job'[i] = job[i]
  BY DEF QInv, TypeOK
<1>2. TypeOK'
  BY DEF QInv, TypeOK
<1>3. SingleRunner' /\ HeldJobsAreCurrent'
  <2> SUFFICES ASSUME NEW v \in Workers, NEW i \in Jobs, Holds(v, i)'
               PROVE  /\ job'[i].status \in {"running", "absent"}
                      /\ \A u \in Workers : Holds(u, i)' => u = v
                      /\ job'[i].status # "absent" =>
                           worker'[v].attempts = job'[i].attempts /\ job'[i].beat = "fresh"
    BY DEF SingleRunner, HeldJobsAreCurrent
  <2>1. Holds(v, i) /\ worker'[v].attempts = worker[v].attempts
    OBVIOUS
  <2>2. /\ job[i].status \in {"running", "absent"}
        /\ job[i].status # "absent" =>
             worker[v].attempts = job[i].attempts /\ job[i].beat = "fresh"
        /\ \A u \in Workers : Holds(u, i) => u = v
    BY <2>1 DEF QInv, SingleRunner, HeldJobsAreCurrent
  <2>3. \A u \in Workers : Holds(u, i)' => u = v
    BY <2>2
  <2>4. CASE i = j
    BY <1>1, <2>1, <2>2, <2>3, <2>4
  <2>5. CASE i # j
    BY <1>1, <2>1, <2>2, <2>3, <2>5
  <2> QED
    BY <2>4, <2>5
<1>4. AttemptsCountRuns'
  <2> SUFFICES ASSUME NEW i \in Jobs, job'[i].status # "absent"
               PROVE  claims'[i] = job'[i].attempts
                        + (IF job'[i].status \in {"running"} \cup Settled THEN 1 ELSE 0)
    BY DEF AttemptsCountRuns
  <2>1. claims'[i] = claims[i]
    OBVIOUS
  <2>2. CASE i = j
    BY <1>1, <2>1, <2>2
  <2>3. CASE i # j
    BY <1>1, <2>1, <2>3 DEF QInv, AttemptsCountRuns
  <2> QED
    BY <2>2, <2>3
<1>5. UnsubmittedAbsent'
  <2>1. j \in submitted
    BY DEF QInv, UnsubmittedAbsent, NoJob
  <2> QED
    BY <1>1, <2>1 DEF QInv, UnsubmittedAbsent
<1>6. AttemptsBounded' /\ RunsWithinBudget'
  BY <1>1 DEF QInv, AttemptsBounded, RunsWithinBudget, StaleLimit, RetryLimit
<1> QED
  BY <1>2, <1>3, <1>4, <1>5, <1>6 DEF QInv

(* What holding a job means for the job, if the file has it, spelt out. *)
LEMMA HolderFacts ==
  ASSUME QInv, NEW w \in Workers, worker[w].phase \in {"running", "finished"},
         job[worker[w].job].status # "absent"
  PROVE  LET j == worker[w].job
         IN /\ j \in Jobs /\ Holds(w, j)
            /\ job[j] \in JobFields /\ job[j].status = "running" /\ job[j].beat = "fresh"
            /\ job[j].attempts \in Nat /\ worker[w].attempts = job[j].attempts
            /\ claims[j] = job[j].attempts + 1
            /\ job[j].attempts <= Larger(StaleLimit(j), RetryLimit(j))
            /\ \A v \in Workers : Holds(v, j) => v = w
<1> DEFINE j == worker[w].job
<1>1. j \in Jobs /\ Holds(w, j)
  BY DEF QInv, TypeOK, WorkerStates, Holds
<1>2. job[j] \in JobFields /\ job[j].attempts \in Nat
  BY <1>1 DEF QInv, TypeOK, JobFields
<1>3. job[j].status = "running" /\ \A v \in Workers : Holds(v, j) => v = w
  BY <1>1 DEF QInv, SingleRunner
<1>4. job[j].beat = "fresh" /\ worker[w].attempts = job[j].attempts
  BY <1>1 DEF QInv, HeldJobsAreCurrent
<1>5. claims[j] = job[j].attempts + 1
  BY <1>1, <1>3 DEF QInv, AttemptsCountRuns
<1>6. job[j].attempts <= Larger(StaleLimit(j), RetryLimit(j))
  BY <1>1 DEF QInv, AttemptsBounded
<1> QED
  BY <1>1, <1>2, <1>3, <1>4, <1>5, <1>6

(* touchJobHeartbeat keeps the invariant. *)
LEMMA HeartbeatKeeps ==
  ASSUME QInv, NEW w \in Workers, Heartbeat(w)
  PROVE  QInv'
<1>1. /\ worker[w].phase \in {"running", "finished"} /\ worker[w].job \in Jobs
      /\ job[worker[w].job].status # "absent"
  BY HeldType DEF Heartbeat, QInv
<1> PICK j \in Jobs : j = worker[w].job
  BY <1>1
<1> DEFINE r == [job[j] EXCEPT !.beat = "fresh"]
<1>2. /\ job[j] \in JobFields /\ job[j].status = "running"
      /\ job[j].attempts \in Nat /\ claims[j] = job[j].attempts + 1
      /\ job[j].attempts <= Larger(StaleLimit(j), RetryLimit(j))
  BY <1>1, HolderFacts
<1>3. r \in JobFields /\ r.status = "running" /\ r.beat = "fresh" /\ r.attempts = job[j].attempts
  BY <1>2 DEF JobFields
<1>4. job' = [job EXCEPT ![j] = r] /\ UNCHANGED <<submitted, order, report, worker, faults, claims>>
  BY DEF Heartbeat
<1>5. \A v \in Workers, i \in Jobs :
        Holds(v, i)' => Holds(v, i) /\ worker'[v].attempts = worker[v].attempts
  BY <1>4 DEF Holds
<1>6. report' \in [Jobs -> Statuses \cup {"none"}] /\ worker' \in [Workers -> WorkerStates]
  BY <1>4 DEF QInv, TypeOK
<1> HIDE DEF r
<1> QED
  BY <1>2, <1>3, <1>4, <1>5, <1>6, OneJobStepKeeps

(* Without stalls a heartbeat expires only when nobody holds the job. *)
LEMMA BeatExpiresKeeps ==
  ASSUME QInv, NoStalls, NEW j \in Jobs, BeatExpires(j)
  PROVE  QInv'
<1> DEFINE r == [job[j] EXCEPT !.beat = "stale"]
<1>1. \A w \in Workers : ~Holds(w, j)
  BY DEF BeatExpires, NoStalls
<1>2. /\ job[j] \in JobFields /\ job[j].attempts \in Nat
      /\ job[j].status = "running" /\ claims[j] = job[j].attempts + 1
      /\ job[j].attempts <= Larger(StaleLimit(j), RetryLimit(j))
  BY DEF BeatExpires, QInv, TypeOK, JobFields, AttemptsCountRuns, AttemptsBounded
<1>3. r \in JobFields /\ r.status = "running" /\ r.attempts = job[j].attempts
  BY <1>2 DEF JobFields
<1>4. job' = [job EXCEPT ![j] = r] /\ UNCHANGED <<submitted, order, report, worker, faults, claims>>
  BY DEF BeatExpires
<1>5. \A v \in Workers, i \in Jobs :
        Holds(v, i)' => Holds(v, i) /\ worker'[v].attempts = worker[v].attempts
  BY <1>4 DEF Holds
<1>6. report' \in [Jobs -> Statuses \cup {"none"}] /\ worker' \in [Workers -> WorkerStates]
  BY <1>4 DEF QInv, TypeOK
<1>7. \A v \in Workers : ~Holds(v, j)'
  BY <1>1, <1>5
<1> HIDE DEF r
<1> QED
  BY <1>2, <1>3, <1>4, <1>5, <1>6, <1>7, OneJobStepKeeps

(* The end of a retry delay keeps the invariant: nobody holds a queued job. *)
LEMMA DelayEndsKeeps ==
  ASSUME QInv, NEW j \in Jobs, DelayEnds(j)
  PROVE  QInv'
<1> DEFINE r == [job[j] EXCEPT !.eligible = TRUE]
<1>1. \A w \in Workers : ~Holds(w, j)
  BY DEF DelayEnds, QInv, SingleRunner
<1>2. /\ job[j] \in JobFields /\ job[j].attempts \in Nat
      /\ job[j].status = "queued"
      /\ claims[j] = job[j].attempts + (IF job[j].status \in {"running"} \cup Settled THEN 1 ELSE 0)
      /\ job[j].attempts <= Larger(StaleLimit(j), RetryLimit(j))
  BY DEF DelayEnds, QInv, TypeOK, JobFields, AttemptsCountRuns, AttemptsBounded
<1>3. r \in JobFields /\ r.status = job[j].status /\ r.attempts = job[j].attempts
  BY <1>2 DEF JobFields
<1>4. job' = [job EXCEPT ![j] = r] /\ UNCHANGED <<submitted, order, report, worker, faults, claims>>
  BY DEF DelayEnds
<1>5. \A v \in Workers, i \in Jobs :
        Holds(v, i)' => Holds(v, i) /\ worker'[v].attempts = worker[v].attempts
  BY <1>4 DEF Holds
<1>6. report' \in [Jobs -> Statuses \cup {"none"}] /\ worker' \in [Workers -> WorkerStates]
  BY <1>4 DEF QInv, TypeOK
<1>7. \A v \in Workers : ~Holds(v, j)'
  BY <1>1, <1>5
<1> HIDE DEF r
<1> QED
  BY <1>2, <1>3, <1>4, <1>5, <1>6, <1>7, OneJobStepKeeps

(* The end of the subprocess leaves the worker with the job it had. *)
LEMMA ExecuteKeeps ==
  ASSUME QInv, NEW w \in Workers, NEW result \in Settled, Execute(w, result)
  PROVE  QInv'
<1>1. worker[w].job \in Jobs /\ worker[w].attempts \in Nat
  BY HeldType DEF Execute, QInv
<1>2. /\ worker[w].phase = "running"
      /\ worker'[w] = [phase |-> "finished", job |-> worker[w].job,
                       attempts |-> worker[w].attempts, result |-> result]
      /\ \A v \in Workers : v # w => worker'[v] = worker[v]
      /\ UNCHANGED <<submitted, order, job, report, faults, claims>>
  BY DEF Execute, QInv, TypeOK
<1>3. worker' \in [Workers -> WorkerStates]
  BY <1>1 DEF Execute, QInv, TypeOK, WorkerStates
<1>4. \A v \in Workers, i \in Jobs :
        Holds(v, i)' => Holds(v, i) /\ worker'[v].attempts = worker[v].attempts
  <2> SUFFICES ASSUME NEW v \in Workers, NEW i \in Jobs, Holds(v, i)'
               PROVE  Holds(v, i) /\ worker'[v].attempts = worker[v].attempts
    OBVIOUS
  <2>1. CASE v = w
    BY <1>2, <2>1 DEF Holds
  <2>2. CASE v # w
    BY <1>2, <2>2 DEF Holds
  <2> QED
    BY <2>1, <2>2
<1>5. report' \in [Jobs -> Statuses \cup {"none"}] /\ faults' \in Nat
  BY <1>2 DEF QInv, TypeOK
<1> QED
  BY <1>2, <1>3, <1>4, <1>5, IdleStepKeeps

(* completeJob keeps the invariant when its caller was the job's runner    *)
(* and charges the run, to the attempts, or by settling the job; and when  *)
(* it finds no job.                                                        *)
LEMMA CompleteJobKeeps ==
  ASSUME QInv, NEW w \in Workers, worker[w].phase \in {"running", "finished"},
         NEW status \in {"queued"} \cup Settled, NEW attempts \in Nat,
         CompleteJob(w, status, attempts),
         job[worker[w].job].status # "absent" =>
           IF status = "queued"
           THEN /\ attempts = job[worker[w].job].attempts + 1
                /\ attempts <= RetryLimit(worker[w].job)
           ELSE attempts = job[worker[w].job].attempts
  PROVE  QInv'
<1>1. worker[w].job \in Jobs
  BY HeldType DEF QInv
<1> PICK j \in Jobs : j = worker[w].job
  BY <1>1
<1>2. /\ worker' = [worker EXCEPT ![w] = Idle] /\ UNCHANGED <<submitted, order, claims>>
      /\ Record(j, status, attempts) \/ FindsNoJob(j)
  BY DEF CompleteJob
<1>3. /\ worker' \in [Workers -> WorkerStates] /\ worker'[w].phase = "idle"
      /\ \A v \in Workers : v # w => worker'[v] = worker[v]
  BY <1>2 DEF QInv, TypeOK, Idle, WorkerStates
<1>4. \A v \in Workers, i \in Jobs :
        Holds(v, i)' => v # w /\ Holds(v, i) /\ worker'[v].attempts = worker[v].attempts
  BY <1>3 DEF Holds
<1>5. CASE Record(j, status, attempts)
  <2> DEFINE r == [status |-> status, attempts |-> attempts, eligible |-> job[j].eligible,
                   beat |-> "none"]
  <2>1. /\ job[j].status # "absent" /\ UNCHANGED faults
        /\ job' = [job EXCEPT ![j] = r]
        /\ report' \in {report, [report EXCEPT ![j] = status]}
    BY <1>5 DEF Record
  <2>2. /\ job[j] \in JobFields /\ job[j].status = "running"
        /\ job[j].attempts \in Nat /\ claims[j] = job[j].attempts + 1
        /\ job[j].attempts <= Larger(StaleLimit(j), RetryLimit(j))
        /\ \A v \in Workers : Holds(v, j) => v = w
    BY <2>1, HolderFacts
  <2>3. r \in JobFields /\ r.status = status /\ r.attempts = attempts
    BY <2>2 DEF JobFields, Statuses, Settled
  <2>4. report' \in [Jobs -> Statuses \cup {"none"}]
    BY <2>1 DEF QInv, TypeOK, Statuses, Settled
  <2>5. \A v \in Workers : ~Holds(v, j)'
    BY <1>4, <2>2
  <2>6. claims[j] = r.attempts + (IF r.status \in {"running"} \cup Settled THEN 1 ELSE 0)
    BY <2>1, <2>2, <2>3 DEF Settled
  <2>7. r.attempts <= Larger(StaleLimit(j), RetryLimit(j))
    <3>1. StaleLimit(j) \in Nat /\ RetryLimit(j) \in Nat
      BY LimitsType
    <3>2. attempts <= RetryLimit(j) \/ attempts = job[j].attempts
      BY <2>1
    <3> QED
      BY <2>2, <2>3, <3>1, <3>2 DEF Larger
  <2> HIDE DEF r
  <2> QED
    BY <1>2, <1>3, <1>4, <2>1, <2>2, <2>3, <2>4, <2>5, <2>6, <2>7, OneJobStepKeeps
<1>6. CASE FindsNoJob(j)
  <2>1. UNCHANGED <<job, report>> /\ faults' \in Nat
    BY <1>6 DEF FindsNoJob, ReadFails, QInv, TypeOK
  <2>2. report' \in [Jobs -> Statuses \cup {"none"}]
    BY <2>1 DEF QInv, TypeOK
  <2> QED
    BY <1>2, <1>3, <1>4, <2>1, <2>2, IdleStepKeeps
<1> QED
  BY <1>2, <1>5, <1>6

(* Both ways of completing a job charge its run. *)
LEMMA CannotStartKeeps ==
  ASSUME QInv, NEW w \in Workers, CannotStart(w)
  PROVE  QInv'
<1>1. worker[w].phase \in {"running", "finished"}
      /\ CompleteJob(w, "failed", job[worker[w].job].attempts)
  BY DEF CannotStart
<1>2. job[worker[w].job].attempts \in Nat
  BY <1>1, HeldType DEF QInv, TypeOK, JobFields
<1> QED
  BY <1>1, <1>2, CompleteJobKeeps DEF Settled

(* The attempts a runner remembers are those of the job, so that the retry *)
(* of finalizeJobRun charges exactly its own run.                          *)
LEMMA FinalizeRunKeeps ==
  ASSUME QInv, NEW w \in Workers, FinalizeRun(w)
  PROVE  QInv'
<1>1. worker[w].phase = "finished" /\ worker[w].phase \in {"running", "finished"}
  BY DEF FinalizeRun
<1>2. /\ worker[w].job \in Jobs /\ job[worker[w].job].attempts \in Nat
      /\ worker[w].attempts \in Nat
      /\ job[worker[w].job].status # "absent" =>
           worker[w].attempts = job[worker[w].job].attempts
  BY <1>1, HeldType, HolderFacts DEF QInv, TypeOK, JobFields
<1>3. CASE Retries(w)
  <2>1. CompleteJob(w, "queued", worker[w].attempts + 1)
    BY <1>3 DEF FinalizeRun
  <2>2. worker[w].attempts + 1 \in Nat /\ worker[w].attempts + 1 <= RetryLimit(worker[w].job)
    BY <1>2, <1>3, LimitsType DEF Retries
  <2> QED
    BY <1>1, <1>2, <2>1, <2>2, CompleteJobKeeps
<1>4. CASE ~Retries(w)
  <2>1. CompleteJob(w, worker[w].result, job[worker[w].job].attempts)
    BY <1>4 DEF FinalizeRun
  <2>2. worker[w].result \in Settled
    BY <1>1 DEF QInv, TypeOK, WorkerStates
  <2>3. worker[w].result # "queued"
    BY <2>2 DEF Settled
  <2> QED
    BY <1>1, <1>2, <2>1, <2>2, <2>3, CompleteJobKeeps
<1> QED
  BY <1>3, <1>4

(* Sweeps skipped, polls of an empty queue, crashes and restarts. *)
LEMMA WorkerStepKeeps ==
  ASSUME QInv, NEW w \in Workers,
         SkipSweep(w) \/ NothingToClaim(w) \/ Crash(w) \/ Restart(w)
  PROVE  QInv'
<1>1. PICK next \in {"swept", "idle", "down"} : worker' = [worker EXCEPT ![w] = [phase |-> next]]
  BY DEF SkipSweep, NothingToClaim, Crash, Restart, Idle
<1>2. UNCHANGED <<submitted, order, job, report, claims>>
  BY DEF SkipSweep, NothingToClaim, Crash, Restart
<1>3. faults' \in Nat
  BY DEF SkipSweep, NothingToClaim, ReadFails, Crash, Restart, QInv, TypeOK
<1>4. worker' \in [Workers -> WorkerStates]
  BY <1>1 DEF QInv, TypeOK, WorkerStates
<1>5. \A v \in Workers, j \in Jobs :
        Holds(v, j)' => Holds(v, j) /\ worker'[v].attempts = worker[v].attempts
  <2>1. \A v \in Workers : worker'[v] = worker[v] \/ worker'[v].phase = next
    BY <1>1 DEF QInv, TypeOK
  <2> QED
    BY <2>1 DEF Holds
<1>6. report' \in [Jobs -> Statuses \cup {"none"}]
  BY <1>2 DEF QInv, TypeOK
<1> QED
  BY <1>2, <1>3, <1>4, <1>5, <1>6, IdleStepKeeps

(* Every step keeps the invariant. *)
LEMMA QNext ==
  ASSUME NoStalls, QInv, [Next]_vars
  PROVE  QInv'
<1>1. CASE UNCHANGED vars
  BY <1>1 DEF vars, QInv, TypeOK, SingleRunner, AttemptsCountRuns, HeldJobsAreCurrent,
              UnsubmittedAbsent, AttemptsBounded, RunsWithinBudget, Holds, StaleLimit, RetryLimit
<1>2. ASSUME NEW j \in Jobs, Enqueue(j) \/ EnqueueUnread(j) \/ BeatExpires(j) \/ DelayEnds(j)
      PROVE  QInv'
  BY <1>2, EnqueueKeeps, EnqueueUnreadKeeps, BeatExpiresKeeps, DelayEndsKeeps
<1>3. ASSUME NEW w \in Workers, Work(w) PROVE QInv'
  BY <1>3, SweepKeeps, WorkerStepKeeps, ClaimKeeps, HeartbeatKeeps, CannotStartKeeps,
     FinalizeRunKeeps, ExecuteKeeps DEF Work
<1>4. ASSUME NEW w \in Workers, Crash(w) \/ Restart(w) PROVE QInv'
  BY <1>4, WorkerStepKeeps
<1> QED
  BY <1>1, <1>2, <1>3, <1>4 DEF Next

-----------------------------------------------------------------------------
(* The invariant holds in every run without stalls. *)
THEOREM QueueInvariant == NoStalls => (Spec => []QInv)
<1> SUFFICES ASSUME NoStalls PROVE Spec => []QInv
  OBVIOUS
<1>1. Init => QInv
  BY QInit
<1>2. QInv /\ [Next]_vars => QInv'
  BY QNext
<1> QED
  BY <1>1, <1>2, PTL DEF Spec

(* A job never has two runners: sweeps and completions by other workers    *)
(* leave a claimed job alone while its heartbeats arrive.                  *)
THEOREM OneRunner == NoStalls => (Spec => []SingleRunner)
<1>1. QInv => SingleRunner
  BY DEF QInv
<1> QED
  BY <1>1, QueueInvariant, PTL

(* Every run of a job is charged to its attempts once, crashes included.   *)
THEOREM AttemptsAreRuns == NoStalls => (Spec => []AttemptsCountRuns)
<1>1. QInv => AttemptsCountRuns
  BY DEF QInv
<1> QED
  BY <1>1, QueueInvariant, PTL

(* No job runs more often than one plus its retries, however failures and  *)
(* crashes alternate.                                                      *)
THEOREM RunsStayWithinBudget == NoStalls => (Spec => []RunsWithinBudget)
<1>1. QInv => RunsWithinBudget
  BY DEF QInv
<1> QED
  BY <1>1, QueueInvariant, PTL

-----------------------------------------------------------------------------
(* A step rewrites the status of a job that is queued, running or new,     *)
(* never that of a settled one, which it can only lose.                    *)
LEMMA SettledStep ==
  ASSUME QInv, [Next]_vars, NEW j \in Jobs, job[j].status \in Settled
  PROVE  job'[j].status \in {job[j].status, "absent"}
<1>1. job[j].status \notin {"absent", "queued", "running"} /\ job \in [Jobs -> JobFields]
  BY DEF Settled, QInv, TypeOK
<1>2. CASE UNCHANGED vars
  BY <1>2 DEF vars
<1>3. ASSUME NEW i \in Jobs, Enqueue(i) PROVE job'[j].status = job[j].status
  <2>1. i # j
    BY <1>1, <1>3 DEF Enqueue, QInv, UnsubmittedAbsent, NoJob
  <2> QED
    BY <1>1, <1>3, <2>1 DEF Enqueue
<1>4. ASSUME NEW i \in Jobs, EnqueueUnread(i) PROVE job'[j].status \in {job[j].status, "absent"}
  <2>1. i # j
    BY <1>1, <1>4 DEF EnqueueUnread, QInv, UnsubmittedAbsent, NoJob
  <2> QED
    BY <1>4, <2>1 DEF EnqueueUnread, NoJob
<1>5. ASSUME NEW i \in Jobs, BeatExpires(i) \/ DelayEnds(i) PROVE job'[j].status = job[j].status
  <2>1. i # j
    BY <1>1, <1>5 DEF BeatExpires, DelayEnds
  <2> QED
    BY <1>1, <1>5, <2>1 DEF BeatExpires, DelayEnds
<1>6. ASSUME NEW w \in Workers, Sweep(w) PROVE job'[j].status = job[j].status
  BY <1>1, <1>6 DEF Sweep, Stale
<1>7. ASSUME NEW w \in Workers, ClaimNextJob(w) PROVE job'[j].status = job[j].status
  <2>1. PICK i \in 1..Len(order) :
          /\ job[order[i]].status = "queued"
          /\ job' = [job EXCEPT ![order[i]].status = "running", ![order[i]].beat = "fresh"]
    BY <1>7, Zenon DEF ClaimNextJob, Claimable
  <2>2. order[i] # j
    BY <1>1, <2>1
  <2> QED
    BY <1>1, <2>1, <2>2
<1>8. ASSUME NEW w \in Workers, Heartbeat(w) PROVE job'[j].status = job[j].status
  <2>1. worker[w].job # j
    BY <1>1, <1>8 DEF Heartbeat
  <2> QED
    BY <1>1, <1>8, <2>1 DEF Heartbeat
<1>9. ASSUME NEW w \in Workers, CannotStart(w) \/ FinalizeRun(w)
      PROVE  job'[j].status = job[j].status
  <2>1. worker[w].phase \in {"running", "finished"}
    BY <1>9 DEF CannotStart, FinalizeRun
  <2>2. PICK status, attempts :
          Record(worker[w].job, status, attempts) \/ FindsNoJob(worker[w].job)
    BY <1>9 DEF CannotStart, FinalizeRun, CompleteJob
  <2>3. CASE FindsNoJob(worker[w].job)
    BY <2>3 DEF FindsNoJob
  <2>4. CASE Record(worker[w].job, status, attempts)
    <3>1. worker[w].job # j
      BY <1>1, <2>1, <2>4, HolderFacts DEF Record
    <3> QED
      BY <1>1, <2>4, <3>1 DEF Record
  <2> QED
    BY <2>2, <2>3, <2>4
<1>10. ASSUME NEW w \in Workers,
             \/ SkipSweep(w) \/ NothingToClaim(w) \/ Crash(w) \/ Restart(w)
             \/ \E result \in Settled : Execute(w, result)
      PROVE  job'[j].status = job[j].status
  BY <1>10 DEF SkipSweep, NothingToClaim, Crash, Restart, Execute
<1> QED
  BY <1>2, <1>3, <1>5, <1>6, <1>7, <1>8, <1>9, <1>10, <1>4 DEF Next, Work

(* A settled job is never revived, rerun or relabelled, because only its   *)
(* runner completes a job and a settled job has none.  It may be lost with *)
(* the file.                                                               *)
THEOREM SettledJobsStay == NoStalls => (Spec => SettledStays)
<1> SUFFICES ASSUME NoStalls PROVE Spec => SettledStays
  OBVIOUS
<1>1. QInv /\ [Next]_vars =>
        [\A j \in Jobs : job[j].status \in Settled => job'[j].status \in {job[j].status, "absent"}]_vars
  BY SettledStep
<1>2. Spec => []QInv
  BY QueueInvariant
<1> QED
  BY <1>1, <1>2, PTL DEF Spec, SettledStays

-----------------------------------------------------------------------------
(* Types and capacity: stalls included.                                    *)

(* Completing a job keeps the types, whoever completes it. *)
LEMMA CompleteJobTyped ==
  ASSUME TypeOK, NEW w \in Workers, worker[w].phase \in {"running", "finished"},
         NEW status \in {"queued"} \cup Settled, NEW attempts \in Nat,
         CompleteJob(w, status, attempts)
  PROVE  /\ TypeOK'
         /\ \/ UNCHANGED job
            \/ \E j \in Jobs, r \in JobFields :
                 job' = [job EXCEPT ![j] = r] /\ r.status = status /\ r.attempts = attempts
<1>1. worker[w].job \in Jobs
  BY HeldType
<1> PICK j \in Jobs : j = worker[w].job
  BY <1>1
<1>2. /\ worker' = [worker EXCEPT ![w] = Idle] /\ UNCHANGED <<submitted, order, claims>>
      /\ Record(j, status, attempts) \/ FindsNoJob(j)
  BY DEF CompleteJob
<1>3. worker' \in [Workers -> WorkerStates]
  BY <1>2 DEF TypeOK, Idle, WorkerStates
<1>4. CASE Record(j, status, attempts)
  <2> DEFINE r == [status |-> status, attempts |-> attempts, eligible |-> job[j].eligible,
                   beat |-> "none"]
  <2>1. /\ job' = [job EXCEPT ![j] = r] /\ UNCHANGED faults
        /\ report' \in {report, [report EXCEPT ![j] = status]}
    BY <1>4 DEF Record
  <2>2. r \in JobFields /\ r.status = status /\ r.attempts = attempts
    <3>1. job[j].eligible \in BOOLEAN
      BY DEF TypeOK, JobFields
    <3> QED
      BY <3>1 DEF JobFields, Statuses, Settled
  <2> HIDE DEF r
  <2>3. report' \in [Jobs -> Statuses \cup {"none"}]
    BY <2>1 DEF TypeOK, Statuses, Settled
  <2>4. TypeOK'
    BY <1>2, <1>3, <2>1, <2>2, <2>3 DEF TypeOK
  <2> QED
    BY <2>1, <2>2, <2>4
<1>5. CASE FindsNoJob(j)
  <2>1. UNCHANGED <<job, report>> /\ faults' \in Nat
    BY <1>5 DEF FindsNoJob, ReadFails, TypeOK
  <2>2. TypeOK'
    BY <1>2, <1>3, <2>1 DEF TypeOK
  <2> QED
    BY <2>1, <2>2
<1> QED
  BY <1>2, <1>4, <1>5

(* The jobs in the queue that were never run, and all that were accepted. *)
NewInQueue == {j \in Having("queued") : job[j].attempts = 0}
Accepted   == {j \in Jobs : job[j].status # "absent"}

(* Only enqueueJob brings new jobs into the queue; every other step leaves *)
(* at most one more job than it found with a status, and none of them new. *)
NoneNew ==
  /\ NewInQueue' \subseteq NewInQueue
  /\ \E j : Accepted' \subseteq Accepted \cup {j}

(* A step that changes one job at most, and not into a new one. *)
LEMMA OneJobNotNew ==
  ASSUME TypeOK, NEW j \in Jobs, NEW r, job' = [job EXCEPT ![j] = r],
         r.status = "queued" => r.attempts # 0 \/ (job[j].status = "queued" /\ job[j].attempts = 0)
  PROVE  NoneNew
<1>1. job'[j] = r /\ \A i \in Jobs : i # j => job'[i] = job[i]
  BY DEF TypeOK
<1>2. NewInQueue' \subseteq NewInQueue
  BY <1>1 DEF NewInQueue, Having
<1>3. Accepted' \subseteq Accepted \cup {j}
  BY <1>1 DEF Accepted
<1> QED
  BY <1>2, <1>3 DEF NoneNew

(* Nobody becomes new in a sweep. *)
LEMMA SweepTyped ==
  ASSUME TypeOK, NEW w \in Workers, Sweep(w)
  PROVE  TypeOK' /\ NoneNew
<1>1. /\ job' = [j \in Jobs |-> IF j \in Stale THEN Requeued(j) ELSE job[j]]
      /\ worker' = [worker EXCEPT ![w] = [phase |-> "swept"]]
      /\ UNCHANGED <<submitted, order, report, faults, claims>>
  BY DEF Sweep
<1>2. ASSUME NEW j \in Stale, j \in Jobs
      PROVE  /\ Requeued(j) \in JobFields /\ job[j].status = "running"
             /\ Requeued(j).status = "queued" => Requeued(j).attempts # 0
  <2>1. job[j].attempts \in Nat
    BY <1>2 DEF TypeOK, JobFields
  <2> QED
    BY <1>2, <2>1, RequeuedType DEF Stale
<1>3. \A j \in Jobs : job'[j] = IF j \in Stale THEN Requeued(j) ELSE job[j]
  BY <1>1
<1>4. job' \in [Jobs -> JobFields]
  <2>1. \A j \in Jobs : (IF j \in Stale THEN Requeued(j) ELSE job[j]) \in JobFields
    BY <1>2 DEF TypeOK
  <2> QED
    BY <1>1, <2>1
<1>5. TypeOK'
  BY <1>1, <1>4 DEF TypeOK, WorkerStates
<1>6. NewInQueue' \subseteq NewInQueue
  BY <1>2, <1>3 DEF NewInQueue, Having
<1>7. Accepted' \subseteq Accepted
  BY <1>2, <1>3 DEF Accepted
<1> QED
  BY <1>5, <1>6, <1>7 DEF NoneNew

(* A claim takes one job out of the queue. *)
LEMMA ClaimTyped ==
  ASSUME TypeOK, NEW w \in Workers, ClaimNextJob(w)
  PROVE  TypeOK' /\ NoneNew
<1>1. PICK i \in 1..Len(order) :
        /\ job' = [job EXCEPT ![order[i]].status = "running", ![order[i]].beat = "fresh"]
        /\ claims' = [claims EXCEPT ![order[i]] = @ + 1]
        /\ worker' = [worker EXCEPT ![w] = [phase |-> "running", job |-> order[i],
                                            attempts |-> job[order[i]].attempts]]
        /\ UNCHANGED <<submitted, order, report, faults>>
  BY Zenon DEF ClaimNextJob
<1>2. PICK j \in Jobs : j = order[i]
  BY DEF TypeOK
<1>3. job[j] \in JobFields /\ job[j].attempts \in Nat /\ claims[j] \in Nat
  BY DEF TypeOK, JobFields
<1> DEFINE r == [job[j] EXCEPT !.status = "running", !.beat = "fresh"]
<1>4. job' = [job EXCEPT ![j] = r] /\ r \in JobFields /\ r.status = "running"
  BY <1>1, <1>2, <1>3 DEF TypeOK, JobFields, Statuses
<1> HIDE DEF r
<1>5. worker' \in [Workers -> WorkerStates] /\ claims' \in [Jobs -> Nat]
  BY <1>1, <1>2, <1>3 DEF TypeOK, WorkerStates
<1>6. TypeOK'
  <2>1. job' \in [Jobs -> JobFields]
    BY <1>4 DEF TypeOK
  <2> QED
    BY <1>1, <1>5, <2>1 DEF TypeOK
<1>7. NoneNew
  BY <1>4, OneJobNotNew
<1> QED
  BY <1>6, <1>7

(* Every step that enqueues nothing. *)
LEMMA StepTyped ==
  ASSUME TypeOK, [Next]_vars
  PROVE  TypeOK' /\ ((\E j \in Jobs : Enqueue(j) \/ EnqueueUnread(j)) \/ NoneNew)
<1> DEFINE Goal == TypeOK' /\ ((\E j \in Jobs : Enqueue(j) \/ EnqueueUnread(j)) \/ NoneNew)
<1>0. ASSUME UNCHANGED job PROVE NoneNew
  BY <1>0 DEF NoneNew, NewInQueue, Having, Accepted
<1>1. ASSUME NEW j \in Jobs, Enqueue(j) PROVE Goal
  <2>1. NewJob \in JobFields /\ order \in Seq(Jobs)
    BY DEF NewJob, NoJob, JobFields, Statuses, TypeOK
  <2>2. order' \in Seq(Jobs) /\ job' \in [Jobs -> JobFields] /\ submitted' \subseteq Jobs
    <3>1. /\ order' \in {order, Append(order, j)} /\ job' \in {job, [job EXCEPT ![j] = NewJob]}
          /\ submitted' = submitted \cup {j}
      BY <1>1 DEF Enqueue
    <3>2. Append(order, j) \in Seq(Jobs) /\ [job EXCEPT ![j] = NewJob] \in [Jobs -> JobFields]
      BY <2>1 DEF TypeOK
    <3> QED
      BY <2>1, <3>1, <3>2 DEF TypeOK
  <2>3. UNCHANGED <<report, worker, faults, claims>>
    BY <1>1 DEF Enqueue
  <2>4. TypeOK'
    BY <2>2, <2>3 DEF TypeOK
  <2> QED
    BY <1>1, <2>4
<1>2. ASSUME NEW j \in Jobs, EnqueueUnread(j) PROVE Goal
  <2>1. NewJob \in JobFields /\ NoJob \in JobFields
    BY DEF NewJob, NoJob, JobFields, Statuses
  <2>2. /\ submitted' \subseteq Jobs /\ order' \in Seq(Jobs) /\ job' \in [Jobs -> JobFields]
        /\ faults' \in Nat /\ UNCHANGED <<report, worker, claims>>
    BY <1>2, <2>1 DEF EnqueueUnread, ReadFails, TypeOK
  <2>3. TypeOK'
    BY <2>2 DEF TypeOK
  <2> QED
    BY <1>2, <2>3
<1>3. ASSUME NEW j \in Jobs, BeatExpires(j) \/ DelayEnds(j) PROVE Goal
  <2>1. PICK r \in JobFields : /\ job' = [job EXCEPT ![j] = r]
                               /\ r.status = job[j].status /\ r.attempts = job[j].attempts
    <3>1. job[j] \in JobFields /\ job \in [Jobs -> JobFields]
      BY DEF TypeOK
    <3>2. CASE BeatExpires(j)
      <4>1. [job[j] EXCEPT !.beat = "stale"] \in JobFields
        BY <3>1 DEF JobFields
      <4>2. job' = [job EXCEPT ![j] = [job[j] EXCEPT !.beat = "stale"]]
        BY <3>1, <3>2 DEF BeatExpires
      <4>3. LET r == [job[j] EXCEPT !.beat = "stale"]
            IN r.status = job[j].status /\ r.attempts = job[j].attempts
        BY <3>1 DEF JobFields
      <4> QED
        BY <4>1, <4>2, <4>3
    <3>3. CASE DelayEnds(j)
      <4>1. [job[j] EXCEPT !.eligible = TRUE] \in JobFields
        BY <3>1 DEF JobFields
      <4>2. job' = [job EXCEPT ![j] = [job[j] EXCEPT !.eligible = TRUE]]
        BY <3>1, <3>3 DEF DelayEnds
      <4>3. LET r == [job[j] EXCEPT !.eligible = TRUE]
            IN r.status = job[j].status /\ r.attempts = job[j].attempts
        BY <3>1 DEF JobFields
      <4> QED
        BY <4>1, <4>2, <4>3
    <3> QED
      BY <1>3, <3>2, <3>3
  <2>2. NoneNew
    BY <2>1, OneJobNotNew
  <2>3. UNCHANGED <<submitted, order, report, worker, faults, claims>>
    BY <1>3 DEF BeatExpires, DelayEnds
  <2>4. TypeOK'
    BY <2>1, <2>3 DEF TypeOK
  <2> QED
    BY <2>2, <2>4
<1>4. ASSUME NEW w \in Workers, Sweep(w) PROVE Goal
  BY <1>4, SweepTyped
<1>5. ASSUME NEW w \in Workers, ClaimNextJob(w) PROVE Goal
  BY <1>5, ClaimTyped
<1>6. ASSUME NEW w \in Workers, Heartbeat(w) PROVE Goal
  <2> DEFINE j == worker[w].job
  <2>1. /\ j \in Jobs /\ job' = [job EXCEPT ![j].beat = "fresh"]
        /\ UNCHANGED <<submitted, order, report, worker, faults, claims>>
    BY <1>6, HeldType DEF Heartbeat
  <2> HIDE DEF j
  <2> DEFINE r == [job[j] EXCEPT !.beat = "fresh"]
  <2>2. job[j] \in JobFields
    BY <2>1 DEF TypeOK
  <2>3. job' = [job EXCEPT ![j] = r] /\ r \in JobFields
        /\ r.status = job[j].status /\ r.attempts = job[j].attempts
    BY <2>1, <2>2 DEF TypeOK, JobFields
  <2> HIDE DEF r
  <2>4. NoneNew
    BY <2>1, <2>3, OneJobNotNew
  <2>5. TypeOK'
    BY <2>1, <2>3 DEF TypeOK
  <2> QED
    BY <2>4, <2>5
<1>7. ASSUME NEW w \in Workers, \E result \in Settled : Execute(w, result) PROVE Goal
  <2>1. PICK result \in Settled : Execute(w, result)
    BY <1>7
  <2>2. /\ worker[w].job \in Jobs /\ worker[w].attempts \in Nat
        /\ worker' = [worker EXCEPT ![w] = [phase |-> "finished", job |-> worker[w].job,
                                            attempts |-> worker[w].attempts, result |-> result]]
        /\ UNCHANGED <<submitted, order, job, report, faults, claims>>
    BY <2>1, HeldType DEF Execute
  <2>3. worker' \in [Workers -> WorkerStates]
    BY <2>2 DEF TypeOK, WorkerStates
  <2>4. TypeOK'
    BY <2>2, <2>3 DEF TypeOK
  <2> QED
    BY <1>0, <2>2, <2>4
<1>8. ASSUME NEW w \in Workers, CannotStart(w) PROVE Goal
  <2>1. /\ worker[w].phase \in {"running", "finished"} /\ "failed" \in Settled
        /\ CompleteJob(w, "failed", job[worker[w].job].attempts)
    BY <1>8 DEF CannotStart, Settled
  <2>2. job[worker[w].job].attempts \in Nat
    BY <2>1, HeldType DEF TypeOK, JobFields
  <2>3. \/ UNCHANGED job
        \/ \E j \in Jobs, r \in JobFields : job' = [job EXCEPT ![j] = r] /\ r.status = "failed"
    BY <2>1, <2>2, CompleteJobTyped
  <2>4. TypeOK'
    BY <2>1, <2>2, CompleteJobTyped
  <2>5. NoneNew
    BY <1>0, <2>3, OneJobNotNew
  <2> QED
    BY <2>4, <2>5
<1>9. ASSUME NEW w \in Workers, FinalizeRun(w) PROVE Goal
  <2>1. /\ worker[w].phase \in {"running", "finished"} /\ worker[w].attempts \in Nat
        /\ worker[w].result \in Settled /\ worker[w].result \in {"queued"} \cup Settled
        /\ job[worker[w].job].attempts \in Nat
    BY <1>9, HeldType DEF FinalizeRun, TypeOK, JobFields
  <2>2. CASE Retries(w)
    <3>1. CompleteJob(w, "queued", worker[w].attempts + 1) /\ worker[w].attempts + 1 \in Nat
          /\ worker[w].attempts + 1 # 0
      BY <1>9, <2>1, <2>2 DEF FinalizeRun
    <3>2. TypeOK'
      BY <2>1, <3>1, CompleteJobTyped
    <3>3. \/ UNCHANGED job
          \/ \E j \in Jobs, r \in JobFields :
               job' = [job EXCEPT ![j] = r] /\ r.attempts = worker[w].attempts + 1
      BY <2>1, <3>1, CompleteJobTyped
    <3>4. NoneNew
      BY <1>0, <3>1, <3>3, OneJobNotNew
    <3> QED
      BY <3>2, <3>4
  <2>3. CASE ~Retries(w)
    <3>1. CompleteJob(w, worker[w].result, job[worker[w].job].attempts)
      BY <1>9, <2>3 DEF FinalizeRun
    <3> DEFINE status == worker[w].result
               attempts == job[worker[w].job].attempts
    <3>2. status \in {"queued"} \cup Settled /\ attempts \in Nat /\ CompleteJob(w, status, attempts)
          /\ status # "queued"
      BY <2>1, <3>1 DEF Settled
    <3> HIDE DEF status, attempts
    <3>3. TypeOK'
      BY <2>1, <3>2, CompleteJobTyped
    <3>4. \/ UNCHANGED job
          \/ \E j \in Jobs, r \in JobFields : job' = [job EXCEPT ![j] = r] /\ r.status = status
      BY <2>1, <3>2, CompleteJobTyped
    <3>5. NoneNew
      BY <1>0, <3>2, <3>4, OneJobNotNew
    <3> QED
      BY <3>3, <3>5
  <2> QED
    BY <2>2, <2>3
<1>10. ASSUME NEW w \in Workers, SkipSweep(w) \/ NothingToClaim(w) \/ Crash(w) \/ Restart(w)
      PROVE  Goal
  <2>1. /\ worker' \in [Workers -> WorkerStates] /\ faults' \in Nat
        /\ UNCHANGED <<submitted, order, job, report, claims>>
    <3>1. CASE SkipSweep(w)
      BY <3>1 DEF SkipSweep, TypeOK, WorkerStates
    <3>2. CASE Restart(w)
      BY <3>2 DEF Restart, TypeOK, WorkerStates, Idle
    <3>3. CASE Crash(w)
      BY <3>3 DEF Crash, TypeOK, WorkerStates
    <3>4. CASE NothingToClaim(w)
      <4>1. faults' \in Nat /\ UNCHANGED <<submitted, order, job, report, claims>>
        BY <3>4 DEF NothingToClaim, ReadFails, TypeOK
      <4>2. worker' \in [Workers -> WorkerStates]
        BY <3>4 DEF NothingToClaim, TypeOK, WorkerStates, Idle
      <4> QED
        BY <4>1, <4>2
    <3> QED
      BY <1>10, <3>1, <3>2, <3>3, <3>4
  <2>2. TypeOK'
    BY <2>1 DEF TypeOK
  <2> QED
    BY <1>0, <2>1, <2>2
<1>11. ASSUME UNCHANGED vars PROVE Goal
  <2>1. TypeOK'
    BY <1>11 DEF vars, TypeOK
  <2> QED
    BY <1>0, <1>11, <2>1 DEF vars
<1> HIDE DEF Goal
<1>12. Goal
  BY <1>1, <1>3, <1>4, <1>5, <1>6, <1>7, <1>8, <1>9, <1>10, <1>11, <1>2 DEF Next, Work
<1> QED
  BY <1>12 DEF Goal

(* Every field of the queue keeps its type, stalls included. *)
THEOREM QueueTypeCorrect == Spec => []TypeOK
<1>1. Init => TypeOK
  BY QInit DEF QInv
<1>2. TypeOK /\ [Next]_vars => TypeOK'
  BY StepTyped
<1> QED
  BY <1>1, <1>2, PTL DEF Spec

(* The accepted jobs are finitely many at any time, and no more new ones   *)
(* wait than the queue holds.                                              *)
CapacityInv == IsFiniteSet(Accepted) /\ NewJobsWithinCapacity

(* Every step keeps the capacity: enqueueJob counts all queued jobs, the   *)
(* new ones among them.                                                    *)
LEMMA CapacityStep ==
  ASSUME TypeOK, CapacityInv, [Next]_vars
  PROVE  CapacityInv'
<1>1. /\ NewInQueue \subseteq Having("queued") /\ Having("queued") \subseteq Accepted
      /\ IsFiniteSet(Accepted) /\ Cardinality(NewInQueue) <= MaxQueued
  BY DEF NewInQueue, Having, Accepted, CapacityInv, NewJobsWithinCapacity
<1>2. IsFiniteSet(NewInQueue) /\ IsFiniteSet(Having("queued"))
  BY <1>1, FS_Subset
<1>3. /\ Cardinality(NewInQueue) \in Nat /\ Cardinality(Having("queued")) \in Nat
      /\ Cardinality(NewInQueue) <= Cardinality(Having("queued")) /\ MaxQueued \in Nat
  BY <1>1, <1>2, FS_Subset, FS_CardinalityType, QueueAssumption
<1>4. ASSUME NewInQueue' \subseteq NewInQueue, IsFiniteSet(Accepted') PROVE CapacityInv'
  <2>1. /\ IsFiniteSet(NewInQueue') /\ Cardinality(NewInQueue') \in Nat
        /\ Cardinality(NewInQueue') <= Cardinality(NewInQueue)
    BY <1>2, <1>4, FS_Subset, FS_CardinalityType
  <2>2. Cardinality(NewInQueue') <= MaxQueued
    BY <1>1, <1>3, <2>1
  <2> QED
    BY <1>4, <2>2 DEF CapacityInv, NewJobsWithinCapacity, NewInQueue
<1>5. CASE NoneNew
  <2>1. PICK j : Accepted' \subseteq Accepted \cup {j}
    BY <1>5 DEF NoneNew
  <2>2. IsFiniteSet(Accepted')
    BY <1>1, <2>1, FS_AddElement, FS_Subset
  <2> QED
    BY <1>4, <1>5, <2>2 DEF NoneNew
<1>6. CASE UNCHANGED job
  BY <1>6 DEF CapacityInv, NewJobsWithinCapacity, Having, Accepted
<1>7. ASSUME NEW j \in Jobs, Enqueue(j) PROVE CapacityInv'
  <2>1. CASE Cardinality(Having("queued")) >= MaxQueued
    BY <1>6, <1>7, <2>1 DEF Enqueue
  <2>2. CASE ~(Cardinality(Having("queued")) >= MaxQueued)
    <3>1. job' = [job EXCEPT ![j] = NewJob]
      BY <1>7, <2>2 DEF Enqueue
    <3>2. \A i \in Jobs : i # j => job'[i] = job[i]
      BY <3>1 DEF TypeOK
    <3>3. NewInQueue' \subseteq NewInQueue \cup {j} /\ Accepted' \subseteq Accepted \cup {j}
      BY <3>2 DEF NewInQueue, Having, Accepted
    <3>4. /\ IsFiniteSet(NewInQueue \cup {j}) /\ IsFiniteSet(Accepted \cup {j})
          /\ Cardinality(NewInQueue \cup {j}) <= Cardinality(NewInQueue) + 1
          /\ Cardinality(NewInQueue \cup {j}) \in Nat
      <4>1. /\ IsFiniteSet(NewInQueue \cup {j}) /\ IsFiniteSet(Accepted \cup {j})
            /\ \/ Cardinality(NewInQueue \cup {j}) = Cardinality(NewInQueue)
               \/ Cardinality(NewInQueue \cup {j}) = Cardinality(NewInQueue) + 1
        BY <1>1, <1>2, FS_AddElement
      <4> QED
        BY <1>3, <4>1
    <3>5. /\ IsFiniteSet(Accepted') /\ IsFiniteSet(NewInQueue')
          /\ Cardinality(NewInQueue') \in Nat
          /\ Cardinality(NewInQueue') <= Cardinality(NewInQueue \cup {j})
      BY <3>3, <3>4, FS_Subset, FS_CardinalityType
    <3>6. Cardinality(NewInQueue') <= MaxQueued
      BY <1>3, <2>2, <3>4, <3>5
    <3> QED
      BY <3>5, <3>6 DEF CapacityInv, NewJobsWithinCapacity, NewInQueue
  <2> QED
    BY <2>1, <2>2
<1>8. ASSUME NEW j \in Jobs, EnqueueUnread(j) PROVE CapacityInv'
  <2>1. /\ job' = [i \in Jobs |-> IF i = j THEN NewJob ELSE NoJob]
        /\ MaxQueued > 0
    BY <1>8 DEF EnqueueUnread
  <2>2. NoJob.status = "absent"
    BY DEF NoJob
  <2>3. NewInQueue' \subseteq {j} /\ Accepted' \subseteq {j}
    BY <2>1, <2>2 DEF NewInQueue, Having, Accepted
  <2>4. IsFiniteSet({j}) /\ Cardinality({j}) = 1
    BY FS_Singleton
  <2>5. /\ IsFiniteSet(Accepted') /\ IsFiniteSet(NewInQueue')
        /\ Cardinality(NewInQueue') \in Nat /\ Cardinality(NewInQueue') <= 1
    BY <2>3, <2>4, FS_Subset, FS_CardinalityType
  <2>6. Cardinality(NewInQueue') <= MaxQueued
    BY <1>3, <2>1, <2>5
  <2> QED
    BY <2>5, <2>6 DEF CapacityInv, NewJobsWithinCapacity, NewInQueue
<1> QED
  BY <1>5, <1>7, <1>8, StepTyped

(* Retries may exceed the capacity of the queue, jobs that never ran do    *)
(* not, whatever faults, stalls and late completions happen.              *)
THEOREM NewJobsStayWithinCapacity == Spec => []NewJobsWithinCapacity
<1>1. Init => CapacityInv
  <2> SUFFICES ASSUME Init PROVE CapacityInv
    OBVIOUS
  <2>1. Accepted = {} /\ NewInQueue = {}
    BY DEF Init, Accepted, NewInQueue, Having, NoJob
  <2>2. IsFiniteSet({}) /\ Cardinality({}) = 0 /\ MaxQueued \in Nat
    BY FS_EmptySet, QueueAssumption
  <2> QED
    BY <2>1, <2>2 DEF CapacityInv, NewJobsWithinCapacity, NewInQueue
<1>2. TypeOK /\ CapacityInv /\ [Next]_vars => CapacityInv'
  BY CapacityStep
<1>3. CapacityInv => NewJobsWithinCapacity
  BY DEF CapacityInv
<1> QED
  BY <1>1, <1>2, <1>3, QueueTypeCorrect, PTL DEF Spec

-----------------------------------------------------------------------------
(* Stalled workers: how often a job may run.                               *)

Budget(j) == Larger(StaleLimit(j), RetryLimit(j))

(* The runs that n more attempts may lead to: each attempt leads to one run *)
(* and to two ways of another attempt.                                      *)
RunsLeft(n) == 2^n - 1

(* What the job's record, and a worker that still holds it, may lead to.   *)
JobRuns(r, b) ==
  IF r.status = "queued" THEN RunsLeft(1 + b - r.attempts)
  ELSE IF r.status = "running" THEN RunsLeft(b - r.attempts) ELSE 0
Keepers(wk, j) ==
  {w \in Workers : wk[w].phase \in {"running", "finished"} /\ wk[w].job = j}
OwedBy(wk, w, j) ==
  IF w \in Keepers(wk, j) THEN RunsLeft(Budget(j) - wk[w].attempts) ELSE 0
Owed(wk, j) == Total([w \in Workers |-> OwedBy(wk, w, j)], Keepers(wk, j))

(* Whatever a job has run and may still run is within its budget.          *)
StallRecord(j) ==
  /\ job[j].attempts <= Budget(j)
  /\ j \notin submitted => job[j].status = "absent" /\ claims[j] = 0
StallHolders(j) ==
  /\ IsFiniteSet(Keepers(worker, j))
  /\ \A w \in Keepers(worker, j) : worker[w].attempts <= Budget(j) /\ j \in submitted
StallInv(j) ==
  /\ StallRecord(j)
  /\ StallHolders(j)
  /\ claims[j] + JobRuns(job[j], Budget(j)) + Owed(worker, j) <= RunsLeft(1 + Budget(j))

(* The limits of a job are within its budget.                              *)
LEMMA BudgetType ==
  ASSUME NEW j \in Jobs
  PROVE  /\ Budget(j) \in Nat /\ StaleLimit(j) \in Nat /\ RetryLimit(j) \in Nat
         /\ StaleLimit(j) <= Budget(j) /\ RetryLimit(j) <= Budget(j)
BY LimitsType DEF Budget, Larger

(* One attempt more doubles the runs that are left, and adds its own.      *)
LEMMA RunsLeftType ==
  ASSUME NEW n \in Nat
  PROVE  RunsLeft(n) \in Nat /\ RunsLeft(1 + n) = 1 + RunsLeft(n) + RunsLeft(n)
<1> DEFINE power == 2^n
<1>1. power \in Nat /\ power >= 1 /\ 2^(n + 1) = power + power
  BY PowerType, PowerStep
<1>2. 1 + n = n + 1
  OBVIOUS
<1>3. 2^(1 + n) = power + power
  BY <1>1, <1>2
<1> QED
  BY <1>1, <1>3 DEF RunsLeft

(* The runs within a whole budget.                                         *)
LEMMA LimitType == ASSUME NEW j \in Jobs PROVE RunsLeft(1 + Budget(j)) \in Nat
<1>1. 1 + Budget(j) \in Nat
  BY BudgetType
<1> QED
  BY <1>1, RunsLeftType

(* What a worker may still lead to is a natural.                           *)
LEMMA OwedByType ==
  ASSUME NEW wk \in [Workers -> WorkerStates], NEW j \in Jobs, NEW w \in Workers,
         w \in Keepers(wk, j) => wk[w].attempts <= Budget(j)
  PROVE  OwedBy(wk, w, j) \in Nat
<1>1. CASE w \in Keepers(wk, j)
  <2>1. wk[w].attempts \in Nat /\ Budget(j) \in Nat
    <3>1. wk[w] \in WorkerStates /\ wk[w].phase \in {"running", "finished"}
      BY <1>1 DEF Keepers
    <3> QED
      BY <3>1, BudgetType DEF WorkerStates
  <2>2. Budget(j) - wk[w].attempts \in Nat
    BY <1>1, <2>1
  <2> QED
    BY <1>1, <2>2, RunsLeftType DEF OwedBy
<1>2. CASE w \notin Keepers(wk, j)
  BY <1>2 DEF OwedBy
<1> QED
  BY <1>1, <1>2

(* The total with one worker apart.                                        *)
LEMMA OwedApart ==
  ASSUME NEW wk \in [Workers -> WorkerStates], NEW j \in Jobs, NEW w \in Workers,
         IsFiniteSet(Keepers(wk, j)),
         \A v \in Keepers(wk, j) : wk[v].attempts <= Budget(j)
  PROVE  LET rest == Total([v \in Workers |-> OwedBy(wk, v, j)], Keepers(wk, j) \ {w})
         IN rest \in Nat /\ Owed(wk, j) = OwedBy(wk, w, j) + rest
<1> DEFINE owed == [v \in Workers |-> OwedBy(wk, v, j)]
           K == Keepers(wk, j)
<1>1. owed \in [Workers -> Nat]
  <2>1. \A v \in Workers : OwedBy(wk, v, j) \in Nat
    BY OwedByType
  <2> QED
    BY <2>1
<1>2. K \in SUBSET Workers /\ K \ {w} \in SUBSET Workers /\ IsFiniteSet(K) /\ IsFiniteSet(K \ {w})
  BY FS_Subset DEF Keepers
<1>3. owed[w] = OwedBy(wk, w, j) /\ owed[w] \in Nat
  BY <1>1
<1>4. Owed(wk, j) = Total(owed, K)
  BY DEF Owed
<1>5. w \notin K => OwedBy(wk, w, j) = 0
  BY DEF OwedBy
<1> HIDE DEF owed, K
<1>6. Total(owed, K \ {w}) \in Nat
  BY <1>1, <1>2, TotalType
<1>7. CASE w \in K
  <2>1. Total(owed, K) = owed[w] + Total(owed, K \ {w})
    BY <1>1, <1>2, <1>7, TotalSplit
  <2>2. Owed(wk, j) = OwedBy(wk, w, j) + Total(owed, K \ {w})
    BY <2>1, <1>3, <1>4
  <2> QED
    BY <2>2, <1>6 DEF owed, K
<1>8. CASE w \notin K
  <2>1. K \ {w} = K
    BY <1>8
  <2>2. Owed(wk, j) = Total(owed, K \ {w}) /\ OwedBy(wk, w, j) = 0
    BY <2>1, <1>4, <1>5, <1>8
  <2>3. Owed(wk, j) = OwedBy(wk, w, j) + Total(owed, K \ {w})
    BY <2>2, <1>6
  <2> QED
    BY <2>3, <1>6 DEF owed, K
<1> QED
  BY <1>7, <1>8

(* When one worker moves, the total changes by what that worker may lead to. *)
LEMMA OwedChange ==
  ASSUME NEW wk \in [Workers -> WorkerStates], NEW next \in [Workers -> WorkerStates],
         NEW j \in Jobs, NEW w \in Workers,
         \A v \in Workers : v # w => next[v] = wk[v],
         IsFiniteSet(Keepers(wk, j)),
         \A v \in Keepers(wk, j) : wk[v].attempts <= Budget(j),
         w \in Keepers(next, j) => next[w].attempts <= Budget(j)
  PROVE  /\ IsFiniteSet(Keepers(next, j))
         /\ \A v \in Keepers(next, j) : next[v].attempts <= Budget(j)
         /\ Owed(wk, j) \in Nat /\ OwedBy(wk, w, j) \in Nat /\ OwedBy(next, w, j) \in Nat
         /\ OwedBy(wk, w, j) <= Owed(wk, j)
         /\ Owed(next, j) = Owed(wk, j) - OwedBy(wk, w, j) + OwedBy(next, w, j)
<1>1. Keepers(next, j) \ {w} = Keepers(wk, j) \ {w}
  BY DEF Keepers
<1>2. Keepers(next, j) \subseteq Keepers(wk, j) \cup {w}
  BY <1>1
<1>3. IsFiniteSet(Keepers(next, j))
  BY <1>2, FS_AddElement, FS_Subset
<1>4. \A v \in Keepers(next, j) : next[v].attempts <= Budget(j)
  <2>1. \A v \in Keepers(next, j) : v # w => v \in Keepers(wk, j) /\ next[v] = wk[v]
    BY <1>1 DEF Keepers
  <2> QED
    BY <2>1
<1> DEFINE R == Keepers(wk, j) \ {w}
           before == [v \in Workers |-> OwedBy(wk, v, j)]
           after == [v \in Workers |-> OwedBy(next, v, j)]
<1>5. \A v \in R : before[v] = after[v]
  <2>1. \A v \in R : v \in Workers /\ next[v] = wk[v] /\ v \in Keepers(next, j) /\ v \in Keepers(wk, j)
    BY <1>1 DEF Keepers
  <2> QED
    BY <2>1 DEF OwedBy
<1>6. IsFiniteSet(R)
  BY FS_Subset
<1>7. /\ Total(before, R) \in Nat /\ Owed(wk, j) = OwedBy(wk, w, j) + Total(before, R)
  BY OwedApart
<1>8. /\ Total(after, R) \in Nat /\ Owed(next, j) = OwedBy(next, w, j) + Total(after, R)
  BY <1>1, <1>3, <1>4, OwedApart
<1> HIDE DEF R, before, after
<1>9. Total(before, R) = Total(after, R)
  BY <1>5, <1>6, TotalSame
<1>10. OwedBy(wk, w, j) \in Nat /\ OwedBy(next, w, j) \in Nat
  <2>1. w \in Keepers(wk, j) => wk[w].attempts <= Budget(j)
    OBVIOUS
  <2> QED
    BY <2>1, OwedByType
<1> QED
  BY <1>3, <1>4, <1>7, <1>8, <1>9, <1>10

(* What a record may lead to is a natural.                                 *)
LEMMA JobRunsType ==
  ASSUME NEW r \in JobFields, NEW b \in Nat, r.attempts <= b
  PROVE  JobRuns(r, b) \in Nat
<1>1. r.attempts \in Nat /\ 1 + b - r.attempts \in Nat /\ b - r.attempts \in Nat
  BY DEF JobFields
<1> QED
  BY <1>1, RunsLeftType DEF JobRuns

(* What the workers may still lead to is a natural.                        *)
LEMMA OwedType ==
  ASSUME NEW j \in Jobs, worker \in [Workers -> WorkerStates], StallInv(j)
  PROVE  Owed(worker, j) \in Nat
<1>1. CASE Workers = {}
  <2>1. Keepers(worker, j) = {}
    BY <1>1 DEF Keepers
  <2>2. Total([w \in Workers |-> OwedBy(worker, w, j)], {}) = 0
    BY TotalZero, FS_EmptySet
  <2> QED
    BY <2>1, <2>2 DEF Owed
<1>2. CASE Workers # {}
  <2>1. PICK w \in Workers : TRUE
    BY <1>2
  <2> QED
    BY <2>1, OwedChange DEF StallInv, StallHolders
<1> QED
  BY <1>1, <1>2

(* A step in which no worker moves.                                        *)
LEMMA StallSame ==
  ASSUME TypeOK, TypeOK', NEW j \in Jobs, StallInv(j), UNCHANGED worker, StallRecord(j)',
         submitted \subseteq submitted',
         claims'[j] + JobRuns(job'[j], Budget(j)) <= claims[j] + JobRuns(job[j], Budget(j))
  PROVE  StallInv(j)'
<1>1. /\ claims[j] \in Nat /\ claims'[j] \in Nat /\ Budget(j) \in Nat
      /\ job[j] \in JobFields /\ job'[j] \in JobFields /\ worker \in [Workers -> WorkerStates]
      /\ RunsLeft(1 + Budget(j)) \in Nat
  BY BudgetType, LimitType DEF TypeOK
<1>2. /\ job[j].attempts <= Budget(j) /\ job'[j].attempts <= Budget(j)
      /\ claims[j] + JobRuns(job[j], Budget(j)) + Owed(worker, j) <= RunsLeft(1 + Budget(j))
  BY DEF StallInv, StallRecord
<1>3. JobRuns(job[j], Budget(j)) \in Nat /\ JobRuns(job'[j], Budget(j)) \in Nat
  BY <1>1, <1>2, JobRunsType
<1>4. StallHolders(j)' /\ Owed(worker', j) = Owed(worker, j)
  BY DEF StallInv, StallHolders
<1>5. Owed(worker, j) \in Nat
  BY <1>1, OwedType
<1> DEFINE runs == JobRuns(job[j], Budget(j))
           runsAfter == JobRuns(job'[j], Budget(j))
           owed == Owed(worker, j)
           limit == RunsLeft(1 + Budget(j))
<1>6. claims'[j] + runsAfter + owed <= limit
  <2>1. runs \in Nat /\ runsAfter \in Nat /\ owed \in Nat /\ limit \in Nat
    BY <1>1, <1>3, <1>5
  <2>2. claims'[j] + runsAfter <= claims[j] + runs /\ claims[j] + runs + owed <= limit
    BY <1>2
  <2> HIDE DEF runs, runsAfter, owed, limit
  <2> QED
    BY <2>1, <2>2, <1>1
<1>7. claims'[j] + JobRuns(job'[j], Budget(j)) + Owed(worker', j) <= RunsLeft(1 + Budget(j))
  BY <1>4, <1>6
<1> QED
  BY <1>4, <1>7 DEF StallInv

(* A step in which one worker moves: what the job has run and may run does *)
(* not grow.                                                               *)
LEMMA StallMoves ==
  ASSUME TypeOK, TypeOK', NEW j \in Jobs, StallInv(j), StallRecord(j)',
         NEW w \in Workers, \A v \in Workers : v # w => worker'[v] = worker[v],
         submitted \subseteq submitted',
         w \in Keepers(worker', j) => worker'[w].attempts <= Budget(j) /\ j \in submitted',
         claims'[j] + JobRuns(job'[j], Budget(j)) + OwedBy(worker', w, j)
           <= claims[j] + JobRuns(job[j], Budget(j)) + OwedBy(worker, w, j)
  PROVE  StallInv(j)'
<1>1. /\ claims[j] \in Nat /\ claims'[j] \in Nat /\ Budget(j) \in Nat
      /\ job[j] \in JobFields /\ job'[j] \in JobFields
      /\ worker \in [Workers -> WorkerStates] /\ worker' \in [Workers -> WorkerStates]
      /\ RunsLeft(1 + Budget(j)) \in Nat
  BY BudgetType, LimitType DEF TypeOK
<1>2. /\ job[j].attempts <= Budget(j) /\ job'[j].attempts <= Budget(j)
      /\ claims[j] + JobRuns(job[j], Budget(j)) + Owed(worker, j) <= RunsLeft(1 + Budget(j))
  BY DEF StallInv, StallRecord
<1>3. JobRuns(job[j], Budget(j)) \in Nat /\ JobRuns(job'[j], Budget(j)) \in Nat
  BY <1>1, <1>2, JobRunsType
<1> DEFINE next == worker'
<1>4. /\ IsFiniteSet(Keepers(next, j))
      /\ \A v \in Keepers(next, j) : next[v].attempts <= Budget(j)
      /\ Owed(worker, j) \in Nat /\ OwedBy(worker, w, j) \in Nat /\ OwedBy(next, w, j) \in Nat
      /\ OwedBy(worker, w, j) <= Owed(worker, j)
      /\ Owed(next, j) = Owed(worker, j) - OwedBy(worker, w, j) + OwedBy(next, w, j)
  <2>1. /\ next \in [Workers -> WorkerStates] /\ \A v \in Workers : v # w => next[v] = worker[v]
        /\ w \in Keepers(next, j) => next[w].attempts <= Budget(j)
    BY <1>1
  <2> HIDE DEF next
  <2>2. IsFiniteSet(Keepers(worker, j)) /\ \A v \in Keepers(worker, j) : worker[v].attempts <= Budget(j)
    BY DEF StallInv, StallHolders
  <2> QED
    BY <1>1, <2>1, <2>2, OwedChange
<1>5. StallHolders(j)'
  <2>1. ASSUME NEW v \in Keepers(next, j) PROVE j \in submitted'
    <3>1. v # w => v \in Keepers(worker, j)
      BY DEF Keepers
    <3> QED
      BY <3>1 DEF StallInv, StallHolders
  <2> QED
    BY <1>4, <2>1 DEF StallHolders
<1> DEFINE runs == JobRuns(job[j], Budget(j))
           runsAfter == JobRuns(job'[j], Budget(j))
           owed == Owed(worker, j)
           mine == OwedBy(worker, w, j)
           mineAfter == OwedBy(next, w, j)
           limit == RunsLeft(1 + Budget(j))
<1>6. claims'[j] + runsAfter + (owed - mine + mineAfter) <= limit
  <2>1. /\ runs \in Nat /\ runsAfter \in Nat /\ owed \in Nat /\ limit \in Nat
        /\ mine \in Nat /\ mineAfter \in Nat /\ mine <= owed
    BY <1>1, <1>3, <1>4
  <2>2. /\ claims'[j] + runsAfter + mineAfter <= claims[j] + runs + mine
        /\ claims[j] + runs + owed <= limit
    BY <1>2
  <2> HIDE DEF runs, runsAfter, owed, limit, mine, mineAfter
  <2> QED
    BY <2>1, <2>2, <1>1
<1>7. claims'[j] + JobRuns(job'[j], Budget(j)) + Owed(worker', j) <= RunsLeft(1 + Budget(j))
  BY <1>4, <1>6
<1> QED
  BY <1>5, <1>7 DEF StallInv

(* A worker that holds no job owes none; one that holds another owes none  *)
(* of this one.                                                            *)
LEMMA NothingOwed ==
  ASSUME NEW wk, NEW w \in Workers, NEW j \in Jobs,
         wk[w].phase \notin {"running", "finished"} \/ wk[w].job # j
  PROVE  w \notin Keepers(wk, j) /\ OwedBy(wk, w, j) = 0
BY DEF Keepers, OwedBy

(* Steps in which a worker that holds no job, or goes on holding its own,  *)
(* moves and no record changes.                                            *)
LEMMA StallAside ==
  ASSUME TypeOK, TypeOK', NEW j \in Jobs, StallInv(j), UNCHANGED <<submitted, job, claims>>,
         NEW w \in Workers, \A v \in Workers : v # w => worker'[v] = worker[v],
         \/ worker'[w].phase \notin {"running", "finished"}
         \/ /\ worker[w].phase \in {"running", "finished"}
            /\ worker'[w].job = worker[w].job /\ worker'[w].attempts = worker[w].attempts
  PROVE  StallInv(j)'
<1>1. /\ claims[j] \in Nat /\ job[j] \in JobFields /\ worker \in [Workers -> WorkerStates]
      /\ Budget(j) \in Nat /\ StallRecord(j) /\ StallRecord(j)' /\ job[j].attempts <= Budget(j)
  BY BudgetType DEF TypeOK, StallInv, StallRecord
<1>2. w \in Keepers(worker, j) => worker[w].attempts <= Budget(j) /\ j \in submitted
  BY DEF StallInv, StallHolders
<1>3. JobRuns(job[j], Budget(j)) \in Nat /\ OwedBy(worker, w, j) \in Nat
  BY <1>1, <1>2, JobRunsType, OwedByType
<1>4. \/ w \notin Keepers(worker', j)
      \/ w \in Keepers(worker, j) /\ worker'[w].attempts = worker[w].attempts
  BY DEF Keepers
<1>5. OwedBy(worker', w, j) \in {0, OwedBy(worker, w, j)}
  BY <1>4 DEF OwedBy
<1> QED
  <2>1. claims'[j] + JobRuns(job'[j], Budget(j)) + OwedBy(worker', w, j)
          <= claims[j] + JobRuns(job[j], Budget(j)) + OwedBy(worker, w, j)
    BY <1>1, <1>3, <1>5
  <2>2. w \in Keepers(worker', j) => worker'[w].attempts <= Budget(j) /\ j \in submitted'
    BY <1>2, <1>4
  <2> QED
    BY <1>1, <2>1, <2>2, StallMoves

(* A completion by a worker that held the job: it gives up what it owed    *)
(* for at most that.                                                       *)
LEMMA CompleteStalls ==
  ASSUME TypeOK, TypeOK', \A j \in Jobs : StallInv(j), NEW w \in Workers,
         worker[w].phase \in {"running", "finished"},
         NEW status \in {"queued"} \cup Settled, NEW attempts \in Nat,
         CompleteJob(w, status, attempts),
         attempts <= Budget(worker[w].job),
         status = "queued" => attempts = worker[w].attempts + 1
  PROVE  \A j \in Jobs : StallInv(j)'
<1> SUFFICES ASSUME NEW j \in Jobs PROVE StallInv(j)'
  OBVIOUS
<1>0. /\ StallInv(j) /\ StallRecord(j) /\ j \in Jobs /\ Budget(j) \in Nat
      /\ worker[w].job \in Jobs /\ worker[w].attempts \in Nat
  BY HeldType, BudgetType DEF StallInv
<1>1. /\ worker' = [worker EXCEPT ![w] = Idle] /\ UNCHANGED <<submitted, order, claims>>
      /\ FindsNoJob(worker[w].job) \/ Record(worker[w].job, status, attempts)
  BY DEF CompleteJob
<1>2. /\ \A v \in Workers : v # w => worker'[v] = worker[v]
      /\ worker'[w].phase = "idle"
  BY <1>1 DEF TypeOK, Idle
<1>3. w \notin Keepers(worker', j) /\ OwedBy(worker', w, j) = 0
  BY <1>2, NothingOwed
<1>4. claims'[j] = claims[j] /\ claims[j] \in Nat
  BY <1>1 DEF TypeOK
<1>5. CASE FindsNoJob(worker[w].job)
  <2>1. UNCHANGED <<submitted, job, claims>>
    BY <1>1, <1>5 DEF FindsNoJob
  <2> QED
    BY <1>0, <1>2, <2>1, StallAside
<1>6. ASSUME Record(worker[w].job, status, attempts)
      PROVE  job' = [job EXCEPT ![worker[w].job] =
                       [status |-> status, attempts |-> attempts,
                        eligible |-> job[worker[w].job].eligible, beat |-> "none"]]
  BY <1>6 DEF Record
<1>7. CASE worker[w].job # j /\ Record(worker[w].job, status, attempts)
  <2>1. job'[j] = job[j] /\ StallRecord(j)'
    BY <1>0, <1>1, <1>7, <1>6 DEF TypeOK, StallRecord
  <2>2. OwedBy(worker, w, j) = 0
    BY <1>7, NothingOwed
  <2>3. JobRuns(job[j], Budget(j)) \in Nat
    BY <1>0, JobRunsType DEF StallRecord, TypeOK
  <2>4. claims'[j] + JobRuns(job'[j], Budget(j)) + OwedBy(worker', w, j)
          <= claims[j] + JobRuns(job[j], Budget(j)) + OwedBy(worker, w, j)
    BY <1>3, <1>4, <2>1, <2>2, <2>3
  <2> QED
    BY <1>0, <1>1, <1>2, <1>3, <2>1, <2>4, StallMoves
<1>8. CASE worker[w].job = j /\ Record(worker[w].job, status, attempts)
  <2>1. job'[j].status = status /\ job'[j].attempts = attempts
    BY <1>1, <1>8, <1>6 DEF TypeOK
  <2>2. StallRecord(j)'
    <3>1. j \in submitted'
      <4>1. w \in Keepers(worker, j)
        BY <1>8 DEF Keepers
      <4> QED
        BY <1>0, <1>1, <4>1 DEF StallInv, StallHolders
    <3> QED
      BY <2>1, <1>8, <3>1 DEF StallRecord, Settled
  <2>3. OwedBy(worker, w, j) = RunsLeft(Budget(j) - worker[w].attempts)
    BY <1>8 DEF OwedBy, Keepers
  <2>4. worker[w].attempts <= Budget(j)
    BY <1>0, <1>8 DEF StallInv, StallHolders, Keepers
  <2>5. JobRuns(job'[j], Budget(j)) <= OwedBy(worker, w, j)
    <3> DEFINE n == Budget(j) - worker[w].attempts
    <3>1. n \in Nat /\ RunsLeft(n) \in Nat
      BY <1>0, <2>4, RunsLeftType
    <3>2. CASE status = "queued"
      <4>1. 1 + Budget(j) - attempts = n
        BY <1>0, <3>2
      <4> QED
        BY <2>1, <2>3, <3>1, <3>2, <4>1 DEF JobRuns
    <3>3. CASE status # "queued"
      BY <2>1, <2>3, <3>1, <3>3 DEF JobRuns, Settled
    <3> QED
      BY <3>2, <3>3
  <2>6. /\ JobRuns(job[j], Budget(j)) \in Nat /\ JobRuns(job'[j], Budget(j)) \in Nat
        /\ OwedBy(worker, w, j) \in Nat
    <3>1. job[j] \in JobFields /\ job'[j] \in JobFields /\ worker \in [Workers -> WorkerStates]
      BY DEF TypeOK
    <3> QED
      BY <1>0, <2>2, <2>4, <3>1, JobRunsType, OwedByType DEF StallRecord
  <2>7. claims'[j] + JobRuns(job'[j], Budget(j)) + 0
          <= claims[j] + JobRuns(job[j], Budget(j)) + OwedBy(worker, w, j)
    BY <1>4, <2>5, <2>6
  <2> QED
    BY <1>0, <1>1, <1>2, <1>3, <2>2, <2>7, StallMoves
<1> QED
  BY <1>1, <1>7, <1>8, <1>5

(* Steps that change no more of a job than its heartbeat or its delay.     *)
LEMMA StallQuiet ==
  ASSUME TypeOK, TypeOK', NEW j \in Jobs, StallInv(j), UNCHANGED <<submitted, worker, claims>>,
         job'[j].status = job[j].status, job'[j].attempts = job[j].attempts
  PROVE  StallInv(j)'
<1>1. StallRecord(j)' /\ job[j].attempts <= Budget(j) /\ Budget(j) \in Nat
  BY BudgetType DEF StallInv, StallRecord
<1>2. /\ claims'[j] = claims[j] /\ claims[j] \in Nat /\ job[j] \in JobFields
  BY DEF TypeOK
<1>3. JobRuns(job'[j], Budget(j)) = JobRuns(job[j], Budget(j))
  BY DEF JobRuns
<1>4. JobRuns(job[j], Budget(j)) \in Nat
  BY <1>1, <1>2, JobRunsType
<1>5. claims'[j] + JobRuns(job'[j], Budget(j)) <= claims[j] + JobRuns(job[j], Budget(j))
  BY <1>2, <1>3, <1>4
<1> QED
  BY <1>1, <1>5, StallSame

(* A job that was never offered has run never, and nobody holds it; once it *)
(* is queued it has all its runs before it.                                 *)
LEMMA NewStalls ==
  ASSUME TypeOK, NEW j \in Jobs, StallInv(j), j \notin submitted,
         j \in submitted', UNCHANGED <<worker, claims>>, job'[j] \in {job[j], NewJob}
  PROVE  StallInv(j)'
<1>1. /\ StallRecord(j) /\ StallHolders(j) /\ job[j].attempts <= Budget(j) /\ Budget(j) \in Nat
      /\ job[j].status = "absent" /\ claims[j] = 0
  BY BudgetType DEF StallInv, StallRecord
<1>2. Keepers(worker, j) = {}
  BY <1>1 DEF StallHolders
<1>3. Owed(worker, j) = 0
  <2>1. Total([w \in Workers |-> OwedBy(worker, w, j)], {}) = 0
    BY TotalZero, FS_EmptySet
  <2> QED
    BY <1>2, <2>1 DEF Owed
<1>4. RunsLeft(1 + Budget(j)) \in Nat /\ 1 + Budget(j) - 0 = 1 + Budget(j)
  BY <1>1, LimitType
<1>5. JobRuns(job'[j], Budget(j)) \in {0, RunsLeft(1 + Budget(j))} /\ job'[j].attempts <= Budget(j)
  <2>1. NewJob.status = "queued" /\ NewJob.attempts = 0
    BY DEF NewJob, NoJob
  <2>2. CASE job'[j] = job[j]
    BY <1>1, <2>2 DEF JobRuns
  <2>3. CASE job'[j] = NewJob
    BY <1>1, <1>4, <2>1, <2>3 DEF JobRuns
  <2> QED
    BY <2>2, <2>3
<1>6. StallRecord(j)' /\ StallHolders(j)'
  BY <1>1, <1>5 DEF StallRecord, StallHolders
<1>7. claims'[j] + JobRuns(job'[j], Budget(j)) + Owed(worker', j) <= RunsLeft(1 + Budget(j))
  BY <1>1, <1>3, <1>4, <1>5
<1> QED
  BY <1>6, <1>7 DEF StallInv

(* enqueueJob concerns the new job only.                                   *)
LEMMA EnqueueStalls ==
  ASSUME TypeOK, TypeOK', \A j \in Jobs : StallInv(j), NEW i \in Jobs, Enqueue(i)
  PROVE  \A j \in Jobs : StallInv(j)'
<1> SUFFICES ASSUME NEW j \in Jobs PROVE StallInv(j)'
  OBVIOUS
<1>1. /\ i \notin submitted /\ submitted' = submitted \cup {i}
      /\ job' = job \/ job' = [job EXCEPT ![i] = NewJob]
      /\ UNCHANGED <<worker, claims>>
  BY DEF Enqueue
<1>2. CASE j = i
  <2>1. job'[j] \in {job[j], NewJob}
    BY <1>1, <1>2 DEF TypeOK
  <2> QED
    BY <1>1, <1>2, <2>1, NewStalls
<1>3. CASE j # i
  <2>1. /\ job'[j] = job[j] /\ StallRecord(j) /\ job[j].attempts <= Budget(j)
        /\ Budget(j) \in Nat /\ claims[j] \in Nat /\ job[j] \in JobFields
    BY <1>1, <1>3, BudgetType DEF TypeOK, StallInv, StallRecord
  <2>2. StallRecord(j)'
    BY <1>1, <1>3, <2>1 DEF StallRecord
  <2>3. JobRuns(job[j], Budget(j)) \in Nat
    BY <2>1, JobRunsType
  <2>4. claims'[j] + JobRuns(job'[j], Budget(j)) <= claims[j] + JobRuns(job[j], Budget(j))
    BY <1>1, <2>1, <2>3
  <2> QED
    BY <1>1, <2>2, <2>4, StallSame
<1> QED
  BY <1>2, <1>3

(* An enqueueJob that loses the other jobs: they run no more.              *)
LEMMA EnqueueUnreadStalls ==
  ASSUME TypeOK, TypeOK', \A j \in Jobs : StallInv(j), NEW i \in Jobs, EnqueueUnread(i)
  PROVE  \A j \in Jobs : StallInv(j)'
<1> SUFFICES ASSUME NEW j \in Jobs PROVE StallInv(j)'
  OBVIOUS
<1>1. /\ i \notin submitted /\ submitted' = submitted \cup {i}
      /\ job'[j] = IF j = i THEN NewJob ELSE NoJob
      /\ UNCHANGED <<worker, claims>>
  BY DEF EnqueueUnread
<1>2. CASE j = i
  BY <1>1, <1>2, NewStalls
<1>3. CASE j # i
  <2>1. /\ job'[j].status = "absent" /\ job'[j].attempts = 0
    BY <1>1, <1>3 DEF NoJob
  <2>2. /\ StallRecord(j) /\ job[j].attempts <= Budget(j)
        /\ Budget(j) \in Nat /\ claims[j] \in Nat /\ job[j] \in JobFields
    BY BudgetType DEF TypeOK, StallInv, StallRecord
  <2>3. StallRecord(j)'
    BY <1>1, <1>3, <2>1, <2>2 DEF StallRecord
  <2>4. JobRuns(job[j], Budget(j)) \in Nat /\ JobRuns(job'[j], Budget(j)) = 0
    BY <2>1, <2>2, JobRunsType DEF JobRuns
  <2>5. claims'[j] + JobRuns(job'[j], Budget(j)) <= claims[j] + JobRuns(job[j], Budget(j))
    BY <1>1, <2>2, <2>4
  <2> QED
    BY <1>1, <2>3, <2>5, StallSame
<1> QED
  BY <1>2, <1>3

(* requeueStaleJobs: the attempt it charges takes the run the job had left. *)
LEMMA SweepStalls ==
  ASSUME TypeOK, TypeOK', \A j \in Jobs : StallInv(j), NEW w \in Workers, Sweep(w)
  PROVE  \A j \in Jobs : StallInv(j)'
<1> SUFFICES ASSUME NEW j \in Jobs PROVE StallInv(j)'
  OBVIOUS
<1>1. /\ worker[w].phase = "idle" /\ worker' = [worker EXCEPT ![w] = [phase |-> "swept"]]
      /\ job' = [i \in Jobs |-> IF i \in Stale THEN Requeued(i) ELSE job[i]]
      /\ UNCHANGED <<submitted, claims>>
  BY DEF Sweep
<1>2. /\ StallInv(j) /\ StallRecord(j) /\ job[j].attempts <= Budget(j) /\ Budget(j) \in Nat
      /\ claims'[j] = claims[j] /\ claims[j] \in Nat /\ job[j] \in JobFields
      /\ StaleLimit(j) \in Nat /\ StaleLimit(j) <= Budget(j) /\ job[j].attempts \in Nat
  BY <1>1, BudgetType DEF StallInv, StallRecord, TypeOK, JobFields
<1>3. /\ \A v \in Workers : v # w => worker'[v] = worker[v]
      /\ worker'[w].phase = "swept"
  BY <1>1 DEF TypeOK
<1>4. /\ w \notin Keepers(worker', j) /\ OwedBy(worker', w, j) = 0 /\ OwedBy(worker, w, j) = 0
  BY <1>1, <1>3, NothingOwed
<1>5. JobRuns(job[j], Budget(j)) \in Nat
  BY <1>2, JobRunsType
<1>6. StallRecord(j)' /\ JobRuns(job'[j], Budget(j)) <= JobRuns(job[j], Budget(j))
      /\ JobRuns(job'[j], Budget(j)) \in Nat
  <2>1. CASE j \notin Stale
    <3>1. job'[j] = job[j]
      BY <1>1, <2>1
    <3>2. StallRecord(j)'
      BY <1>1, <1>2, <3>1 DEF StallRecord
    <3> QED
      BY <1>5, <3>1, <3>2
  <2>2. CASE j \in Stale
    <3>1. job[j].status = "running" /\ job'[j] = Requeued(j)
      BY <1>1, <2>2 DEF Stale
    <3>2. j \in submitted /\ submitted' = submitted
      BY <1>1, <1>2, <3>1 DEF StallRecord
    <3>3. JobRuns(job[j], Budget(j)) = RunsLeft(Budget(j) - job[j].attempts)
      BY <3>1 DEF JobRuns
    <3>4. CASE job[j].attempts + 1 <= StaleLimit(j)
      <4>1. job'[j].status = "queued" /\ job'[j].attempts = job[j].attempts + 1
        BY <3>1, <3>4 DEF Requeued
      <4>2. /\ 1 + Budget(j) - (job[j].attempts + 1) = Budget(j) - job[j].attempts
            /\ job[j].attempts + 1 <= Budget(j)
        BY <1>2, <3>4
      <4>3. StallRecord(j)'
        BY <3>2, <4>1, <4>2 DEF StallRecord
      <4>4. JobRuns(job'[j], Budget(j)) = RunsLeft(Budget(j) - job[j].attempts)
        BY <4>1, <4>2 DEF JobRuns
      <4> QED
        BY <1>5, <3>3, <4>3, <4>4
    <3>5. CASE ~(job[j].attempts + 1 <= StaleLimit(j))
      <4>1. job'[j].status = "failed" /\ job'[j].attempts = job[j].attempts
        BY <1>2, <3>1, <3>5 DEF Requeued, JobFields
      <4>2. StallRecord(j)' /\ JobRuns(job'[j], Budget(j)) = 0
        BY <1>2, <3>2, <4>1 DEF StallRecord, JobRuns
      <4> QED
        BY <1>5, <4>2
    <3> QED
      BY <3>4, <3>5
  <2> QED
    BY <2>1, <2>2
<1>7. claims'[j] + JobRuns(job'[j], Budget(j)) + OwedBy(worker', w, j)
        <= claims[j] + JobRuns(job[j], Budget(j)) + OwedBy(worker, w, j)
  BY <1>2, <1>4, <1>5, <1>6
<1> QED
  BY <1>1, <1>2, <1>3, <1>4, <1>6, <1>7, StallMoves

(* claimNextJob: a claim is a run, and two ways of another attempt.        *)
LEMMA ClaimStalls ==
  ASSUME TypeOK, TypeOK', \A j \in Jobs : StallInv(j), NEW w \in Workers, ClaimNextJob(w)
  PROVE  \A j \in Jobs : StallInv(j)'
<1> SUFFICES ASSUME NEW j \in Jobs PROVE StallInv(j)'
  OBVIOUS
<1>1. PICK n \in 1..Len(order) :
        /\ Claimable(order[n]) /\ worker[w].phase = "swept"
        /\ job' = [job EXCEPT ![order[n]].status = "running", ![order[n]].beat = "fresh"]
        /\ claims' = [claims EXCEPT ![order[n]] = @ + 1]
        /\ worker' = [worker EXCEPT ![w] = [phase |-> "running", job |-> order[n],
                                            attempts |-> job[order[n]].attempts]]
        /\ UNCHANGED <<submitted, order, report, faults>>
  BY Zenon DEF ClaimNextJob
<1>2. PICK i \in Jobs : i = order[n]
  BY DEF TypeOK
<1>3. /\ \A v \in Workers : v # w => worker'[v] = worker[v]
      /\ worker'[w].phase = "running" /\ worker'[w].job = i
      /\ worker'[w].attempts = job[i].attempts
  BY <1>1, <1>2 DEF TypeOK
<1>4. /\ StallInv(j) /\ StallRecord(j) /\ job[j].attempts <= Budget(j) /\ Budget(j) \in Nat
      /\ claims[j] \in Nat /\ job[j] \in JobFields /\ job[j].attempts \in Nat
  BY BudgetType DEF StallInv, StallRecord, TypeOK, JobFields
<1>5. OwedBy(worker, w, j) = 0
  BY <1>1, NothingOwed
<1>6. JobRuns(job[j], Budget(j)) \in Nat
  BY <1>4, JobRunsType
<1>7. CASE j # i
  <2>1. job'[j] = job[j] /\ claims'[j] = claims[j]
    BY <1>1, <1>2, <1>7 DEF TypeOK
  <2>2. w \notin Keepers(worker', j) /\ OwedBy(worker', w, j) = 0
    BY <1>3, <1>7, NothingOwed
  <2>3. StallRecord(j)'
    BY <1>1, <1>4, <2>1 DEF StallRecord
  <2>4. claims'[j] + JobRuns(job'[j], Budget(j)) + OwedBy(worker', w, j)
          <= claims[j] + JobRuns(job[j], Budget(j)) + OwedBy(worker, w, j)
    BY <1>4, <1>5, <1>6, <2>1, <2>2
  <2> QED
    BY <1>1, <1>3, <1>4, <2>2, <2>3, <2>4, StallMoves
<1>8. CASE j = i
  <2>1. /\ job[j].status = "queued" /\ job'[j].status = "running"
        /\ job'[j].attempts = job[j].attempts /\ claims'[j] = claims[j] + 1
    BY <1>1, <1>2, <1>4, <1>8 DEF Claimable, TypeOK, JobFields
  <2>2. j \in submitted /\ j \in submitted'
    BY <1>1, <1>4, <2>1 DEF StallRecord
  <2>3. StallRecord(j)'
    BY <1>4, <2>1, <2>2 DEF StallRecord
  <2> DEFINE left == Budget(j) - job[j].attempts
  <2>4. left \in Nat /\ 1 + left = 1 + Budget(j) - job[j].attempts
    BY <1>4
  <2>5. RunsLeft(left) \in Nat /\ RunsLeft(1 + left) = 1 + RunsLeft(left) + RunsLeft(left)
    BY <2>4, RunsLeftType
  <2>6. /\ JobRuns(job[j], Budget(j)) = RunsLeft(1 + left)
        /\ JobRuns(job'[j], Budget(j)) = RunsLeft(left)
    BY <2>1, <2>4 DEF JobRuns
  <2>7. OwedBy(worker', w, j) = RunsLeft(left)
    BY <1>3, <1>8 DEF OwedBy, Keepers
  <2> HIDE DEF left
  <2>8. claims'[j] + JobRuns(job'[j], Budget(j)) + OwedBy(worker', w, j)
          <= claims[j] + JobRuns(job[j], Budget(j)) + OwedBy(worker, w, j)
    BY <1>4, <1>5, <2>1, <2>5, <2>6, <2>7
  <2> QED
    BY <1>1, <1>3, <1>4, <1>8, <2>2, <2>3, <2>8, StallMoves
<1> QED
  BY <1>7, <1>8

(* Every step keeps what a job has run and may run within its budget.      *)
LEMMA StallNext ==
  ASSUME TypeOK, TypeOK', \A j \in Jobs : StallInv(j), [Next]_vars
  PROVE  \A j \in Jobs : StallInv(j)'
<1> DEFINE Goal == \A j \in Jobs : StallInv(j)'
<1>1. ASSUME NEW i \in Jobs, Enqueue(i) \/ EnqueueUnread(i) PROVE Goal
  BY <1>1, EnqueueStalls, EnqueueUnreadStalls
<1>2. ASSUME NEW i \in Jobs, BeatExpires(i) \/ DelayEnds(i) PROVE Goal
  <2>1. /\ UNCHANGED <<submitted, worker, claims>>
        /\ \A j \in Jobs : job'[j].status = job[j].status /\ job'[j].attempts = job[j].attempts
    <3>1. job \in [Jobs -> JobFields]
      BY DEF TypeOK
    <3>2. CASE BeatExpires(i)
      BY <3>1, <3>2 DEF BeatExpires, JobFields
    <3>3. CASE DelayEnds(i)
      BY <3>1, <3>3 DEF DelayEnds, JobFields
    <3> QED
      BY <1>2, <3>2, <3>3
  <2> QED
    BY <2>1, StallQuiet
<1>3. ASSUME NEW w \in Workers, Sweep(w) PROVE Goal
  BY <1>3, SweepStalls
<1>4. ASSUME NEW w \in Workers, ClaimNextJob(w) PROVE Goal
  BY <1>4, ClaimStalls
<1>5. ASSUME NEW w \in Workers, Heartbeat(w) PROVE Goal
  <2>1. /\ UNCHANGED <<submitted, worker, claims>>
        /\ \A j \in Jobs : job'[j].status = job[j].status /\ job'[j].attempts = job[j].attempts
    BY <1>5 DEF Heartbeat, TypeOK, JobFields
  <2> QED
    BY <2>1, StallQuiet
<1>6. ASSUME NEW w \in Workers, \E result \in Settled : Execute(w, result) PROVE Goal
  <2>1. /\ worker[w].phase \in {"running", "finished"} /\ UNCHANGED <<submitted, job, claims>>
        /\ \A v \in Workers : v # w => worker'[v] = worker[v]
        /\ worker'[w].job = worker[w].job /\ worker'[w].attempts = worker[w].attempts
    BY <1>6 DEF Execute, TypeOK
  <2> QED
    BY <2>1, StallAside
<1>7. ASSUME NEW w \in Workers, CannotStart(w) PROVE Goal
  <2>1. /\ worker[w].phase \in {"running", "finished"} /\ "failed" \in {"queued"} \cup Settled
        /\ CompleteJob(w, "failed", job[worker[w].job].attempts)
    BY <1>7 DEF CannotStart, Settled
  <2>2. /\ worker[w].job \in Jobs /\ job[worker[w].job].attempts \in Nat
    BY <2>1, HeldType DEF TypeOK, JobFields
  <2>3. job[worker[w].job].attempts <= Budget(worker[w].job)
    BY <2>2 DEF StallInv, StallRecord
  <2> QED
    BY <2>1, <2>2, <2>3, CompleteStalls
<1>8. ASSUME NEW w \in Workers, FinalizeRun(w) PROVE Goal
  <2> DEFINE i == worker[w].job
  <2>1. /\ worker[w].phase \in {"running", "finished"} /\ worker[w].attempts \in Nat
        /\ i \in Jobs /\ worker[w].result \in Settled /\ job[i].attempts \in Nat
    BY <1>8, HeldType DEF FinalizeRun, TypeOK, JobFields
  <2>2. /\ job[i].attempts <= Budget(i) /\ RetryLimit(i) <= Budget(i)
        /\ RetryLimit(i) \in Nat /\ Budget(i) \in Nat
    BY <2>1, BudgetType DEF StallInv, StallRecord
  <2>3. CASE Retries(w)
    <3>1. /\ CompleteJob(w, "queued", worker[w].attempts + 1) /\ worker[w].attempts + 1 \in Nat
          /\ worker[w].attempts + 1 <= Budget(i)
      BY <1>8, <2>1, <2>2, <2>3 DEF FinalizeRun, Retries
    <3> QED
      BY <2>1, <3>1, CompleteStalls
  <2>4. CASE ~Retries(w)
    <3> DEFINE status == worker[w].result
               attempts == job[i].attempts
    <3>1. /\ CompleteJob(w, status, attempts) /\ status \in {"queued"} \cup Settled
          /\ status # "queued" /\ attempts \in Nat /\ attempts <= Budget(i)
      BY <1>8, <2>1, <2>2, <2>4 DEF FinalizeRun, Settled
    <3> HIDE DEF status, attempts
    <3> QED
      BY <2>1, <3>1, CompleteStalls
  <2> QED
    BY <2>3, <2>4
<1>9. ASSUME NEW w \in Workers, SkipSweep(w) \/ NothingToClaim(w) \/ Crash(w) \/ Restart(w)
      PROVE  Goal
  <2>1. /\ UNCHANGED <<submitted, job, claims>>
        /\ \A v \in Workers : v # w => worker'[v] = worker[v]
        /\ worker'[w].phase \notin {"running", "finished"}
    BY <1>9 DEF SkipSweep, NothingToClaim, Crash, Restart, TypeOK, Idle
  <2> QED
    BY <2>1, StallAside
<1>10. ASSUME UNCHANGED vars PROVE Goal
  <2>1. UNCHANGED <<submitted, worker, claims>> /\ job' = job
    BY <1>10 DEF vars
  <2> QED
    BY <2>1, StallQuiet
<1> HIDE DEF Goal
<1>11. Goal
  BY <1>1, <1>2, <1>3, <1>4, <1>5, <1>6, <1>7, <1>8, <1>9, <1>10 DEF Next, Work
<1> QED
  BY <1>11 DEF Goal

(* With workers that stall past the threshold a job may run twice at once, *)
(* and each attempt doubles at most: once requeued by the sweep, once by   *)
(* its own late completion; for any number of workers and crashes.         *)
THEOREM StalledRunsStayBounded == Spec => []StalledRunsBounded
<1> DEFINE Bounded == \A j \in Jobs : StallInv(j)
<1>1. Init => Bounded
  <2> SUFFICES ASSUME Init, NEW j \in Jobs PROVE StallInv(j)
    OBVIOUS
  <2>1. /\ job[j] = NoJob /\ claims[j] = 0 /\ \A w \in Workers : worker[w].phase = "idle"
    BY DEF Init, Idle
  <2>2. Keepers(worker, j) = {} /\ Owed(worker, j) = 0
    <3>1. Keepers(worker, j) = {}
      BY <2>1 DEF Keepers
    <3>2. Total([w \in Workers |-> OwedBy(worker, w, j)], {}) = 0
      BY TotalZero, FS_EmptySet
    <3> QED
      BY <3>1, <3>2 DEF Owed
  <2>3. Budget(j) \in Nat /\ RunsLeft(1 + Budget(j)) \in Nat
    BY BudgetType, LimitType
  <2>4. JobRuns(job[j], Budget(j)) = 0
    BY <2>1 DEF NoJob, JobRuns
  <2>5. StallRecord(j)
    BY <2>1, <2>3 DEF StallRecord, NoJob
  <2>6. StallHolders(j)
    BY <2>2, FS_EmptySet DEF StallHolders
  <2> QED
    BY <2>1, <2>2, <2>3, <2>4, <2>5, <2>6 DEF StallInv
<1>2. TypeOK /\ TypeOK' /\ Bounded /\ [Next]_vars => Bounded'
  BY StallNext
<1>3. TypeOK /\ Bounded => StalledRunsBounded
  <2> SUFFICES ASSUME TypeOK, Bounded, NEW j \in Jobs
      PROVE  claims[j] <= 2 ^ (1 + Larger(StaleLimit(j), RetryLimit(j))) - 1
    BY DEF StalledRunsBounded
  <2> USE DEF Bounded
  <2>1. /\ claims[j] \in Nat /\ job[j] \in JobFields /\ worker \in [Workers -> WorkerStates]
        /\ Budget(j) \in Nat /\ RunsLeft(1 + Budget(j)) \in Nat
    BY BudgetType, LimitType DEF TypeOK
  <2>2. StallInv(j) /\ job[j].attempts <= Budget(j)
    BY DEF StallInv, StallRecord
  <2>3. JobRuns(job[j], Budget(j)) \in Nat /\ Owed(worker, j) \in Nat
    BY <2>1, <2>2, JobRunsType, OwedType
  <2>4. claims[j] <= RunsLeft(1 + Budget(j))
    BY <2>1, <2>2, <2>3 DEF StallInv
  <2> QED
    BY <2>4 DEF RunsLeft, Budget
<1> HIDE DEF Bounded
<1> QED
  BY <1>1, <1>2, <1>3, QueueTypeCorrect, PTL DEF Spec
=============================================================================
