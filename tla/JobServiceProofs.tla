--------------------------- MODULE JobServiceProofs --------------------------
(***************************************************************************)
(* Proofs about JobService for any number of jobs, processes, goroutines   *)
(* and faults and any set of requests: types, the ledger of attempts, what *)
(* rows say, the numbering of runs, and that no job is forgotten.          *)
(***************************************************************************)
EXTENDS JobService, TLAPS

-----------------------------------------------------------------------------
(***************************************************************************)
(* The domain operations return jobs.                                      *)
(***************************************************************************)

\* Every priority names one of the four lists (Priority.QueueName).
LEMMA QueueNameType == \A priority : QueueName(priority) \in Priorities
BY DEF QueueName, Priorities, PriorityMedium

\* The lists a worker polls are lists that exist (NewWorkerRunner).
LEMMA DequeueOrderType ==
  \A i \in DOMAIN DequeueOrder : DequeueOrder[i] \in Priorities
BY DEF DequeueOrder, Priorities, PriorityLow, PriorityMedium, PriorityHigh,
       PriorityCritical

\* ScheduleJob builds a well-formed job from any request.
LEMMA NewJobType ==
  ASSUME NEW j \in Jobs, NEW req \in Requests
  PROVE  NewJob(j, req) \in Job
<1>1. req \in ScheduleJobRequest
  BY RequestsAssumption
<1>2. (IF req.policy = NoPolicy THEN NewRetryPolicy ELSE req.policy)
        \in RetryPolicies
  BY <1>1, DefaultMaxRetriesAssumption
  DEF ScheduleJobRequest, RetryPolicies, NewRetryPolicy
<1> QED
  BY <1>1, <1>2
  DEF NewJob, Job, ScheduleJobRequest, RetryPolicies, Statuses, PriorityMedium

\* The status changes of domain/job.go keep a job a job, and the same job.
LEMMA MarkTypes ==
  ASSUME NEW job \in Job
  PROVE  /\ \A run \in Nat : /\ MarkAsProcessing(job, run) \in Job
                             /\ MarkAsProcessing(job, run).id = job.id
         /\ MarkAsCompleted(job) \in Job /\ MarkAsCompleted(job).id = job.id
         /\ MarkAsFailed(job) \in Job /\ MarkAsFailed(job).id = job.id
         /\ MarkAsDead(job) \in Job /\ MarkAsDead(job).id = job.id
         /\ MarkForRetry(job) \in Job /\ MarkForRetry(job).id = job.id
<1> USE DEF Job, Statuses
<1>1. \A run \in Nat : /\ MarkAsProcessing(job, run) \in Job
                       /\ MarkAsProcessing(job, run).id = job.id
  BY DEF MarkAsProcessing
<1>2. MarkAsCompleted(job) \in Job /\ MarkAsCompleted(job).id = job.id
  BY DEF MarkAsCompleted
<1>3. MarkAsFailed(job) \in Job /\ MarkAsFailed(job).id = job.id
  <2>1. job.attempts + 1 \in Int
    OBVIOUS
  <2>2. MarkAsFailed(job) =
          [job EXCEPT !.status = "failed", !.attempts = job.attempts + 1]
    BY DEF MarkAsFailed
  <2> QED
    BY <2>1, <2>2
<1>4. MarkAsDead(job) \in Job /\ MarkAsDead(job).id = job.id
  BY DEF MarkAsDead
<1>5. MarkForRetry(job) \in Job /\ MarkForRetry(job).id = job.id
  BY DEF MarkForRetry
<1> QED
  BY <1>1, <1>2, <1>3, <1>4, <1>5

-----------------------------------------------------------------------------
(***************************************************************************)
(* The Redis commands and the writes to PostgreSQL keep their types.       *)
(***************************************************************************)

\* LPUSH keeps a list a list.
LEMMA PushedType ==
  ASSUME NEW list \in Seq(Job), NEW job \in Job, NEW out
  PROVE  Pushed(list, job, out) \in Seq(Job)
BY DEF Pushed

\* Enqueue, EnqueueDelayed, MoveToDeadLetter and ZREM keep the queue's types.
LEMMA RedisCommandTypes ==
  ASSUME RedisTypeOK, NEW job \in Job, NEW out,
         \/ Enqueue(job, out)
         \/ EnqueueDelayed(job, out)
         \/ MoveToDeadLetter(job, out)
         \/ RemoveDelayed(job, out)
         \/ TimePasses(job)
  PROVE  RedisTypeOK'
<1>1. CASE Enqueue(job, out)
  BY <1>1, PushedType, QueueNameType DEF Enqueue, RedisTypeOK
<1>2. CASE EnqueueDelayed(job, out)
  BY <1>2 DEF EnqueueDelayed, RedisTypeOK
<1>3. CASE MoveToDeadLetter(job, out)
  BY <1>3, PushedType DEF MoveToDeadLetter, RedisTypeOK
<1>4. CASE RemoveDelayed(job, out)
  BY <1>4 DEF RemoveDelayed, RedisTypeOK
<1>5. CASE TimePasses(job)
  BY <1>5 DEF TimePasses, RedisTypeOK
<1> QED
  BY <1>1, <1>2, <1>3, <1>4, <1>5

\* BRPOP takes a job off one of the lists.
LEMMA DequeueTypes ==
  ASSUME RedisTypeOK, NEW i \in DOMAIN DequeueOrder, Dequeue(i)
  PROVE  RedisTypeOK' /\ NextIn(i) \in Job
<1>1. DequeueOrder[i] \in Priorities
  BY DequeueOrderType
<1>2. queues[DequeueOrder[i]] \in Seq(Job) /\ queues[DequeueOrder[i]] # <<>>
  BY <1>1 DEF RedisTypeOK, Dequeue, FirstNonEmpty
<1>3. /\ Head(queues[DequeueOrder[i]]) \in Job
      /\ Tail(queues[DequeueOrder[i]]) \in Seq(Job)
  BY <1>2
<1> QED
  BY <1>1, <1>3 DEF RedisTypeOK, Dequeue, NextIn

\* SaveJob and UpdateJob keep the tables' types.
LEMMA SaveType ==
  ASSUME StorageTypeOK, NEW job \in Job, NEW out, Save(job, out)
  PROVE  StorageTypeOK'
BY DEF StorageTypeOK, Save, Job

\* What a call's outcome does to a job is one of the four kinds of damage.
LEMMA CallTypes ==
  ASSUME damage \in [Jobs -> SUBSET Damages], faults \in Nat,
         NEW live, NEW id \in Jobs, NEW out,
         NEW ifFailed \in SUBSET Damages, NEW ifUnacked \in SUBSET Damages,
         Call(live, id, out, ifFailed, ifUnacked)
  PROVE  damage' \in [Jobs -> SUBSET Damages] /\ faults' \in Nat
<1>1. Harm(out, ifFailed, ifUnacked) \in SUBSET Damages
  BY DEF Harm, Damages
<1> QED
  BY <1>1 DEF Call, Fault

-----------------------------------------------------------------------------
(***************************************************************************)
(* Type correctness.                                                       *)
(***************************************************************************)

\* CallTypes for the calls of a job goroutine.
LEMMA WorkerCallTypes ==
  ASSUME TypeOK, NEW w \in Slots, NEW id \in Jobs, NEW out,
         NEW ifFailed \in SUBSET Damages,
         Call(Live(ProcessOf(w)), id, out, ifFailed, {})
  PROVE  damage' \in [Jobs -> SUBSET Damages] /\ faults' \in Nat
<1>1. damage \in [Jobs -> SUBSET Damages] /\ faults \in Nat
  BY DEF TypeOK
<1>2. {} \in SUBSET Damages
  OBVIOUS
<1> QED
  BY <1>1, <1>2, CallTypes

\* Every job goroutine belongs to a worker process.
LEMMA SlotProcess == \A w \in Slots : ProcessOf(w) \in Workers
BY DEF Slots, ProcessOf

\* The steps of the API (ScheduleJob) preserve the types.
LEMMA ScheduleTypes ==
  ASSUME TypeOK, NEW s \in Schedulers
  PROVE  /\ \A j \in Jobs, req \in Requests : ScheduleJob(s, j, req) => TypeOK'
         /\ Reply(s) => TypeOK'
<1>1. ASSUME NEW j \in Jobs, NEW req \in Requests, ScheduleJob(s, j, req)
      PROVE  TypeOK'
  <2> DEFINE job == NewJob(j, req)
  <2>1. job \in Job
    BY NewJobType
  <2> HIDE DEF job
  <2>2. PICK out \in Outcomes :
          /\ Call(TRUE, j, out, {}, {"lost"})
          /\ SaveJob(job, out)
          /\ response' = [response EXCEPT
                            ![j] = IF out = "ok" THEN "waiting" ELSE "error"]
          /\ inflight' = IF out = "ok"
                         THEN [inflight EXCEPT ![s] = @ \cup {job}]
                         ELSE inflight
    BY <1>1 DEF ScheduleJob, job
  <2>3. StorageTypeOK'
    BY <2>1, <2>2, SaveType DEF TypeOK, SaveJob
  <2>4. damage' \in [Jobs -> SUBSET Damages] /\ faults' \in Nat
    BY <2>2, CallTypes DEF TypeOK, Damages
  <2>5. /\ response' \in [Jobs -> {"none", "waiting", "created", "error"}]
        /\ inflight' \in [Schedulers -> SUBSET Job]
    BY <2>1, <2>2 DEF TypeOK
  <2>6. submitted' \in [Jobs -> Job \cup {NoJob}]
    BY <1>1, <2>1 DEF TypeOK, ScheduleJob, job
  <2> QED
    BY <1>1, <2>3, <2>4, <2>5, <2>6
    DEF TypeOK, ScheduleJob, RedisTypeOK, redisVars, promoterVars, workerVars,
        tallies
<1>2. ASSUME NEW job \in inflight[s], EnqueueJob(s, job)
      PROVE  TypeOK'
  <2>1. job \in Job /\ job.id \in Jobs
    BY DEF TypeOK, Job
  <2>2. PICK out \in PushOutcomes :
          /\ Call(TRUE, job.id, out, {"lost"}, {})
          /\ EnqueueDelayed(job, out) \/ Enqueue(job, out)
          /\ response' = [response EXCEPT
                 ![job.id] = IF Acknowledged(out) THEN "created" ELSE "error"]
    BY <1>2 DEF EnqueueJob
  <2>3. RedisTypeOK'
    BY <2>1, <2>2, RedisCommandTypes DEF TypeOK
  <2>4. damage' \in [Jobs -> SUBSET Damages] /\ faults' \in Nat
    BY <2>1, <2>2, CallTypes DEF TypeOK, Damages
  <2>5. /\ response' \in [Jobs -> {"none", "waiting", "created", "error"}]
        /\ inflight' \in [Schedulers -> SUBSET Job]
    BY <1>2, <2>1, <2>2 DEF TypeOK, EnqueueJob
  <2> QED
    BY <1>2, <2>3, <2>4, <2>5
    DEF TypeOK, EnqueueJob, StorageTypeOK, storageVars, promoterVars,
        workerVars, tallies
<1> QED
  BY <1>1, <1>2 DEF Reply

\* The steps of the delayed-job loop preserve the types.
LEMMA PromoteTypes ==
  ASSUME TypeOK, NEW s \in Schedulers, ProcessDelayedJobs(s)
  PROVE  TypeOK'
<1>1. CASE ReadRipe(s)
  BY <1>1
  DEF TypeOK, ReadRipe, RedisTypeOK, redisVars, StorageTypeOK, storageVars,
      schedulerVars, workerVars, tallies
<1>2. ASSUME NEW job \in batch[s], PushRipe(s, job)
      PROVE  TypeOK'
  <2>1. job \in Job /\ job.id \in Jobs
    BY DEF TypeOK, Job
  <2>2. PICK out \in PushOutcomes :
          /\ Call(Live(s), job.id, out, {}, {"dup"})
          /\ Enqueue(job, out)
          /\ moving' = IF Acknowledged(out) THEN [moving EXCEPT ![s] = {job}]
                                            ELSE moving
    BY <1>2 DEF PushRipe
  <2>3. RedisTypeOK'
    BY <2>1, <2>2, RedisCommandTypes DEF TypeOK
  <2>4. damage' \in [Jobs -> SUBSET Damages] /\ faults' \in Nat
    BY <2>1, <2>2, CallTypes DEF TypeOK, Damages
  <2>5. /\ batch' \in [Schedulers -> SUBSET Job]
        /\ moving' \in [Schedulers -> SUBSET Job]
    BY <1>2, <2>1, <2>2 DEF TypeOK, PushRipe
  <2> QED
    BY <1>2, <2>3, <2>4, <2>5
    DEF TypeOK, PushRipe, StorageTypeOK, storageVars, schedulerVars,
        workerVars, tallies
<1>3. ASSUME NEW job \in moving[s], RemoveRipe(s, job)
      PROVE  TypeOK'
  <2>1. job \in Job /\ job.id \in Jobs
    BY DEF TypeOK, Job
  <2>2. PICK out \in Outcomes :
          /\ Call(Live(s), job.id, out, {"dup"}, {})
          /\ RemoveDelayed(job, out)
    BY <1>3 DEF RemoveRipe
  <2>3. RedisTypeOK'
    BY <2>1, <2>2, RedisCommandTypes DEF TypeOK
  <2>4. damage' \in [Jobs -> SUBSET Damages] /\ faults' \in Nat
    BY <2>1, <2>2, CallTypes DEF TypeOK, Damages
  <2> QED
    BY <1>3, <2>3, <2>4
    DEF TypeOK, RemoveRipe, StorageTypeOK, storageVars, schedulerVars,
        workerVars, tallies
<1> QED
  BY <1>1, <1>2, <1>3 DEF ProcessDelayedJobs

\* A goroutine that moves on with a job, or lets go of it, keeps the types.
LEMMA SlotTypes ==
  ASSUME TypeOK, NEW w \in Slots, NEW job \in Job, NEW step \in Steps,
         \/ Goto(w, step) /\ held' = [held EXCEPT ![w] = job]
         \/ Release(w)
  PROVE  /\ pc' \in [Slots -> Steps]
         /\ held' \in [Slots -> Job \cup {NoJob}]
         /\ \A v \in Slots : pc'[v] # "idle" => held'[v] \in Job
BY DEF TypeOK, Goto, Release, Steps

\* ProcessNextJob and the part of ProcessJob before the handler.
LEMMA TakeTypes ==
  ASSUME TypeOK, NEW w \in Slots, ProcessNextJob(w) \/ StartJob(w)
  PROVE  TypeOK'
<1>1. CASE ProcessNextJob(w)
  <2>1. PICK i \in DOMAIN DequeueOrder :
          /\ Dequeue(i)
          /\ \/ /\ Call(TRUE, NextIn(i).id, "ok", {}, {})
                /\ Goto(w, "dequeued")
                /\ held' = [held EXCEPT ![w] = NextIn(i)]
             \/ /\ Call(TRUE, NextIn(i).id, "unacked", {}, {"lost"})
                /\ UNCHANGED <<pc, held>>
    BY <1>1 DEF ProcessNextJob
  <2>2. RedisTypeOK' /\ NextIn(i) \in Job /\ NextIn(i).id \in Jobs
    BY <2>1, DequeueTypes DEF TypeOK, Job
  <2>3. damage' \in [Jobs -> SUBSET Damages] /\ faults' \in Nat
    BY <2>1, <2>2, CallTypes DEF TypeOK, Damages
  <2>4. /\ pc' \in [Slots -> Steps]
        /\ held' \in [Slots -> Job \cup {NoJob}]
        /\ \A v \in Slots : pc'[v] # "idle" => held'[v] \in Job
    BY <2>1, <2>2, SlotTypes DEF TypeOK, Steps
  <2> QED
    BY <1>1, <2>2, <2>3, <2>4
    DEF TypeOK, ProcessNextJob, StorageTypeOK, storageVars, schedulerVars,
        promoterVars, tallies
<1>2. CASE StartJob(w)
  <2> DEFINE run == starts[held[w].id] + 1
             job == MarkAsProcessing(held[w], run)
  <2>1. held[w] \in Job /\ held[w].id \in Jobs
    BY <1>2 DEF TypeOK, StartJob, Job
  <2>2. run \in Nat
    BY <2>1 DEF TypeOK
  <2> HIDE DEF run
  <2>3. job \in Job /\ job.id = held[w].id
    BY <2>1, <2>2, MarkTypes
  <2> HIDE DEF job
  <2>4. PICK out \in Outcomes :
          /\ Call(Live(ProcessOf(w)), job.id, out, {"lost"}, {"lost"})
          /\ UpdateJob(job, out)
          /\ \/ /\ Goto(w, "executing")
                /\ held' = [held EXCEPT ![w] = job]
                /\ attempt' = [attempt EXCEPT ![w] = AttemptNumber(job)]
             \/ Release(w)
    BY <1>2 DEF StartJob, job, run
  <2>5. StorageTypeOK'
    BY <2>3, <2>4, SaveType DEF TypeOK, UpdateJob
  <2>6. damage' \in [Jobs -> SUBSET Damages] /\ faults' \in Nat
    BY <2>1, <2>3, <2>4, CallTypes DEF TypeOK, Damages
  <2>7. /\ pc' \in [Slots -> Steps]
        /\ held' \in [Slots -> Job \cup {NoJob}]
        /\ \A v \in Slots : pc'[v] # "idle" => held'[v] \in Job
    BY <2>3, <2>4, SlotTypes DEF Steps
  <2>8. attempt' \in [Slots -> Int]
    BY <2>3, <2>4 DEF TypeOK, Release, Job, AttemptNumber
  <2>9. starts' \in [Jobs -> Nat]
    BY <1>2, <2>2, <2>3 DEF TypeOK, StartJob, job, run
  <2> QED
    BY <1>2, <2>5, <2>6, <2>7, <2>8, <2>9
    DEF TypeOK, StartJob, RedisTypeOK, redisVars, schedulerVars, promoterVars
<1> QED
  BY <1>1, <1>2

\* The handler's return.
LEMMA HandlerTypesOK ==
  ASSUME TypeOK, NEW w \in Slots, HandlerSucceeds(w) \/ HandlerFails(w)
  PROVE  TypeOK'
<1>1. CASE HandlerSucceeds(w)
  <2>1. held[w] \in Job /\ held[w].id \in Jobs
    BY <1>1 DEF TypeOK, HandlerSucceeds, Job
  <2>2. effects' \in [Jobs -> Nat]
    BY <1>1, <2>1 DEF TypeOK, HandlerSucceeds
  <2>3. /\ pc' \in [Slots -> Steps]
        /\ \A v \in Slots : pc'[v] # "idle" => held'[v] \in Job
    BY <1>1, <2>1 DEF TypeOK, HandlerSucceeds, Goto, Steps
  <2> QED
    BY <1>1, <2>2, <2>3
    DEF TypeOK, HandlerSucceeds, RedisTypeOK, redisVars, StorageTypeOK,
        storageVars, schedulerVars, promoterVars
<1>2. CASE HandlerFails(w)
  <2>1. held[w] \in Job
    BY <1>2 DEF TypeOK, HandlerFails
  <2>2. MarkAsFailed(held[w]) \in Job
    BY <2>1, MarkTypes
  <2>3. held' = [held EXCEPT ![w] = MarkAsFailed(held[w])]
    BY <1>2 DEF HandlerFails
  <2>4. /\ pc' \in [Slots -> Steps]
        /\ held' \in [Slots -> Job \cup {NoJob}]
        /\ \A v \in Slots : pc'[v] # "idle" => held'[v] \in Job
    BY <1>2, <2>2, <2>3, SlotTypes DEF HandlerFails, Steps
  <2> QED
    BY <1>2, <2>4
    DEF TypeOK, HandlerFails, RedisTypeOK, redisVars, StorageTypeOK,
        storageVars, schedulerVars, promoterVars, tallies
<1> QED
  BY <1>1, <1>2

\* UpdateJob at the end of handleJobSuccess and handleJobFailure.
LEMMA SaveOutcomeTypes ==
  ASSUME TypeOK, NEW w \in Slots, NEW job \in Job, SaveOutcome(w, job)
  PROVE  TypeOK'
<1>1. job.id \in Jobs
  BY DEF Job
<1>2. PICK out \in Outcomes :
        /\ Call(Live(ProcessOf(w)), job.id, out, {"stale"}, {})
        /\ UpdateJob(job, out)
  BY DEF SaveOutcome
<1>3. StorageTypeOK'
  BY <1>2, SaveType DEF TypeOK, UpdateJob
<1>4. damage' \in [Jobs -> SUBSET Damages] /\ faults' \in Nat
  BY <1>1, <1>2, WorkerCallTypes DEF Damages
<1>5. /\ pc' \in [Slots -> Steps]
      /\ held' \in [Slots -> Job \cup {NoJob}]
      /\ \A v \in Slots : pc'[v] # "idle" => held'[v] \in Job
  BY SlotTypes DEF SaveOutcome, Steps
<1> QED
  BY <1>3, <1>4, <1>5
  DEF TypeOK, SaveOutcome, RedisTypeOK, redisVars, schedulerVars,
      promoterVars, tallies

\* handleJobSuccess, handleJobFailure and SaveJobHistory.
LEMMA OutcomeTypes ==
  ASSUME TypeOK, NEW w \in Slots,
         \/ HandleJobSuccess(w)
         \/ RetryJob(w)
         \/ BuryJob(w)
         \/ UpdateFailedJob(w)
         \/ RecordHistory(w)
  PROVE  TypeOK'
<1>1. held[w] \in Job /\ held[w].id \in Jobs
  BY DEF TypeOK, HandleJobSuccess, RetryJob, BuryJob, UpdateFailedJob,
         RecordHistory, Job
<1>2. CASE HandleJobSuccess(w)
  BY <1>1, <1>2, MarkTypes, SaveOutcomeTypes DEF HandleJobSuccess
<1>3. CASE UpdateFailedJob(w)
  BY <1>1, <1>3, SaveOutcomeTypes DEF UpdateFailedJob
<1>4. CASE RetryJob(w) \/ BuryJob(w)
  <2>1. PICK job \in Job, out \in PushOutcomes :
          /\ Call(Live(ProcessOf(w)), job.id, out, {"lost"}, {})
          /\ EnqueueDelayed(job, out) \/ MoveToDeadLetter(job, out)
          /\ held' = [held EXCEPT ![w] = job]
          /\ job.id = held[w].id
    BY <1>1, <1>4, MarkTypes DEF RetryJob, BuryJob, PushOutcomes
  <2>2. RedisTypeOK'
    BY <2>1, RedisCommandTypes DEF TypeOK
  <2>3. damage' \in [Jobs -> SUBSET Damages] /\ faults' \in Nat
    BY <1>1, <2>1, WorkerCallTypes DEF Damages
  <2>4. Goto(w, "requeued")
    BY <1>4 DEF RetryJob, BuryJob
  <2>5. /\ pc' \in [Slots -> Steps]
        /\ held' \in [Slots -> Job \cup {NoJob}]
        /\ \A v \in Slots : pc'[v] # "idle" => held'[v] \in Job
    BY <2>1, <2>4, SlotTypes DEF Steps
  <2>6. UNCHANGED <<storageVars, ctx, schedulerVars, promoterVars, attempt,
                    tallies>>
    BY <1>4 DEF RetryJob, BuryJob
  <2> QED
    BY <2>2, <2>3, <2>5, <2>6
    DEF TypeOK, StorageTypeOK, storageVars, schedulerVars, promoterVars,
        tallies
<1>5. CASE RecordHistory(w)
  <2> DEFINE entry == [run     |-> held[w].run,
                       attempt |-> attempt[w],
                       status  |-> HistoryStatus(held[w])]
  <2>1. entry \in JobHistory
    BY <1>1 DEF JobHistory, HistoryStatus, TypeOK, Job
  <2> HIDE DEF entry
  <2>2. PICK out \in Outcomes :
          /\ Call(Live(ProcessOf(w)), held[w].id, out, {"gap"}, {})
          /\ SaveJobHistory(held[w].id, entry, out)
    BY <1>5 DEF RecordHistory, entry
  <2>3. StorageTypeOK'
    BY <1>1, <2>1, <2>2 DEF TypeOK, StorageTypeOK, SaveJobHistory
  <2>4. damage' \in [Jobs -> SUBSET Damages] /\ faults' \in Nat
    BY <1>1, <2>2, WorkerCallTypes DEF Damages
  <2>5. Release(w)
    BY <1>5 DEF RecordHistory
  <2>6. /\ pc' \in [Slots -> Steps]
        /\ held' \in [Slots -> Job \cup {NoJob}]
        /\ \A v \in Slots : pc'[v] # "idle" => held'[v] \in Job
        /\ attempt' \in [Slots -> Int]
    BY <2>5 DEF TypeOK, Release, Goto, Steps
  <2> QED
    BY <1>5, <2>3, <2>4, <2>6
    DEF TypeOK, RecordHistory, RedisTypeOK, redisVars, schedulerVars,
        promoterVars, tallies
<1> QED
  BY <1>2, <1>3, <1>4, <1>5

\* The end of a process, by crash or by shutdown.
LEMMA EndTypes ==
  ASSUME TypeOK
  PROVE  /\ \A p \in Workers : EndWorker(p) /\ faults' \in Nat => TypeOK'
         /\ \A s \in Schedulers : EndScheduler(s) /\ faults' \in Nat => TypeOK'
<1>1. ASSUME NEW p \in Workers, EndWorker(p), faults' \in Nat
      PROVE  TypeOK'
  <2>1. \A step \in Steps : HarmAt(step) \in SUBSET Damages
    BY DEF HarmAt, Damages
  <2>2. damage' \in [Jobs -> SUBSET Damages]
    BY <1>1, <2>1 DEF TypeOK, EndWorker
  <2>3. /\ pc' \in [Slots -> Steps]
        /\ held' \in [Slots -> Job \cup {NoJob}]
        /\ \A v \in Slots : pc'[v] # "idle" => held'[v] \in Job
        /\ attempt' \in [Slots -> Int]
    BY <1>1 DEF TypeOK, EndWorker, Steps
  <2>4. ctx' \in [Processes -> {"live", "cancelled"}]
    BY <1>1 DEF TypeOK, EndWorker, Processes
  <2> QED
    BY <1>1, <2>2, <2>3, <2>4
    DEF TypeOK, EndWorker, RedisTypeOK, redisVars, StorageTypeOK, storageVars,
        schedulerVars, promoterVars, tallies
<1>2. ASSUME NEW s \in Schedulers, EndScheduler(s), faults' \in Nat
      PROVE  TypeOK'
  <2>1. damage' \in [Jobs -> SUBSET Damages]
    BY <1>2 DEF TypeOK, EndScheduler, Damages
  <2>2. ctx' \in [Processes -> {"live", "cancelled"}]
    BY <1>2 DEF TypeOK, EndScheduler, Processes
  <2> QED
    BY <1>2, <2>1, <2>2
    DEF TypeOK, EndScheduler, RedisTypeOK, redisVars, StorageTypeOK,
        storageVars, workerVars, tallies
<1> QED
  BY <1>1, <1>2

\* Every step preserves the types.
LEMMA TypesPreserved ==
  ASSUME TypeOK, [Next]_vars
  PROVE  TypeOK'
<1>1. CASE Request
  BY <1>1, ScheduleTypes DEF Request
<1>2. ASSUME NEW s \in Schedulers,
             \/ Reply(s)
             \/ ProcessDelayedJobs(s)
             \/ ExitScheduler(s)
             \/ CrashScheduler(s)
      PROVE  TypeOK'
  <2>1. CASE Reply(s)
    BY <2>1, ScheduleTypes
  <2>2. CASE ProcessDelayedJobs(s)
    BY <2>2, PromoteTypes
  <2>3. CASE ExitScheduler(s)
    BY <2>3, EndTypes DEF TypeOK, ExitScheduler
  <2>4. CASE CrashScheduler(s)
    BY <2>4, EndTypes DEF TypeOK, CrashScheduler, Fault
  <2> QED
    BY <1>2, <2>1, <2>2, <2>3, <2>4
<1>3. ASSUME NEW w \in Slots, ProcessJobs(w)
      PROVE  TypeOK'
  BY <1>3, TakeTypes, HandlerTypesOK, OutcomeTypes DEF ProcessJobs
<1>4. ASSUME NEW p \in Workers, ExitWorker(p) \/ CrashWorker(p)
      PROVE  TypeOK'
  <2>1. CASE ExitWorker(p)
    BY <2>1, EndTypes DEF TypeOK, ExitWorker
  <2>2. CASE CrashWorker(p)
    BY <2>2, EndTypes DEF TypeOK, CrashWorker, Fault
  <2> QED
    BY <1>4, <2>1, <2>2
<1>5. ASSUME NEW p \in Processes, Shutdown(p)
      PROVE  TypeOK'
  BY <1>5
  DEF TypeOK, Shutdown, Fault, RedisTypeOK, redisVars, StorageTypeOK,
      storageVars, schedulerVars, promoterVars, workerVars, tallies
<1>6. CASE Ripen
  <2>1. PICK job \in delayed : TimePasses(job)
    BY <1>6 DEF Ripen
  <2>2. RedisTypeOK'
    BY <2>1, RedisCommandTypes DEF TypeOK, RedisTypeOK
  <2> QED
    BY <1>6, <2>2
    DEF TypeOK, Ripen, StorageTypeOK, storageVars, schedulerVars,
        promoterVars, workerVars, tallies
<1>7. CASE UNCHANGED vars
  BY <1>7
  DEF TypeOK, vars, RedisTypeOK, redisVars, StorageTypeOK, storageVars,
      schedulerVars, promoterVars, workerVars, tallies
<1> QED
  BY <1>1, <1>2, <1>3, <1>4, <1>5, <1>6, <1>7 DEF Next

\* Type correctness of the whole service: whatever clients send, whichever
\* calls fail and processes die, queues hold jobs, rows hold jobs, and a
\* goroutine that is not idle has a job in its hands.
THEOREM TypeCorrect == Spec => []TypeOK
<1>1. Init => TypeOK
  BY DEF Init, TypeOK, RedisInit, RedisTypeOK, StorageInit, StorageTypeOK,
         Steps
<1>2. TypeOK /\ [Next]_vars => TypeOK'
  BY TypesPreserved
<1> QED
  BY <1>1, <1>2, PTL DEF Spec

-----------------------------------------------------------------------------
(***************************************************************************)
(* Where messages come from.                                               *)
(***************************************************************************)

\* What a list holds after a push ...
LEMMA RangePushed ==
  ASSUME NEW list \in Seq(Job), NEW job \in Job, NEW out
  PROVE  /\ Range(Pushed(list, job, out)) \subseteq Range(list) \cup {job}
         /\ Range(list) \subseteq Range(Pushed(list, job, out))
         /\ out # "failed" => job \in Range(Pushed(list, job, out))
<1>1. ASSUME NEW seq \in Seq(Job)
      PROVE  Range(Append(seq, job)) = Range(seq) \cup {job}
  <2>1. /\ DOMAIN seq = 1 .. Len(seq) /\ Len(seq) \in Nat
        /\ DOMAIN Append(seq, job) = 1 .. (Len(seq) + 1)
        /\ \A i \in 1 .. Len(seq) : Append(seq, job)[i] = seq[i]
        /\ Append(seq, job)[Len(seq) + 1] = job
    OBVIOUS
  <2>2. 1 .. (Len(seq) + 1) = (1 .. Len(seq)) \cup {Len(seq) + 1}
    BY <2>1
  <2> QED
    BY <2>1, <2>2, Zenon DEF Range
<1>2. Append(list, job) \in Seq(Job)
  OBVIOUS
<1> QED
  BY <1>1, <1>2 DEF Pushed

\* ... and after its oldest message is taken off.
LEMMA RangeTail ==
  ASSUME NEW list \in Seq(Job), list # <<>>
  PROVE  Range(Tail(list)) \subseteq Range(list) /\ Head(list) \in Range(list)
BY DEF Range

\* Enqueue adds its job to the active lists and nothing else.
LEMMA EnqueueMessages ==
  ASSUME RedisTypeOK, NEW job \in Job, NEW out, Enqueue(job, out)
  PROVE  Queued' \subseteq Queued \cup {job}
<1>1. \A p \in Priorities : Range(queues'[p]) \subseteq Range(queues[p]) \cup {job}
  <2> TAKE p \in Priorities
  <2>1. queues[p] \in Seq(Job)
    BY DEF RedisTypeOK
  <2>2. queues'[p] = queues[p] \/ queues'[p] = Pushed(queues[p], job, out)
    BY DEF Enqueue, RedisTypeOK
  <2> QED
    BY <2>1, <2>2, RangePushed
<1> QED
  BY <1>1 DEF Queued

\* Dequeue takes its message from the active lists and adds nothing to them.
LEMMA DequeueMessages ==
  ASSUME RedisTypeOK, NEW i \in DOMAIN DequeueOrder, Dequeue(i)
  PROVE  Queued' \subseteq Queued /\ NextIn(i) \in Queued
<1>1. DequeueOrder[i] \in Priorities
  BY DequeueOrderType
<1>2. queues[DequeueOrder[i]] \in Seq(Job) /\ queues[DequeueOrder[i]] # <<>>
  BY <1>1 DEF RedisTypeOK, Dequeue, FirstNonEmpty
<1>3. NextIn(i) \in Range(queues[DequeueOrder[i]])
  BY <1>2, RangeTail DEF NextIn
<1>4. \A p \in Priorities : Range(queues'[p]) \subseteq Range(queues[p])
  <2> TAKE p \in Priorities
  <2>1. \/ queues'[p] = queues[p]
        \/ /\ p = DequeueOrder[i]
           /\ queues'[p] = Tail(queues[p])
    BY <1>1 DEF Dequeue, RedisTypeOK
  <2> QED
    BY <1>2, <2>1, RangeTail
<1> QED
  BY <1>1, <1>3, <1>4 DEF Queued

\* A goroutine that gets or lets go of a job affects no other goroutine.
LEMMA HeldStep ==
  ASSUME TypeOK, NEW w \in Slots, NEW job, NEW step,
         \/ Goto(w, step) /\ held' = [held EXCEPT ![w] = job]
         \/ Release(w)
  PROVE  HeldMessages' \subseteq HeldMessages \cup {job}
BY DEF TypeOK, HeldMessages, Goto, Release

\* m is what goroutine w has just made of the job in its hands.
Made(w, m) ==
  \/ StartJob(w) /\ m = MarkAsProcessing(held[w], starts[held[w].id] + 1)
  \/ HandlerFails(w) /\ m = MarkAsFailed(held[w])
  \/ HandleJobSuccess(w) /\ m = MarkAsCompleted(held[w])
  \/ RetryJob(w) /\ m = MarkForRetry(held[w])
  \/ BuryJob(w) /\ m = MarkAsDead(held[w])

(***************************************************************************)
(* Only ScheduleJob, after it has saved the row, and ProcessJob make new   *)
(* messages; all other steps pass on, copy or drop what is there.          *)
(***************************************************************************)
LEMMA MessageOrigin ==
  ASSUME TypeOK, [Next]_vars, NEW m \in Messages'
  PROVE  \/ m \in Messages
         \/ \E s \in Schedulers, j \in Jobs, req \in Requests :
              ScheduleJob(s, j, req) /\ m = NewJob(j, req) /\ jobs'[j] = m
         \/ \E w \in Slots : pc[w] # "idle" /\ Made(w, m)
<1> USE DEF Messages
<1>1. ASSUME NEW s \in Schedulers, NEW j \in Jobs, NEW req \in Requests,
             ScheduleJob(s, j, req)
      PROVE  m \in Messages \/ (m = NewJob(j, req) /\ jobs'[j] = m)
  <2>1. UNCHANGED <<Queued, delayed, Buried, HeldMessages>>
    BY <1>1 DEF ScheduleJob, redisVars, workerVars, Queued, Buried, HeldMessages
  <2>2. SchedulerMessages' \subseteq SchedulerMessages
        \/ /\ SchedulerMessages' \subseteq SchedulerMessages \cup {NewJob(j, req)}
           /\ jobs'[j] = NewJob(j, req)
    <3>1. NewJob(j, req).id = j
      BY DEF NewJob
    <3> QED
      BY <1>1, <3>1
      DEF TypeOK, StorageTypeOK, ScheduleJob, SaveJob, Save, Applied,
          SchedulerMessages, promoterVars
  <2> QED
    BY <2>1, <2>2
<1>2. ASSUME NEW s \in Schedulers, NEW job \in inflight[s], EnqueueJob(s, job)
      PROVE  m \in Messages
  <2>1. PICK out \in PushOutcomes : EnqueueDelayed(job, out) \/ Enqueue(job, out)
    BY <1>2 DEF EnqueueJob
  <2>2. job \in Job /\ job \in SchedulerMessages
    BY DEF TypeOK, SchedulerMessages
  <2>3. /\ Queued' \subseteq Queued \cup {job}
        /\ delayed' \subseteq delayed \cup {job}
        /\ Buried' = Buried
    <3>1. CASE Enqueue(job, out)
      BY <2>2, <3>1, EnqueueMessages DEF TypeOK, Enqueue, Buried
    <3>2. CASE EnqueueDelayed(job, out)
      BY <3>2 DEF EnqueueDelayed, Queued, Buried
    <3> QED
      BY <2>1, <3>1, <3>2
  <2>4. SchedulerMessages' \subseteq SchedulerMessages
    BY <1>2 DEF TypeOK, EnqueueJob, SchedulerMessages, promoterVars
  <2>5. HeldMessages' = HeldMessages
    BY <1>2 DEF EnqueueJob, workerVars, HeldMessages
  <2> QED
    BY <2>2, <2>3, <2>4, <2>5
<1>3. ASSUME NEW s \in Schedulers, ProcessDelayedJobs(s)
      PROVE  m \in Messages
  <2>1. CASE ReadRipe(s)
    <3>1. UNCHANGED <<Queued, delayed, Buried, HeldMessages>>
      BY <2>1 DEF ReadRipe, redisVars, workerVars, Queued, Buried, HeldMessages
    <3>2. SchedulerMessages' \subseteq SchedulerMessages \cup delayed
      BY <2>1
      DEF TypeOK, RedisTypeOK, ReadRipe, SchedulerMessages, schedulerVars
    <3> QED
      BY <3>1, <3>2
  <2>2. ASSUME NEW job \in batch[s], PushRipe(s, job)
        PROVE  m \in Messages
    <3>1. PICK out \in PushOutcomes : Enqueue(job, out)
      BY <2>2 DEF PushRipe
    <3>2. job \in Job /\ job \in SchedulerMessages
      BY DEF TypeOK, SchedulerMessages
    <3>3. /\ Queued' \subseteq Queued \cup {job}
          /\ delayed' = delayed
          /\ Buried' = Buried
      BY <3>1, <3>2, EnqueueMessages DEF TypeOK, Enqueue, Buried
    <3>4. SchedulerMessages' \subseteq SchedulerMessages
      BY <2>2 DEF TypeOK, PushRipe, SchedulerMessages, schedulerVars
    <3>5. HeldMessages' = HeldMessages
      BY <2>2 DEF PushRipe, workerVars, HeldMessages
    <3> QED
      BY <3>2, <3>3, <3>4, <3>5
  <2>3. ASSUME NEW job \in moving[s], RemoveRipe(s, job)
        PROVE  m \in Messages
    <3>1. /\ Queued' = Queued
          /\ delayed' \subseteq delayed
          /\ Buried' = Buried
      BY <2>3 DEF RemoveRipe, RemoveDelayed, Queued, Buried
    <3>2. SchedulerMessages' \subseteq SchedulerMessages
      BY <2>3 DEF TypeOK, RemoveRipe, SchedulerMessages, schedulerVars
    <3>3. HeldMessages' = HeldMessages
      BY <2>3 DEF RemoveRipe, workerVars, HeldMessages
    <3> QED
      BY <3>1, <3>2, <3>3
  <2> QED
    BY <1>3, <2>1, <2>2, <2>3 DEF ProcessDelayedJobs
<1>4. ASSUME NEW w \in Slots, ProcessJobs(w)
      PROVE  m \in Messages \/ (pc[w] # "idle" /\ Made(w, m))
  <2>1. SchedulerMessages' = SchedulerMessages
    BY <1>4
    DEF ProcessJobs, ProcessNextJob, StartJob, HandlerSucceeds, HandlerFails,
        HandleJobSuccess, SaveOutcome, RetryJob, BuryJob, UpdateFailedJob,
        RecordHistory, schedulerVars, promoterVars, SchedulerMessages
  <2>2. CASE ProcessNextJob(w)
    <3>1. PICK i \in DOMAIN DequeueOrder :
            /\ Dequeue(i)
            /\ \/ /\ Goto(w, "dequeued")
                  /\ held' = [held EXCEPT ![w] = NextIn(i)]
               \/ UNCHANGED <<pc, held>>
      BY <2>2 DEF ProcessNextJob
    <3>2. Queued' \subseteq Queued /\ NextIn(i) \in Queued
      BY <3>1, DequeueMessages DEF TypeOK
    <3>3. HeldMessages' \subseteq HeldMessages \cup {NextIn(i)}
      BY <3>1, HeldStep DEF HeldMessages
    <3>4. UNCHANGED <<delayed, Buried>>
      BY <3>1 DEF Dequeue, Buried
    <3> QED
      BY <2>1, <3>2, <3>3, <3>4
  <2>3. CASE StartJob(w)
    <3> DEFINE job == MarkAsProcessing(held[w], starts[held[w].id] + 1)
    <3>1. UNCHANGED <<Queued, delayed, Buried>>
      BY <2>3 DEF StartJob, redisVars, Queued, Buried
    <3>2. \/ Goto(w, "executing") /\ held' = [held EXCEPT ![w] = job]
          \/ Release(w)
      BY <2>3 DEF StartJob
    <3> HIDE DEF job
    <3>3. HeldMessages' \subseteq HeldMessages \cup {job}
      BY <3>2, HeldStep
    <3> QED
      BY <2>1, <2>3, <3>1, <3>3 DEF Made, job, StartJob
  <2>4. CASE HandlerSucceeds(w)
    <3>1. UNCHANGED <<Queued, delayed, Buried>>
      BY <2>4 DEF HandlerSucceeds, redisVars, Queued, Buried
    <3>2. HeldMessages' \subseteq HeldMessages
      BY <2>4 DEF TypeOK, HandlerSucceeds, Goto, HeldMessages
    <3> QED
      BY <2>1, <3>1, <3>2
  <2>5. CASE HandlerFails(w)
    <3>1. UNCHANGED <<Queued, delayed, Buried>>
      BY <2>5 DEF HandlerFails, redisVars, Queued, Buried
    <3>2. held' = [held EXCEPT ![w] = MarkAsFailed(held[w])]
      BY <2>5 DEF HandlerFails
    <3>3. HeldMessages' \subseteq HeldMessages \cup {MarkAsFailed(held[w])}
      BY <2>5, <3>2, HeldStep DEF HandlerFails
    <3> QED
      BY <2>1, <2>5, <3>1, <3>3 DEF Made, HandlerFails
  <2>6. CASE HandleJobSuccess(w)
    <3>1. UNCHANGED <<Queued, delayed, Buried>>
      BY <2>6 DEF HandleJobSuccess, SaveOutcome, redisVars, Queued, Buried
    <3>2. HeldMessages' \subseteq HeldMessages \cup {MarkAsCompleted(held[w])}
      BY <2>6, HeldStep DEF HandleJobSuccess, SaveOutcome
    <3> QED
      BY <2>1, <2>6, <3>1, <3>2 DEF Made, HandleJobSuccess
  <2>7. CASE RetryJob(w)
    <3>1. /\ delayed' \subseteq delayed \cup {MarkForRetry(held[w])}
          /\ UNCHANGED <<Queued, Buried>>
      BY <2>7 DEF RetryJob, EnqueueDelayed, Queued, Buried
    <3>2. HeldMessages' \subseteq HeldMessages \cup {MarkForRetry(held[w])}
      BY <2>7, HeldStep DEF RetryJob
    <3> QED
      BY <2>1, <2>7, <3>1, <3>2 DEF Made, RetryJob
  <2>8. CASE BuryJob(w)
    <3>1. PICK out \in PushOutcomes : MoveToDeadLetter(MarkAsDead(held[w]), out)
      BY <2>8 DEF BuryJob
    <3>2. held[w] \in Job
      BY <2>8 DEF TypeOK, BuryJob
    <3>3. MarkAsDead(held[w]) \in Job
      BY <3>2, MarkTypes
    <3>4. Buried' \subseteq Buried \cup {MarkAsDead(held[w])}
      BY <3>1, <3>3, RangePushed
      DEF TypeOK, RedisTypeOK, MoveToDeadLetter, Buried
    <3>5. UNCHANGED <<Queued, delayed>>
      BY <3>1 DEF MoveToDeadLetter, Queued
    <3>6. HeldMessages' \subseteq HeldMessages \cup {MarkAsDead(held[w])}
      BY <2>8, HeldStep DEF BuryJob
    <3> QED
      BY <2>1, <2>8, <3>4, <3>5, <3>6 DEF Made, BuryJob
  <2>9. CASE UpdateFailedJob(w) \/ RecordHistory(w)
    <3>1. UNCHANGED <<Queued, delayed, Buried>>
      BY <2>9
      DEF UpdateFailedJob, SaveOutcome, RecordHistory, redisVars, Queued, Buried
    <3>2. held[w] \in HeldMessages
      BY <2>9 DEF UpdateFailedJob, RecordHistory, HeldMessages
    <3>3. HeldMessages' \subseteq HeldMessages \cup {held[w]}
      BY <2>9, HeldStep DEF UpdateFailedJob, SaveOutcome, RecordHistory
    <3> QED
      BY <2>1, <3>1, <3>2, <3>3
  <2> QED
    BY <1>4, <2>2, <2>3, <2>4, <2>5, <2>6, <2>7, <2>8, <2>9 DEF ProcessJobs
<1>5. ASSUME NEW p \in Workers, ExitWorker(p) \/ CrashWorker(p)
      PROVE  m \in Messages
  <2>1. EndWorker(p)
    BY <1>5 DEF ExitWorker, CrashWorker
  <2>2. UNCHANGED <<Queued, delayed, Buried, SchedulerMessages>>
    BY <2>1
    DEF EndWorker, redisVars, schedulerVars, promoterVars, Queued, Buried,
        SchedulerMessages
  <2>3. HeldMessages' \subseteq HeldMessages
    BY <2>1 DEF TypeOK, EndWorker, HeldMessages
  <2> QED
    BY <2>2, <2>3
<1>6. ASSUME NEW s \in Schedulers, ExitScheduler(s) \/ CrashScheduler(s)
      PROVE  m \in Messages
  <2>1. EndScheduler(s)
    BY <1>6 DEF ExitScheduler, CrashScheduler
  <2>2. UNCHANGED <<Queued, delayed, Buried, HeldMessages>>
    BY <2>1 DEF EndScheduler, redisVars, workerVars, Queued, Buried, HeldMessages
  <2>3. SchedulerMessages' \subseteq SchedulerMessages
    BY <2>1 DEF TypeOK, EndScheduler, SchedulerMessages
  <2> QED
    BY <2>2, <2>3
<1>7. ASSUME \/ \E p \in Processes : Shutdown(p)
             \/ Ripen
             \/ UNCHANGED vars
      PROVE  m \in Messages
  BY <1>7
  DEF Shutdown, Ripen, TimePasses, vars, redisVars, schedulerVars,
      promoterVars, workerVars, Queued, Buried, SchedulerMessages, HeldMessages
<1> QED
  BY <1>1, <1>2, <1>3, <1>4, <1>5, <1>6, <1>7 DEF Next, Request, Reply

(***************************************************************************)
(* What no step takes back: a row is never deleted, a job never submitted  *)
(* again, a run never uncounted, a dead letter never removed.              *)
(***************************************************************************)
LEMMA Kept ==
  ASSUME TypeOK, [Next]_vars, NEW j \in Jobs
  PROVE  /\ Saved(j) => Saved(j)'
         /\ submitted[j] # NoJob => submitted'[j] = submitted[j]
         /\ starts'[j] >= starts[j]
         /\ effects'[j] >= effects[j]
         /\ damage[j] \subseteq damage'[j]
         /\ Buried \subseteq Buried'
<1> DEFINE Goal == /\ Saved(j) => Saved(j)'
                   /\ submitted[j] # NoJob => submitted'[j] = submitted[j]
                   /\ starts'[j] >= starts[j]
                   /\ effects'[j] >= effects[j]
                   /\ damage[j] \subseteq damage'[j]
                   /\ Buried \subseteq Buried'
<1>t. /\ starts[j] \in Nat /\ effects[j] \in Nat
      /\ damage \in [Jobs -> SUBSET Damages]
      /\ jobs \in [Jobs -> Job \cup {NoJob}]
      /\ submitted \in [Jobs -> Job \cup {NoJob}]
  BY DEF TypeOK, StorageTypeOK
<1>c. ASSUME NEW live, NEW id, NEW out, NEW ifFailed, NEW ifUnacked,
             Call(live, id, out, ifFailed, ifUnacked)
      PROVE  damage[j] \subseteq damage'[j]
  BY <1>c, <1>t DEF Call
<1>s. ASSUME NEW job \in Job, NEW out, Save(job, out)
      PROVE  Saved(j) => Saved(j)'
  BY <1>s, <1>t, NoJobAssumption DEF Save, Saved
<1>1. ASSUME NEW s \in Schedulers, NEW i \in Jobs, NEW req \in Requests,
             ScheduleJob(s, i, req)
      PROVE  Goal
  <2>1. Saved(j) => Saved(j)'
    BY <1>1, <1>s, NewJobType DEF ScheduleJob, SaveJob
  <2>2. damage[j] \subseteq damage'[j]
    BY <1>1, <1>c DEF ScheduleJob
  <2> QED
    BY <1>1, <1>t, <2>1, <2>2 DEF ScheduleJob, tallies, redisVars, Buried
<1>2. ASSUME NEW s \in Schedulers, NEW job \in inflight[s], EnqueueJob(s, job)
      PROVE  Goal
  <2>1. damage[j] \subseteq damage'[j]
    BY <1>2, <1>c DEF EnqueueJob
  <2>2. deadLetter' = deadLetter
    BY <1>2 DEF EnqueueJob, Enqueue, EnqueueDelayed
  <2> QED
    BY <1>2, <1>t, <2>1, <2>2 DEF EnqueueJob, storageVars, tallies, Saved, Buried
<1>3. ASSUME NEW s \in Schedulers, ProcessDelayedJobs(s)
      PROVE  Goal
  <2>1. damage[j] \subseteq damage'[j]
    BY <1>3, <1>c DEF ProcessDelayedJobs, ReadRipe, PushRipe, RemoveRipe
  <2>2. UNCHANGED <<storageVars, submitted, tallies, deadLetter>>
    BY <1>3
    DEF ProcessDelayedJobs, ReadRipe, PushRipe, RemoveRipe, Enqueue,
        RemoveDelayed, redisVars, schedulerVars
  <2> QED
    BY <1>t, <2>1, <2>2 DEF storageVars, tallies, Saved, Buried
<1>4. ASSUME NEW w \in Slots, ProcessJobs(w)
      PROVE  Goal
  <2>1. submitted' = submitted
    BY <1>4
    DEF ProcessJobs, ProcessNextJob, StartJob, HandlerSucceeds, HandlerFails,
        HandleJobSuccess, SaveOutcome, RetryJob, BuryJob, UpdateFailedJob,
        RecordHistory, schedulerVars
  <2>2. pc[w] # "idle" => held[w] \in Job /\ held[w].id \in Jobs
    BY DEF TypeOK, Job
  <2>3. CASE ProcessNextJob(w)
    <3>1. damage[j] \subseteq damage'[j]
      BY <2>3, <1>c DEF ProcessNextJob
    <3>2. UNCHANGED <<storageVars, tallies, deadLetter>>
      BY <2>3 DEF ProcessNextJob, Dequeue
    <3> QED
      BY <1>t, <2>1, <3>1, <3>2 DEF storageVars, tallies, Saved, Buried
  <2>4. CASE StartJob(w)
    <3> DEFINE run == starts[held[w].id] + 1
               job == MarkAsProcessing(held[w], run)
    <3>1. held[w] \in Job /\ held[w].id \in Jobs
      BY <2>2, <2>4 DEF StartJob
    <3>2. run \in Nat
      BY <3>1 DEF TypeOK
    <3>3. job \in Job /\ job.id = held[w].id
      BY <3>1, <3>2, MarkTypes
    <3>4. starts' = [starts EXCEPT ![job.id] = run]
      BY <2>4 DEF StartJob
    <3>5. starts'[j] >= starts[j]
      BY <3>1, <3>3, <3>4, <1>t DEF TypeOK
    <3> HIDE DEF job, run
    <3>6. Saved(j) => Saved(j)'
      <4>1. PICK out \in Outcomes : UpdateJob(job, out)
        BY <2>4 DEF StartJob, job, run
      <4> QED
        BY <1>s, <3>3, <4>1 DEF UpdateJob
    <3>7. damage[j] \subseteq damage'[j]
      BY <2>4, <1>c DEF StartJob
    <3> QED
      BY <1>t, <2>1, <2>4, <3>5, <3>6, <3>7 DEF StartJob, redisVars, Buried
  <2>5. CASE HandlerSucceeds(w)
    <3>1. effects'[j] >= effects[j]
      BY <2>2, <2>5, <1>t DEF HandlerSucceeds, TypeOK
    <3> QED
      BY <1>t, <2>1, <2>5, <3>1
      DEF HandlerSucceeds, redisVars, storageVars, Saved, Buried
  <2>6. CASE HandlerFails(w)
    BY <1>t, <2>1, <2>6
    DEF HandlerFails, redisVars, storageVars, tallies, Saved, Buried
  <2>7. ASSUME NEW job \in Job, SaveOutcome(w, job)
        PROVE  Goal
    <3>1. Saved(j) => Saved(j)'
      BY <1>s, <2>7 DEF SaveOutcome, UpdateJob
    <3>2. damage[j] \subseteq damage'[j]
      BY <1>c, <2>7 DEF SaveOutcome
    <3> QED
      BY <1>t, <2>1, <2>7, <3>1, <3>2 DEF SaveOutcome, redisVars, tallies, Buried
  <2>8. CASE HandleJobSuccess(w)
    BY <2>2, <2>7, <2>8, MarkTypes DEF HandleJobSuccess
  <2>9. CASE UpdateFailedJob(w)
    BY <2>2, <2>7, <2>9 DEF UpdateFailedJob
  <2>10. CASE RetryJob(w)
    <3>1. damage[j] \subseteq damage'[j]
      BY <1>c, <2>10 DEF RetryJob
    <3> QED
      BY <1>t, <2>1, <2>10, <3>1
      DEF RetryJob, EnqueueDelayed, storageVars, tallies, Saved, Buried
  <2>11. CASE BuryJob(w)
    <3>1. damage[j] \subseteq damage'[j]
      BY <1>c, <2>11 DEF BuryJob
    <3>2. PICK out \in PushOutcomes : MoveToDeadLetter(MarkAsDead(held[w]), out)
      BY <2>11 DEF BuryJob
    <3>3. MarkAsDead(held[w]) \in Job
      BY <2>2, <2>11, MarkTypes DEF BuryJob
    <3>4. Buried \subseteq Buried'
      BY <3>2, <3>3, RangePushed
      DEF TypeOK, RedisTypeOK, MoveToDeadLetter, Buried
    <3> QED
      BY <1>t, <2>1, <2>11, <3>1, <3>4
      DEF BuryJob, storageVars, tallies, Saved
  <2>12. CASE RecordHistory(w)
    <3>1. damage[j] \subseteq damage'[j]
      BY <1>c, <2>12 DEF RecordHistory
    <3>2. jobs' = jobs
      BY <2>12 DEF RecordHistory, SaveJobHistory
    <3> QED
      BY <1>t, <2>1, <2>12, <3>1, <3>2
      DEF RecordHistory, redisVars, tallies, Saved, Buried
  <2> QED
    BY <1>4, <2>3, <2>4, <2>5, <2>6, <2>8, <2>9, <2>10, <2>11, <2>12
    DEF ProcessJobs
<1>5. ASSUME NEW p \in Workers, EndWorker(p)
      PROVE  Goal
  BY <1>5, <1>t
  DEF EndWorker, redisVars, storageVars, schedulerVars, tallies, Saved, Buried
<1>6. ASSUME NEW s \in Schedulers, EndScheduler(s)
      PROVE  Goal
  BY <1>6, <1>t
  DEF EndScheduler, redisVars, storageVars, tallies, Saved, Buried
<1>7. ASSUME \/ \E p \in Processes : Shutdown(p)
             \/ Ripen
             \/ UNCHANGED vars
      PROVE  Goal
  BY <1>7, <1>t
  DEF Shutdown, Ripen, TimePasses, vars, redisVars, storageVars,
      schedulerVars, tallies, Saved, Buried
<1> QED
  BY <1>1, <1>2, <1>3, <1>4, <1>5, <1>6, <1>7
  DEF Next, Request, Reply, ExitWorker, CrashWorker, ExitScheduler,
      CrashScheduler

-----------------------------------------------------------------------------
(***************************************************************************)
(* Every message has its row.                                              *)
(***************************************************************************)

\* Messages are jobs.
LEMMA MessageType ==
  ASSUME TypeOK
  PROVE  \A m \in Messages : m \in Job /\ m.id \in Jobs
<1>1. Queued \subseteq Job
  <2>1. ASSUME NEW p \in Priorities
        PROVE  Range(queues[p]) \subseteq Job
    BY DEF TypeOK, RedisTypeOK, Range
  <2> QED
    BY <2>1 DEF Queued
<1>2. delayed \subseteq Job /\ Buried \subseteq Job
  BY DEF TypeOK, RedisTypeOK, Buried, Range
<1>3. SchedulerMessages \subseteq Job
  BY DEF TypeOK, SchedulerMessages
<1>4. HeldMessages \subseteq Job
  BY DEF TypeOK, HeldMessages
<1>5. \A m \in Job : m.id \in Jobs
  BY DEF Job
<1> QED
  BY <1>1, <1>2, <1>3, <1>4, <1>5 DEF Messages

\* What a goroutine makes of a job has the job's identity.
LEMMA MadeIdentity ==
  ASSUME TypeOK, NEW w \in Slots, pc[w] # "idle", NEW m, Made(w, m)
  PROVE  m \in Job /\ m.id = held[w].id /\ held[w] \in Messages
<1>1. held[w] \in Job /\ held[w].id \in Jobs
  BY DEF TypeOK, Job
<1>2. starts[held[w].id] + 1 \in Nat
  BY <1>1 DEF TypeOK
<1>3. held[w] \in Messages
  BY DEF Messages, HeldMessages
<1> QED
  BY <1>1, <1>2, <1>3, MarkTypes DEF Made

\* ScheduleJob's order (save, then enqueue) and ProcessJob's (nothing without
\* a message) make sure that no message and no history row is without its
\* row in the jobs table, in any system and through any faults.
THEOREM EveryMessageSaved == Spec => []PersistedFirst
<1>1. Init => PersistedFirst
  <2> SUFFICES ASSUME Init PROVE PersistedFirst
    OBVIOUS
  <2>1. Messages = {}
    BY DEF Init, RedisInit, Messages, Queued, Buried, SchedulerMessages,
           HeldMessages, Range
  <2> QED
    BY <2>1 DEF Init, StorageInit, PersistedFirst
<1>2. TypeOK /\ PersistedFirst /\ [Next]_vars => PersistedFirst'
  <2> SUFFICES ASSUME TypeOK, PersistedFirst, [Next]_vars
               PROVE  PersistedFirst'
    OBVIOUS
  <2>1. ASSUME NEW m \in Messages'
        PROVE  Saved(m.id)'
    <3>1. CASE m \in Messages
      BY <3>1, Kept, MessageType DEF PersistedFirst
    <3>2. ASSUME NEW s \in Schedulers, NEW j \in Jobs, NEW req \in Requests,
                 m = NewJob(j, req), jobs'[j] = m
          PROVE  Saved(m.id)'
      <4>1. m.id = j
        BY <3>2 DEF NewJob
      <4>2. m # NoJob
        BY <3>2, NewJobType, NoJobAssumption
      <4> QED
        BY <3>2, <4>1, <4>2 DEF Saved
    <3>3. ASSUME NEW w \in Slots, pc[w] # "idle", Made(w, m)
          PROVE  Saved(m.id)'
      BY <3>3, MadeIdentity, MessageType, Kept DEF PersistedFirst
    <3> QED
      BY <2>1, <3>1, <3>2, <3>3, MessageOrigin
  <2>2. ASSUME NEW j \in Jobs, history'[j] # {}
        PROVE  Saved(j)'
    <3>1. CASE history'[j] = history[j]
      BY <2>2, <3>1, Kept DEF PersistedFirst
    <3>2. CASE history'[j] # history[j]
      <4>1. PICK w \in Slots : RecordHistory(w)
        BY <3>2
        DEF Next, Request, ScheduleJob, SaveJob, Save, Reply, EnqueueJob,
            ProcessDelayedJobs, ReadRipe, PushRipe, RemoveRipe, ProcessJobs,
            ProcessNextJob, StartJob, UpdateJob, HandlerSucceeds, HandlerFails,
            HandleJobSuccess, SaveOutcome, RetryJob, BuryJob, UpdateFailedJob,
            ExitWorker, CrashWorker, EndWorker, ExitScheduler, CrashScheduler,
            EndScheduler, Shutdown, Ripen, vars, storageVars
      <4>2. j = held[w].id /\ held[w] \in Messages
        BY <3>2, <4>1
        DEF TypeOK, StorageTypeOK, RecordHistory, SaveJobHistory, Messages,
            HeldMessages
      <4> QED
        BY <4>2, Kept DEF PersistedFirst
    <3> QED
      BY <3>1, <3>2
  <2> QED
    BY <2>1, <2>2 DEF PersistedFirst
<1> QED
  BY <1>1, <1>2, TypeCorrect, PTL DEF Spec

-----------------------------------------------------------------------------
(***************************************************************************)
(* The retry budget.                                                       *)
(***************************************************************************)

\* A goroutine changes only by its own step, or is stopped with its process.
LEMMA SlotOrigin ==
  ASSUME TypeOK, [Next]_vars, NEW w \in Slots
  PROVE  \/ pc'[w] = pc[w] /\ held'[w] = held[w]
         \/ pc'[w] = "idle"
         \/ ProcessJobs(w)
<1>1. ASSUME NEW v \in Slots, ProcessJobs(v), v # w
      PROVE  pc'[w] = pc[w] /\ held'[w] = held[w]
  BY <1>1
  DEF TypeOK, ProcessJobs, ProcessNextJob, StartJob, HandlerSucceeds,
      HandlerFails, HandleJobSuccess, SaveOutcome, RetryJob, BuryJob,
      UpdateFailedJob, RecordHistory, Goto, Release
<1>2. ASSUME NEW p \in Workers, EndWorker(p)
      PROVE  pc'[w] = "idle" \/ (pc'[w] = pc[w] /\ held'[w] = held[w])
  BY <1>2 DEF EndWorker
<1>3. ASSUME \/ Request
             \/ \E s \in Schedulers : \/ Reply(s)
                                      \/ ProcessDelayedJobs(s)
                                      \/ ExitScheduler(s)
                                      \/ CrashScheduler(s)
             \/ \E p \in Processes : Shutdown(p)
             \/ Ripen
             \/ UNCHANGED vars
      PROVE  pc' = pc /\ held' = held
  BY <1>3
  DEF Request, ScheduleJob, Reply, EnqueueJob, ProcessDelayedJobs, ReadRipe,
      PushRipe, RemoveRipe, ExitScheduler, CrashScheduler, EndScheduler,
      Shutdown, Ripen, vars, workerVars
<1> QED
  BY <1>1, <1>2, <1>3 DEF Next, ExitWorker, CrashWorker

\* A dead letter comes from handleJobFailure.
LEMMA BuriedOrigin ==
  ASSUME TypeOK, [Next]_vars, NEW m \in Buried'
  PROVE  \/ m \in Buried
         \/ \E w \in Slots : BuryJob(w) /\ m = MarkAsDead(held[w])
<1>1. CASE deadLetter' = deadLetter
  BY <1>1 DEF Buried
<1>2. CASE deadLetter' # deadLetter
  <2>1. PICK w \in Slots : BuryJob(w)
    BY <1>2
    DEF Next, Request, ScheduleJob, Reply, EnqueueJob, Enqueue, EnqueueDelayed,
        ProcessDelayedJobs, ReadRipe, PushRipe, RemoveRipe, RemoveDelayed,
        ProcessJobs, ProcessNextJob, Dequeue, StartJob, HandlerSucceeds,
        HandlerFails, HandleJobSuccess, SaveOutcome, RetryJob, UpdateFailedJob,
        RecordHistory, ExitWorker, CrashWorker, EndWorker, ExitScheduler,
        CrashScheduler, EndScheduler, Shutdown, Ripen, TimePasses, vars,
        redisVars
  <2>2. PICK out \in PushOutcomes : MoveToDeadLetter(MarkAsDead(held[w]), out)
    BY <2>1 DEF BuryJob
  <2>3. MarkAsDead(held[w]) \in Job
    BY <2>1, MarkTypes DEF TypeOK, BuryJob
  <2>4. Buried' \subseteq Buried \cup {MarkAsDead(held[w])}
    BY <2>2, <2>3, RangePushed
    DEF TypeOK, RedisTypeOK, MoveToDeadLetter, Buried
  <2> QED
    BY <2>1, <2>4
<1> QED
  BY <1>1, <1>2

\* What the steps of ProcessJob do to the count inside the job.
LEMMA MarkAttempts ==
  ASSUME NEW job \in Job, NEW run \in Nat
  PROVE  /\ MarkAsProcessing(job, run).max = job.max
         /\ MarkAsProcessing(job, run).attempts = job.attempts
         /\ MarkAsCompleted(job).max = job.max
         /\ MarkAsCompleted(job).attempts = job.attempts
         /\ MarkAsFailed(job).max = job.max
         /\ MarkAsFailed(job).attempts = job.attempts + 1
         /\ MarkAsFailed(job).status = "failed"
         /\ MarkForRetry(job).max = job.max
         /\ MarkForRetry(job).attempts = job.attempts
         /\ MarkAsDead(job).max = job.max
         /\ MarkAsDead(job).attempts = job.attempts
BY DEF Job, MarkAsProcessing, MarkAsCompleted, MarkAsFailed, MarkForRetry,
       MarkAsDead

\* Every step keeps the retry ledger.
LEMMA LedgerPreserved ==
  ASSUME TypeOK, AttemptsCounted, [Next]_vars
  PROVE  AttemptsCounted'
<1>t. /\ \A j \in Jobs : starts[j] \in Nat /\ starts'[j] \in Nat
      /\ \A m \in Job : m.id \in Jobs /\ m.max \in Int /\ m.attempts \in Int
  BY TypesPreserved DEF TypeOK, Job
<1>k. \A j \in Jobs : /\ submitted[j] # NoJob => submitted'[j] = submitted[j]
                      /\ starts'[j] >= starts[j]
  BY Kept
<1>m. ASSUME NEW m \in Messages
      PROVE  /\ m \in Job /\ m.id \in Jobs
             /\ submitted[m.id] \in Job /\ submitted'[m.id] = submitted[m.id]
             /\ m.max = submitted[m.id].max
             /\ m.attempts - submitted[m.id].attempts <= starts[m.id]
  <2>1. m \in Job /\ m.id \in Jobs /\ submitted[m.id] # NoJob
    BY <1>m, MessageType DEF AttemptsCounted
  <2>2. submitted[m.id] \in Job
    BY <2>1 DEF TypeOK
  <2> QED
    BY <1>m, <1>k, <2>1, <2>2 DEF AttemptsCounted
<1>h. ASSUME NEW w \in Slots, pc[w] # "idle"
      PROVE  held[w] \in Messages /\ held[w] \in Job
  BY <1>h DEF TypeOK, Messages, HeldMessages
<1>1. ASSUME NEW m \in Messages'
      PROVE  /\ submitted'[m.id] # NoJob
             /\ m.max = submitted'[m.id].max
             /\ m.attempts - submitted'[m.id].attempts <= starts'[m.id]
  <2>1. CASE m \in Messages
    BY <2>1, <1>t, <1>k, <1>m, NoJobAssumption
  <2>2. ASSUME NEW s \in Schedulers, NEW j \in Jobs, NEW req \in Requests,
               ScheduleJob(s, j, req), m = NewJob(j, req)
        PROVE  /\ submitted'[m.id] # NoJob
               /\ m.max = submitted'[m.id].max
               /\ m.attempts - submitted'[m.id].attempts <= starts'[m.id]
    <3>1. m \in Job /\ m.id = j
      BY <2>2, NewJobType DEF NewJob
    <3>2. submitted'[j] = m
      BY <2>2 DEF TypeOK, ScheduleJob
    <3> QED
      BY <1>t, <3>1, <3>2, NoJobAssumption
  <2>3. ASSUME NEW w \in Slots, pc[w] # "idle", Made(w, m)
        PROVE  /\ submitted'[m.id] # NoJob
               /\ m.max = submitted'[m.id].max
               /\ m.attempts - submitted'[m.id].attempts <= starts'[m.id]
    <3>1. m \in Job /\ m.id = held[w].id /\ held[w] \in Messages
      BY <2>3, MadeIdentity
    <3>2. starts[held[w].id] + 1 \in Nat
      BY <1>m, <1>t, <3>1
    <3>3. /\ m.max = held[w].max
          /\ \/ m.attempts = held[w].attempts
             \/ HandlerFails(w) /\ m.attempts = held[w].attempts + 1
      BY <2>3, <3>2, <1>m, <3>1, MarkAttempts DEF Made
    <3>4. HandlerFails(w) => held[w].attempts - submitted[held[w].id].attempts
                               < starts[held[w].id]
      BY DEF HandlerFails, AttemptsCounted
    <3>5. m.attempts - submitted[m.id].attempts <= starts[m.id]
      BY <1>t, <1>m, <3>1, <3>3, <3>4
    <3> QED
      BY <1>t, <1>k, <1>m, <3>1, <3>3, <3>5, NoJobAssumption
  <2> QED
    BY <1>1, <2>1, <2>2, <2>3, MessageOrigin
<1>2. ASSUME NEW w \in Slots
      PROVE  /\ pc'[w] = "executing" =>
                  held'[w].attempts - submitted'[held'[w].id].attempts
                    < starts'[held'[w].id]
             /\ pc'[w] = "failed" => held'[w].status = "failed"
             /\ pc'[w] \in {"executing", "failed"} => starts'[held'[w].id] >= 1
  <2>1. CASE pc'[w] = pc[w] /\ held'[w] = held[w]
    BY <2>1, <1>t, <1>k, <1>m, <1>h DEF AttemptsCounted
  <2>2. CASE pc'[w] = "idle"
    BY <2>2
  <2>3. CASE StartJob(w) /\ pc'[w] # "idle"
    <3> DEFINE run == starts[held[w].id] + 1
               job == MarkAsProcessing(held[w], run)
    <3>1. held[w] \in Job /\ held[w] \in Messages
      BY <2>3, <1>h DEF StartJob
    <3>2. run \in Nat /\ run > starts[held[w].id]
      BY <1>t, <3>1
    <3> HIDE DEF run
    <3>3. job \in Job /\ job.id = held[w].id /\ job.attempts = held[w].attempts
      BY <3>1, <3>2, MarkTypes, MarkAttempts
    <3> HIDE DEF job
    <3>4. /\ starts' = [starts EXCEPT ![job.id] = run]
          /\ submitted' = submitted
          /\ \/ /\ pc' = [pc EXCEPT ![w] = "executing"]
                /\ held' = [held EXCEPT ![w] = job]
             \/ Release(w)
      BY <2>3 DEF StartJob, job, run, Goto, schedulerVars
    <3>5. pc'[w] = "executing" /\ held'[w] = job
      BY <2>3, <3>4 DEF TypeOK, Release, Goto
    <3>6. starts'[job.id] = run
      BY <3>1, <3>3, <3>4, <1>t DEF TypeOK
    <3> QED
      BY <1>t, <1>m, <3>1, <3>2, <3>3, <3>4, <3>5, <3>6
  <2>4. CASE HandlerFails(w)
    <3>1. held[w] \in Job
      BY <2>4, <1>h DEF HandlerFails
    <3>2. /\ MarkAsFailed(held[w]).status = "failed"
          /\ MarkAsFailed(held[w]).id = held[w].id
      BY <3>1, MarkTypes, MarkAttempts
    <3>3. /\ pc'[w] = "failed"
          /\ held'[w] = MarkAsFailed(held[w])
          /\ starts' = starts
          /\ pc[w] = "executing"
      BY <2>4 DEF TypeOK, HandlerFails, Goto, tallies
    <3> QED
      BY <3>2, <3>3 DEF AttemptsCounted
  <2>5. CASE ProcessJobs(w) /\ ~StartJob(w) /\ ~HandlerFails(w)
    <3>1. \/ pc'[w] \in {"idle", "dequeued", "succeeded", "requeued", "record"}
          \/ pc'[w] = pc[w] /\ held'[w] = held[w]
      BY <2>5
      DEF TypeOK, ProcessJobs, ProcessNextJob, HandlerSucceeds,
          HandleJobSuccess, SaveOutcome, RetryJob, BuryJob, UpdateFailedJob,
          RecordHistory, Goto, Release
    <3> QED
      BY <2>1, <3>1
  <2> QED
    BY <2>1, <2>2, <2>3, <2>4, <2>5, SlotOrigin
<1>3. ASSUME NEW m \in Buried'
      PROVE  m.attempts >= m.max /\ starts'[m.id] >= 1
  <2>1. CASE m \in Buried
    <3>1. m \in Messages
      BY <2>1 DEF Messages
    <3> QED
      BY <2>1, <3>1, <1>t, <1>k, <1>m DEF AttemptsCounted
  <2>2. ASSUME NEW w \in Slots, BuryJob(w), m = MarkAsDead(held[w])
        PROVE  m.attempts >= m.max /\ starts'[m.id] >= 1
    <3>1. held[w] \in Job /\ held[w] \in Messages
      BY <2>2, <1>h DEF BuryJob
    <3>2. /\ m.id = held[w].id
          /\ m.max = held[w].max /\ m.attempts = held[w].attempts
      BY <2>2, <3>1, MarkTypes, MarkAttempts
    <3>3. held[w].status = "failed" /\ starts[held[w].id] >= 1
      BY <2>2 DEF BuryJob, AttemptsCounted
    <3>4. ~(held[w].max - held[w].attempts > 0)
      BY <2>2, <3>3 DEF BuryJob, CanRetry, AttemptsLeft
    <3> QED
      BY <1>t, <1>k, <3>1, <3>2, <3>3, <3>4
  <2> QED
    BY <1>3, <2>1, <2>2, BuriedOrigin
<1> QED
  BY <1>1, <1>2, <1>3 DEF AttemptsCounted

\* The retry ledger is right in every reachable state: CurrentAttempts inside
\* any copy of a job counts no run that was not started, even when two
\* schedulers or a failed ZREM made several copies.
THEOREM LedgerCorrect == Spec => []AttemptsCounted
<1>1. Init => AttemptsCounted
  <2> SUFFICES ASSUME Init PROVE AttemptsCounted
    OBVIOUS
  <2>1. Messages = {} /\ Buried = {}
    BY DEF Init, RedisInit, Messages, Queued, Buried, SchedulerMessages,
           HeldMessages, Range
  <2> QED
    BY <2>1 DEF Init, AttemptsCounted
<1>2. TypeOK /\ AttemptsCounted /\ [Next]_vars => AttemptsCounted'
  BY LedgerPreserved
<1> QED
  BY <1>1, <1>2, TypeCorrect, PTL DEF Spec

\* No job is given up early: a dead letter has been run as often as the
\* policy of its request allows, for any policy, any number of scheduler and
\* worker processes and any faults.
THEOREM NoJobGivenUpEarly == Spec => []NoEarlyBurial
<1>1. TypeOK /\ AttemptsCounted => NoEarlyBurial
  <2> SUFFICES ASSUME TypeOK, AttemptsCounted, NEW m \in Buried
               PROVE  starts[m.id] >= Allowed(submitted[m.id])
    BY DEF NoEarlyBurial
  <2>1. m \in Messages /\ m \in Job /\ m.id \in Jobs
    BY MessageType DEF Messages
  <2>2. submitted[m.id] \in Job
    BY <2>1 DEF TypeOK, AttemptsCounted
  <2>3. /\ starts[m.id] \in Nat /\ m.attempts \in Int /\ m.max \in Int
        /\ submitted[m.id].attempts \in Int /\ submitted[m.id].max \in Int
    BY <2>1, <2>2 DEF TypeOK, Job
  <2>4. /\ m.max = submitted[m.id].max
        /\ m.attempts - submitted[m.id].attempts <= starts[m.id]
        /\ m.attempts >= m.max /\ starts[m.id] >= 1
    BY <2>1 DEF AttemptsCounted
  <2> QED
    BY <2>3, <2>4 DEF Allowed, AttemptsLeft
<1> QED
  BY <1>1, TypeCorrect, LedgerCorrect, PTL

-----------------------------------------------------------------------------
(***************************************************************************)
(* What terminal statuses say.                                             *)
(***************************************************************************)

\* A row changes only when ScheduleJob or ProcessJob writes it.
LEMMA RowOrigin ==
  ASSUME TypeOK, [Next]_vars, NEW j \in Jobs, jobs'[j] # jobs[j]
  PROVE  \/ jobs'[j].status \in {"pending", "scheduled", "processing"}
         \/ \E w \in Slots :
              \/ /\ HandleJobSuccess(w)
                 /\ jobs'[j] = MarkAsCompleted(held[w])
                 /\ j = held[w].id
              \/ /\ UpdateFailedJob(w)
                 /\ jobs'[j] = held[w]
                 /\ j = held[w].id
<1>s. ASSUME NEW job, NEW out, Save(job, out)
      PROVE  jobs'[j] = job /\ j = job.id
  BY <1>s DEF TypeOK, StorageTypeOK, Save
<1>1. ASSUME NEW s \in Schedulers, NEW i \in Jobs, NEW req \in Requests,
             ScheduleJob(s, i, req)
      PROVE  jobs'[j].status \in {"pending", "scheduled"}
  BY <1>1, <1>s DEF ScheduleJob, SaveJob, NewJob
<1>2. ASSUME NEW w \in Slots, ProcessJobs(w)
      PROVE  \/ jobs'[j].status = "processing"
             \/ /\ HandleJobSuccess(w)
                /\ jobs'[j] = MarkAsCompleted(held[w])
                /\ j = held[w].id
             \/ /\ UpdateFailedJob(w)
                /\ jobs'[j] = held[w]
                /\ j = held[w].id
  <2>1. CASE StartJob(w)
    <3> DEFINE job == MarkAsProcessing(held[w], starts[held[w].id] + 1)
    <3>1. held[w] \in Job
      BY <2>1 DEF TypeOK, StartJob
    <3>2. job.status = "processing"
      BY <3>1 DEF MarkAsProcessing, Job
    <3>3. PICK out \in Outcomes : UpdateJob(job, out)
      BY <2>1 DEF StartJob
    <3> QED
      BY <1>s, <3>2, <3>3 DEF UpdateJob
  <2>2. CASE HandleJobSuccess(w)
    <3>1. held[w] \in Job
      BY <2>2 DEF TypeOK, HandleJobSuccess
    <3>2. PICK out \in Outcomes : UpdateJob(MarkAsCompleted(held[w]), out)
      BY <2>2 DEF HandleJobSuccess, SaveOutcome
    <3> QED
      BY <1>s, <2>2, <3>1, <3>2, MarkTypes DEF UpdateJob
  <2>3. CASE UpdateFailedJob(w)
    BY <1>s, <2>3 DEF UpdateFailedJob, SaveOutcome, UpdateJob
  <2>4. CASE ~StartJob(w) /\ ~HandleJobSuccess(w) /\ ~UpdateFailedJob(w)
    <3>1. jobs' = jobs
      BY <1>2, <2>4
      DEF ProcessJobs, ProcessNextJob, HandlerSucceeds, HandlerFails, RetryJob,
          BuryJob, RecordHistory, SaveJobHistory, storageVars
    <3> QED
      BY <3>1
  <2> QED
    BY <2>1, <2>2, <2>3, <2>4
<1>3. ASSUME \/ \E s \in Schedulers : \/ Reply(s)
                                      \/ ProcessDelayedJobs(s)
                                      \/ ExitScheduler(s)
                                      \/ CrashScheduler(s)
             \/ \E p \in Workers : ExitWorker(p) \/ CrashWorker(p)
             \/ \E p \in Processes : Shutdown(p)
             \/ Ripen
             \/ UNCHANGED vars
      PROVE  jobs' = jobs
  BY <1>3
  DEF Reply, EnqueueJob, ProcessDelayedJobs, ReadRipe, PushRipe, RemoveRipe,
      ExitScheduler, CrashScheduler, EndScheduler, ExitWorker, CrashWorker,
      EndWorker, Shutdown, Ripen, vars, storageVars
<1> QED
  BY <1>1, <1>2, <1>3 DEF Next, Request

(***************************************************************************)
(* What TerminalRowsTrue rests on: a goroutine is about to write a         *)
(* terminal status only after what the status says has happened.           *)
(***************************************************************************)
OutcomesBacked ==
  \A w \in Slots :
    /\ pc[w] = "succeeded" => effects[held[w].id] > 0
    /\ pc[w] = "requeued" => /\ held[w].status \in {"scheduled", "dead"}
                             /\ held[w].status = "dead" =>
                                  \/ IsBuried(held[w].id)
                                  \/ "lost" \in damage[held[w].id]

\* Every step keeps OutcomesBacked.
LEMMA OutcomesPreserved ==
  ASSUME TypeOK, OutcomesBacked, [Next]_vars
  PROVE  OutcomesBacked'
<1> SUFFICES ASSUME NEW w \in Slots
             PROVE  /\ pc'[w] = "succeeded" => effects'[held'[w].id] > 0
                    /\ pc'[w] = "requeued" =>
                         /\ held'[w].status \in {"scheduled", "dead"}
                         /\ held'[w].status = "dead" =>
                              \/ \E m \in Buried' : m.id = held'[w].id
                              \/ "lost" \in damage'[held'[w].id]
  BY DEF OutcomesBacked, IsBuried
<1>h. pc[w] # "idle" => held[w] \in Job /\ held[w].id \in Jobs
  BY DEF TypeOK, Job
<1>k. \A j \in Jobs : /\ effects[j] \in Nat /\ effects'[j] \in Nat
                      /\ effects'[j] >= effects[j]
                      /\ damage[j] \subseteq damage'[j]
                      /\ IsBuried(j) => \E m \in Buried' : m.id = j
  BY Kept, TypesPreserved DEF TypeOK, IsBuried
<1>1. CASE pc'[w] = pc[w] /\ held'[w] = held[w]
  BY <1>1, <1>h, <1>k DEF OutcomesBacked
<1>2. CASE pc'[w] = "idle"
  BY <1>2
<1>3. CASE HandlerSucceeds(w)
  <2>1. pc'[w] = "succeeded" /\ held'[w] = held[w]
    BY <1>3 DEF TypeOK, HandlerSucceeds, Goto
  <2>2. effects'[held[w].id] = effects[held[w].id] + 1
    BY <1>3, <1>h DEF TypeOK, HandlerSucceeds
  <2> QED
    BY <1>3, <1>h, <1>k, <2>1, <2>2 DEF HandlerSucceeds
<1>4. CASE RetryJob(w)
  <2>1. pc'[w] = "requeued" /\ held'[w] = MarkForRetry(held[w])
    BY <1>4 DEF TypeOK, RetryJob, Goto
  <2>2. MarkForRetry(held[w]).status = "scheduled"
    BY <1>4, <1>h DEF RetryJob, MarkForRetry, Job
  <2> QED
    BY <2>1, <2>2
<1>5. CASE BuryJob(w)
  <2> DEFINE job == MarkAsDead(held[w])
  <2>1. pc'[w] = "requeued" /\ held'[w] = job
    BY <1>5 DEF TypeOK, BuryJob, Goto
  <2>2. job \in Job /\ job.id \in Jobs /\ job.status = "dead"
    BY <1>5, <1>h, MarkTypes DEF BuryJob, MarkAsDead, Job
  <2>3. PICK out \in PushOutcomes :
          /\ Call(Live(ProcessOf(w)), job.id, out, {"lost"}, {})
          /\ MoveToDeadLetter(job, out)
    BY <1>5 DEF BuryJob
  <2> HIDE DEF job
  <2>4. CASE out = "failed"
    <3>1. damage'[job.id] = damage[job.id] \cup {"lost"}
      BY <2>2, <2>3, <2>4 DEF TypeOK, Call, Harm
    <3> QED
      BY <2>1, <2>2, <3>1
  <2>5. CASE out # "failed"
    <3>1. job \in Buried'
      BY <2>2, <2>3, <2>5, RangePushed
      DEF TypeOK, RedisTypeOK, MoveToDeadLetter, Buried
    <3> QED
      BY <2>1, <2>2, <3>1
  <2> QED
    BY <2>4, <2>5
<1>6. CASE ProcessJobs(w) /\ ~HandlerSucceeds(w) /\ ~RetryJob(w) /\ ~BuryJob(w)
  <2>1. \/ pc'[w] \in {"idle", "dequeued", "executing", "failed", "record"}
        \/ pc'[w] = pc[w] /\ held'[w] = held[w]
    BY <1>6
    DEF TypeOK, ProcessJobs, ProcessNextJob, StartJob, HandlerFails,
        HandleJobSuccess, SaveOutcome, UpdateFailedJob, RecordHistory, Goto,
        Release
  <2> QED
    BY <1>1, <2>1
<1> QED
  BY <1>1, <1>2, <1>3, <1>4, <1>5, <1>6, SlotOrigin

\* It holds always.
LEMMA WrittenLast == Spec => []OutcomesBacked
<1>1. Init => OutcomesBacked
  BY DEF Init, OutcomesBacked
<1>2. TypeOK /\ OutcomesBacked /\ [Next]_vars => OutcomesBacked'
  BY OutcomesPreserved
<1> QED
  BY <1>1, <1>2, TypeCorrect, PTL DEF Spec

\* A row that says "completed" or "dead" tells the truth, in any system and
\* through any faults: handleJobSuccess and handleJobFailure write it last.
THEOREM TerminalStatusTrue == Spec => []TerminalRowsTrue
<1>1. Init => TerminalRowsTrue
  BY DEF Init, TerminalRowsTrue, StorageInit, Saved
<1>2. TypeOK /\ OutcomesBacked /\ TerminalRowsTrue /\ [Next]_vars
        => TerminalRowsTrue'
  <2> SUFFICES ASSUME TypeOK, OutcomesBacked, TerminalRowsTrue, [Next]_vars
               PROVE  TerminalRowsTrue'
    OBVIOUS
  <2>1. ASSUME NEW j \in Jobs, Saved(j)'
        PROVE  /\ jobs'[j].status = "completed" => effects'[j] > 0
               /\ jobs'[j].status = "dead" =>
                    IsBuried(j)' \/ "lost" \in damage'[j]
    <3>k. /\ effects[j] \in Nat /\ effects'[j] \in Nat
          /\ effects'[j] >= effects[j]
          /\ damage[j] \subseteq damage'[j]
          /\ IsBuried(j) => IsBuried(j)'
      BY Kept, TypesPreserved DEF TypeOK, IsBuried
    <3>1. CASE jobs'[j] = jobs[j]
      BY <2>1, <3>1, <3>k DEF TerminalRowsTrue, Saved
    <3>2. ASSUME NEW w \in Slots, HandleJobSuccess(w), j = held[w].id,
                 jobs'[j] = MarkAsCompleted(held[w])
          PROVE  /\ effects'[j] > 0
                 /\ jobs'[j].status # "dead"
      <4>1. held[w] \in Job /\ effects[j] > 0
        BY <3>2 DEF TypeOK, HandleJobSuccess, OutcomesBacked
      <4> QED
        BY <3>2, <3>k, <4>1 DEF MarkAsCompleted, Job
    <3>3. ASSUME NEW w \in Slots, UpdateFailedJob(w), j = held[w].id,
                 jobs'[j] = held[w]
          PROVE  /\ jobs'[j].status # "completed"
                 /\ jobs'[j].status = "dead" =>
                      IsBuried(j)' \/ "lost" \in damage'[j]
      BY <3>3, <3>k DEF UpdateFailedJob, OutcomesBacked
    <3> QED
      BY <3>1, <3>2, <3>3, RowOrigin
  <2> QED
    BY <2>1 DEF TerminalRowsTrue
<1> QED
  BY <1>1, <1>2, TypeCorrect, WrittenLast, PTL DEF Spec

-----------------------------------------------------------------------------
(***************************************************************************)
(* Which steps may change what.                                            *)
(***************************************************************************)

\* Only requests, the delayed-job loop and BRPOP touch the active lists.
LEMMA QueuesChange ==
  ASSUME [Next]_vars, queues' # queues
  PROVE  \/ \E s \in Schedulers : \E job \in inflight[s] : EnqueueJob(s, job)
         \/ \E s \in Schedulers : \E job \in batch[s] : PushRipe(s, job)
         \/ \E w \in Slots : ProcessNextJob(w)
BY DEF Next, Request, ScheduleJob, Reply, ProcessDelayedJobs, ReadRipe,
       RemoveRipe, RemoveDelayed, ProcessJobs, StartJob, HandlerSucceeds,
       HandlerFails, HandleJobSuccess, SaveOutcome, RetryJob, EnqueueDelayed,
       BuryJob, MoveToDeadLetter, UpdateFailedJob, RecordHistory, ExitWorker,
       CrashWorker, EndWorker, ExitScheduler, CrashScheduler, EndScheduler,
       Shutdown, Ripen, TimePasses, vars, redisVars

\* Only requests, ZREM and retries touch delayed_jobs.
LEMMA DelayedChange ==
  ASSUME [Next]_vars, delayed' # delayed
  PROVE  \/ \E s \in Schedulers : \E job \in inflight[s] : EnqueueJob(s, job)
         \/ \E s \in Schedulers : \E job \in moving[s] : RemoveRipe(s, job)
         \/ \E w \in Slots : RetryJob(w)
BY DEF Next, Request, ScheduleJob, Reply, ProcessDelayedJobs, ReadRipe,
       PushRipe, Enqueue, ProcessJobs, ProcessNextJob, Dequeue, StartJob,
       HandlerSucceeds, HandlerFails, HandleJobSuccess, SaveOutcome, BuryJob,
       MoveToDeadLetter, UpdateFailedJob, RecordHistory, ExitWorker,
       CrashWorker, EndWorker, ExitScheduler, CrashScheduler, EndScheduler,
       Shutdown, Ripen, TimePasses, vars, redisVars

\* Only requests, and the end of their process, touch what they hold.
LEMMA RequestsChange ==
  ASSUME [Next]_vars, <<inflight, response, submitted>>' # <<inflight, response, submitted>>
  PROVE  \/ \E s \in Schedulers, j \in Jobs, req \in Requests :
              ScheduleJob(s, j, req)
         \/ \E s \in Schedulers : \E job \in inflight[s] : EnqueueJob(s, job)
         \/ \E s \in Schedulers : EndScheduler(s)
BY DEF Next, Request, Reply, ProcessDelayedJobs, ReadRipe, PushRipe,
       RemoveRipe, ProcessJobs, ProcessNextJob, StartJob, HandlerSucceeds,
       HandlerFails, HandleJobSuccess, SaveOutcome, RetryJob, BuryJob,
       UpdateFailedJob, RecordHistory, ExitWorker, CrashWorker, EndWorker,
       ExitScheduler, CrashScheduler, Shutdown, Ripen, vars, schedulerVars

\* Only the delayed-job loop, and the end of its process, touch its state.
LEMMA PromoterChange ==
  ASSUME [Next]_vars, <<batch, moving>>' # <<batch, moving>>
  PROVE  \E s \in Schedulers :
           \/ ReadRipe(s)
           \/ \E job \in batch[s] : PushRipe(s, job)
           \/ \E job \in moving[s] : RemoveRipe(s, job)
           \/ EndScheduler(s)
BY DEF Next, Request, ScheduleJob, Reply, EnqueueJob, ProcessDelayedJobs,
       ProcessJobs, ProcessNextJob, StartJob, HandlerSucceeds, HandlerFails,
       HandleJobSuccess, SaveOutcome, RetryJob, BuryJob, UpdateFailedJob,
       RecordHistory, ExitWorker, CrashWorker, EndWorker, ExitScheduler,
       CrashScheduler, Shutdown, Ripen, vars, promoterVars

\* Only ProcessJob's beginning counts runs, only the handler successes, and
\* only ProcessJob's end writes history.
LEMMA TalliesChange ==
  ASSUME [Next]_vars
  PROVE  /\ starts' # starts => \E w \in Slots : StartJob(w)
         /\ effects' # effects => \E w \in Slots : HandlerSucceeds(w)
         /\ history' # history => \E w \in Slots : RecordHistory(w)
BY DEF Next, Request, ScheduleJob, SaveJob, Save, Reply, EnqueueJob,
       ProcessDelayedJobs, ReadRipe, PushRipe, RemoveRipe, ProcessJobs,
       ProcessNextJob, StartJob, UpdateJob, HandlerSucceeds, HandlerFails,
       HandleJobSuccess, SaveOutcome, RetryJob, BuryJob, UpdateFailedJob,
       RecordHistory, ExitWorker, CrashWorker, EndWorker, ExitScheduler,
       CrashScheduler, EndScheduler, Shutdown, Ripen, vars, storageVars,
       tallies

-----------------------------------------------------------------------------
(***************************************************************************)
(* How messages get from place to place.                                   *)
(***************************************************************************)

\* A push that is carried out leaves its message on a list.
LEMMA EnqueueAdds ==
  ASSUME RedisTypeOK, NEW job \in Job, NEW out, Enqueue(job, out)
  PROVE  /\ Queued \subseteq Queued'
         /\ out # "failed" => job \in Queued'
<1>1. ASSUME NEW p \in Priorities
      PROVE  /\ Range(queues[p]) \subseteq Range(queues'[p])
             /\ p = QueueName(job.priority) /\ out # "failed" =>
                  job \in Range(queues'[p])
  <2>1. queues[p] \in Seq(Job)
    BY DEF RedisTypeOK
  <2>2. IF p = QueueName(job.priority)
        THEN queues'[p] = Pushed(queues[p], job, out)
        ELSE queues'[p] = queues[p]
    BY DEF Enqueue, RedisTypeOK
  <2> QED
    BY <2>1, <2>2, RangePushed
<1>2. QueueName(job.priority) \in Priorities
  BY QueueNameType
<1> QED
  BY <1>1, <1>2 DEF Queued

\* BRPOP takes nothing but the oldest message of one list.
LEMMA DequeueKeeps ==
  ASSUME RedisTypeOK, NEW i \in DOMAIN DequeueOrder, Dequeue(i)
  PROVE  Queued \subseteq Queued' \cup {NextIn(i)}
<1>1. ASSUME NEW list \in Seq(Job), list # <<>>
      PROVE  Range(list) \subseteq Range(Tail(list)) \cup {Head(list)}
  <2> SUFFICES ASSUME NEW k \in DOMAIN list, list[k] # Head(list)
               PROVE  \E i0 \in DOMAIN Tail(list) : list[k] = Tail(list)[i0]
    BY DEF Range
  <2>1. k \in 1 .. Len(list) /\ k # 1 /\ Len(list) \in Nat
    BY <1>1
  <2>2. k - 1 \in 1 .. (Len(list) - 1) /\ DOMAIN Tail(list) = 1 .. (Len(list) - 1)
    BY <1>1, <2>1
  <2>3. Tail(list)[k - 1] = list[k]
    BY <1>1, <2>1, <2>2
  <2> QED
    BY <2>2, <2>3
<1>2. DequeueOrder[i] \in Priorities
  BY DequeueOrderType
<1>3. queues[DequeueOrder[i]] \in Seq(Job) /\ queues[DequeueOrder[i]] # <<>>
  BY <1>2 DEF RedisTypeOK, Dequeue, FirstNonEmpty
<1>4. ASSUME NEW p \in Priorities
      PROVE  Range(queues[p]) \subseteq Range(queues'[p]) \cup {NextIn(i)}
  <2>1. \/ queues'[p] = queues[p]
        \/ /\ p = DequeueOrder[i]
           /\ queues'[p] = Tail(queues[p])
    BY <1>2 DEF Dequeue, RedisTypeOK
  <2> QED
    BY <1>1, <1>3, <2>1 DEF NextIn
<1> QED
  BY <1>4 DEF Queued

\* What is on the lists was there, or was pushed by ScheduleJob or the loop.
LEMMA QueueFlow ==
  ASSUME TypeOK, [Next]_vars, NEW m \in Queued'
  PROVE  \/ m \in Queued
         \/ \E s \in Schedulers : m \in inflight[s] /\ EnqueueJob(s, m)
         \/ \E s \in Schedulers : m \in batch[s] /\ PushRipe(s, m)
<1>1. CASE queues' = queues
  BY <1>1 DEF Queued
<1>2. ASSUME NEW s \in Schedulers, NEW job \in inflight[s], EnqueueJob(s, job)
      PROVE  m \in Queued \/ m = job
  <2>1. PICK out \in PushOutcomes : EnqueueDelayed(job, out) \/ Enqueue(job, out)
    BY <1>2 DEF EnqueueJob
  <2>2. CASE EnqueueDelayed(job, out)
    BY <2>2 DEF EnqueueDelayed, Queued
  <2>3. CASE Enqueue(job, out)
    BY <2>3, EnqueueMessages DEF TypeOK
  <2> QED
    BY <2>1, <2>2, <2>3
<1>3. ASSUME NEW s \in Schedulers, NEW job \in batch[s], PushRipe(s, job)
      PROVE  m \in Queued \/ m = job
  <2>1. PICK out \in PushOutcomes : Enqueue(job, out)
    BY <1>3 DEF PushRipe
  <2> QED
    BY <2>1, EnqueueMessages DEF TypeOK
<1>4. ASSUME NEW w \in Slots, ProcessNextJob(w)
      PROVE  m \in Queued
  BY <1>4, DequeueMessages DEF TypeOK, ProcessNextJob
<1> QED
  BY <1>1, <1>2, <1>3, <1>4, QueuesChange

\* What is delayed was so before, or is put there by ScheduleJob or a retry.
LEMMA DelayedFlow ==
  ASSUME TypeOK, [Next]_vars, NEW m \in delayed'
  PROVE  \/ m \in delayed
         \/ \E s \in Schedulers : m \in inflight[s] /\ EnqueueJob(s, m)
         \/ \E w \in Slots : RetryJob(w) /\ m = MarkForRetry(held[w])
<1>1. ASSUME NEW s \in Schedulers, NEW job \in inflight[s], EnqueueJob(s, job)
      PROVE  m \in delayed \/ m = job
  BY <1>1 DEF EnqueueJob, EnqueueDelayed, Enqueue
<1>2. ASSUME NEW s \in Schedulers, NEW job \in moving[s], RemoveRipe(s, job)
      PROVE  m \in delayed
  BY <1>2 DEF RemoveRipe, RemoveDelayed
<1>3. ASSUME NEW w \in Slots, RetryJob(w)
      PROVE  m \in delayed \/ m = MarkForRetry(held[w])
  BY <1>3 DEF RetryJob, EnqueueDelayed
<1> QED
  BY <1>1, <1>2, <1>3, DelayedChange

\* The result set comes from delayed_jobs, what is being moved from it.
LEMMA PromoterFlow ==
  ASSUME TypeOK, [Next]_vars, NEW s \in Schedulers
  PROVE  /\ batch'[s] \subseteq batch[s] \cup delayed
         /\ moving'[s] \subseteq moving[s] \cup batch[s]
<1>1. CASE UNCHANGED <<batch, moving>>
  BY <1>1
<1>2. ASSUME NEW t \in Schedulers, ReadRipe(t)
      PROVE  /\ batch'[s] \subseteq batch[s] \cup delayed
             /\ moving' = moving
  BY <1>2 DEF TypeOK, RedisTypeOK, ReadRipe
<1>3. ASSUME NEW t \in Schedulers, NEW job \in batch[t], PushRipe(t, job)
      PROVE  /\ batch'[s] \subseteq batch[s]
             /\ moving'[s] \subseteq moving[s] \cup batch[s]
  BY <1>3 DEF TypeOK, PushRipe
<1>4. ASSUME NEW t \in Schedulers, NEW job \in moving[t], RemoveRipe(t, job)
      PROVE  /\ batch' = batch
             /\ moving'[s] \subseteq moving[s]
  BY <1>4 DEF TypeOK, RemoveRipe
<1>5. ASSUME NEW t \in Schedulers, EndScheduler(t)
      PROVE  /\ batch'[s] \subseteq batch[s]
             /\ moving'[s] \subseteq moving[s]
  BY <1>5 DEF TypeOK, EndScheduler
<1> QED
  BY <1>1, <1>2, <1>3, <1>4, <1>5, PromoterChange

\* What a request holds is what ScheduleJob has just built.
LEMMA RequestFlow ==
  ASSUME TypeOK, [Next]_vars, NEW s \in Schedulers, NEW m \in inflight'[s]
  PROVE  \/ m \in inflight[s]
         \/ \E j \in Jobs, req \in Requests :
              ScheduleJob(s, j, req) /\ m = NewJob(j, req)
<1>1. ASSUME NEW t \in Schedulers, NEW j \in Jobs, NEW req \in Requests,
             ScheduleJob(t, j, req)
      PROVE  \/ m \in inflight[s]
             \/ s = t /\ m = NewJob(j, req)
  BY <1>1 DEF TypeOK, ScheduleJob
<1>2. ASSUME NEW t \in Schedulers, NEW job \in inflight[t], EnqueueJob(t, job)
      PROVE  m \in inflight[s]
  BY <1>2 DEF TypeOK, EnqueueJob
<1>3. ASSUME NEW t \in Schedulers, EndScheduler(t)
      PROVE  m \in inflight[s]
  BY <1>3 DEF TypeOK, EndScheduler
<1> QED
  BY <1>1, <1>2, <1>3, RequestsChange

\* What a goroutine holds it held before, took off a list or made itself.
LEMMA HeldFlow ==
  ASSUME TypeOK, [Next]_vars, NEW w \in Slots, pc'[w] # "idle"
  PROVE  \/ pc[w] # "idle" /\ held'[w] = held[w]
         \/ ProcessNextJob(w) /\ pc'[w] = "dequeued" /\ held'[w] \in Queued
         \/ pc[w] # "idle" /\ Made(w, held'[w])
<1>1. CASE ProcessNextJob(w)
  <2>1. PICK i \in DOMAIN DequeueOrder :
          /\ Dequeue(i)
          /\ \/ /\ Goto(w, "dequeued")
                /\ held' = [held EXCEPT ![w] = NextIn(i)]
             \/ UNCHANGED <<pc, held>>
    BY <1>1 DEF ProcessNextJob
  <2>2. NextIn(i) \in Queued
    BY <2>1, DequeueMessages DEF TypeOK
  <2> QED
    BY <1>1, <2>1, <2>2 DEF TypeOK, Goto, ProcessNextJob
<1>2. CASE StartJob(w)
  <2>1. \/ held' = [held EXCEPT ![w] =
                      MarkAsProcessing(held[w], starts[held[w].id] + 1)]
        \/ Release(w)
    BY <1>2 DEF StartJob
  <2> QED
    BY <1>2, <2>1 DEF TypeOK, Release, Goto, Made, StartJob
<1>3. CASE HandlerFails(w)
  BY <1>3 DEF TypeOK, HandlerFails, Made
<1>4. CASE HandleJobSuccess(w) \/ RetryJob(w) \/ BuryJob(w)
  BY <1>4 DEF TypeOK, HandleJobSuccess, SaveOutcome, RetryJob, BuryJob, Made
<1>5. CASE HandlerSucceeds(w) \/ UpdateFailedJob(w) \/ RecordHistory(w)
  BY <1>5
  DEF TypeOK, HandlerSucceeds, UpdateFailedJob, SaveOutcome, RecordHistory,
      Release, Goto
<1> QED
  BY <1>1, <1>2, <1>3, <1>4, <1>5, SlotOrigin DEF ProcessJobs

-----------------------------------------------------------------------------
(***************************************************************************)
(* Requests and what has left them.                                        *)
(***************************************************************************)

\* Messages the delayed-job loops have in their hands.
PromoterMessages == UNION {batch[s] \cup moving[s] : s \in Schedulers}

\* Messages that wait in Redis, or have been read from it to be moved.
Waiting == Queued \cup delayed \cup PromoterMessages

\* All messages ScheduleJob has let go of, dead letters apart.
Released == Waiting \cup HeldMessages

(***************************************************************************)
(* While ScheduleJob has a job in its hands nobody else has: the job is as *)
(* it was built, one request holds it and no message of it is anywhere     *)
(* else.  Before ScheduleJob nothing is known of the job at all.           *)
(***************************************************************************)
RequestsApart ==
  /\ \A s \in Schedulers : \A m \in inflight[s] :
       m = submitted[m.id] /\ response[m.id] = "waiting"
  /\ \A s, t \in Schedulers : \A m \in inflight[s], n \in inflight[t] :
       m.id = n.id => s = t
  /\ \A m \in Released : response[m.id] # "waiting"
  /\ \A j \in Jobs : submitted[j] = NoJob => ~Saved(j) /\ effects[j] = 0

\* What it takes to be a message of one of these kinds.
LEMMA ReleasedMembers ==
  ASSUME NEW m
  PROVE  /\ m \in Waiting <=>
              \/ m \in Queued
              \/ m \in delayed
              \/ \E s \in Schedulers : m \in batch[s] \/ m \in moving[s]
         /\ m \in Released <=>
              \/ m \in Waiting
              \/ \E w \in Slots : pc[w] # "idle" /\ m = held[w]
         /\ m \in Released => m \in Messages
         /\ \A s \in Schedulers : m \in inflight[s] => m \in Messages
<1>1. m \in HeldMessages <=> \E w \in Slots : pc[w] # "idle" /\ m = held[w]
  BY Zenon DEF HeldMessages
<1>2. m \in PromoterMessages <=>
        \E s \in Schedulers : m \in batch[s] \/ m \in moving[s]
  BY Zenon DEF PromoterMessages
<1>3. m \in SchedulerMessages <=>
        \E s \in Schedulers : m \in inflight[s] \/ m \in batch[s] \/ m \in moving[s]
  BY Zenon DEF SchedulerMessages
<1>4. m \in Messages <=> \/ m \in Queued \/ m \in delayed \/ m \in Buried
                         \/ m \in SchedulerMessages \/ m \in HeldMessages
  BY DEF Messages
<1>5. /\ m \in Released <=> m \in Waiting \/ m \in HeldMessages
      /\ m \in Waiting <=> m \in Queued \/ m \in delayed \/ m \in PromoterMessages
  BY DEF Released, Waiting
<1> QED
  BY <1>1, <1>2, <1>3, <1>4, <1>5

\* What waits has waited before, or comes from a request or as a retry.
LEMMA WaitingFlow ==
  ASSUME TypeOK, [Next]_vars, NEW m \in Waiting'
  PROVE  \/ m \in Waiting
         \/ \E s \in Schedulers : m \in inflight[s] /\ EnqueueJob(s, m)
         \/ \E w \in Slots : RetryJob(w) /\ m = MarkForRetry(held[w])
<1>1. CASE m \in Queued'
  BY <1>1, QueueFlow, ReleasedMembers
<1>2. CASE m \in delayed'
  BY <1>2, DelayedFlow, ReleasedMembers
<1>3. ASSUME NEW s \in Schedulers, m \in batch'[s] \/ m \in moving'[s]
      PROVE  m \in Waiting
  BY <1>3, PromoterFlow, ReleasedMembers
<1>4. m \in PromoterMessages' =>
        \E s \in Schedulers : m \in batch'[s] \/ m \in moving'[s]
  BY Zenon DEF PromoterMessages
<1> QED
  BY <1>1, <1>2, <1>3, <1>4 DEF Waiting

\* Released messages come from requests and from other released messages.
LEMMA ReleasedFlow ==
  ASSUME TypeOK, [Next]_vars, NEW m \in Released'
  PROVE  \/ m \in Released
         \/ \E s \in Schedulers : m \in inflight[s] /\ EnqueueJob(s, m)
         \/ \E w \in Slots : pc[w] # "idle" /\ Made(w, m)
<1>1. CASE m \in Waiting'
  <2>1. \A w \in Slots : RetryJob(w) => pc[w] # "idle"
    BY DEF RetryJob
  <2> QED
    BY <1>1, <2>1, WaitingFlow, ReleasedMembers DEF Made
<1>2. ASSUME NEW w \in Slots, pc'[w] # "idle", m = held'[w]
      PROVE  m \in Released \/ (pc[w] # "idle" /\ Made(w, m))
  BY <1>2, HeldFlow, ReleasedMembers
<1>3. m \in HeldMessages' => \E w \in Slots : pc'[w] # "idle" /\ m = held'[w]
  BY Zenon DEF HeldMessages
<1> QED
  BY <1>1, <1>2, <1>3 DEF Released

\* A row is written for the job of a new request or for one in a
\* goroutine's hands.
LEMMA RowFlow ==
  ASSUME TypeOK, [Next]_vars, NEW j \in Jobs, jobs'[j] # jobs[j]
  PROVE  \/ \E s \in Schedulers, req \in Requests : ScheduleJob(s, j, req)
         \/ \E w \in Slots : pc[w] # "idle" /\ held[w].id = j
<1>1. ASSUME NEW s \in Schedulers, NEW i \in Jobs, NEW req \in Requests,
             ScheduleJob(s, i, req)
      PROVE  i = j
  <2>1. NewJob(i, req).id = i
    BY DEF NewJob
  <2> QED
    BY <1>1, <2>1 DEF ScheduleJob, SaveJob, Save, TypeOK, StorageTypeOK
<1>2. ASSUME NEW w \in Slots, NEW job, NEW out, job.id = held[w].id,
             UpdateJob(job, out)
      PROVE  held[w].id = j
  BY <1>2 DEF UpdateJob, Save, TypeOK, StorageTypeOK
<1>3. ASSUME NEW w \in Slots, ProcessJobs(w)
      PROVE  pc[w] # "idle" /\ held[w].id = j
  <2>1. CASE StartJob(w)
    <3>1. /\ pc[w] # "idle" /\ held[w] \in Job
          /\ starts[held[w].id] + 1 \in Nat
      BY <2>1 DEF StartJob, TypeOK, Job
    <3>2. MarkAsProcessing(held[w], starts[held[w].id] + 1).id = held[w].id
      BY <3>1, MarkTypes
    <3> QED
      BY <1>2, <2>1, <3>1, <3>2 DEF StartJob
  <2>2. CASE HandleJobSuccess(w)
    <3>1. pc[w] # "idle" /\ held[w] \in Job
      BY <2>2 DEF HandleJobSuccess, TypeOK
    <3>2. MarkAsCompleted(held[w]).id = held[w].id
      BY <3>1, MarkTypes
    <3> QED
      BY <1>2, <2>2, <3>1, <3>2 DEF HandleJobSuccess, SaveOutcome
  <2>3. CASE UpdateFailedJob(w)
    BY <1>2, <2>3 DEF UpdateFailedJob, SaveOutcome
  <2>4. CASE ~StartJob(w) /\ ~HandleJobSuccess(w) /\ ~UpdateFailedJob(w)
    <3>1. jobs' = jobs
      BY <1>3, <2>4
      DEF ProcessJobs, ProcessNextJob, HandlerSucceeds, HandlerFails,
          RetryJob, BuryJob, RecordHistory, SaveJobHistory, storageVars
    <3> QED
      BY <3>1
  <2> QED
    BY <2>1, <2>2, <2>3, <2>4
<1>4. ASSUME ~Request, ~(\E w \in Slots : ProcessJobs(w))
      PROVE  jobs' = jobs
  BY <1>4
  DEF Next, Reply, EnqueueJob, ProcessDelayedJobs, ReadRipe, PushRipe,
      RemoveRipe, ExitScheduler, CrashScheduler, EndScheduler, ExitWorker,
      CrashWorker, EndWorker, Shutdown, Ripen, vars, storageVars
<1> QED
  BY <1>1, <1>3, <1>4 DEF Request

\* Every step keeps requests apart.
LEMMA RequestsApartPreserved ==
  ASSUME TypeOK, PersistedFirst, AttemptsCounted, RequestsApart, [Next]_vars
  PROVE  RequestsApart'
<1>t. /\ \A s \in Schedulers : inflight[s] \subseteq Job
      /\ \A m \in Job : m.id \in Jobs
      /\ response \in [Jobs -> {"none", "waiting", "created", "error"}]
      /\ submitted \in [Jobs -> Job \cup {NoJob}]
  BY DEF TypeOK, Job
<1>m. \A m \in Messages : m \in Job /\ m.id \in Jobs /\ submitted[m.id] # NoJob
  BY MessageType DEF AttemptsCounted
<1>r. \A m \in Released : m \in Job /\ m.id \in Jobs /\ submitted[m.id] # NoJob
  BY <1>m, ReleasedMembers
<1>i. \A s \in Schedulers : \A m \in inflight[s] :
        m \in Job /\ m.id \in Jobs /\ submitted[m.id] # NoJob
  BY <1>m, ReleasedMembers
<1>1. ASSUME NEW s \in Schedulers, NEW m \in inflight'[s]
      PROVE  m = submitted'[m.id] /\ response'[m.id] = "waiting"
  <2>1. CASE UNCHANGED <<inflight, response, submitted>>
    BY <1>1, <2>1 DEF RequestsApart
  <2>2. ASSUME NEW t \in Schedulers, NEW j \in Jobs, NEW req \in Requests,
               ScheduleJob(t, j, req)
        PROVE  m = submitted'[m.id] /\ response'[m.id] = "waiting"
    <3>1. NewJob(j, req) \in Job /\ NewJob(j, req).id = j
      BY NewJobType DEF NewJob
    <3>2. CASE m \in inflight[s]
      <4>1. m.id # j
        BY <1>i, <2>2, <3>2 DEF ScheduleJob
      <4> QED
        BY <1>t, <2>2, <3>2, <4>1 DEF ScheduleJob, RequestsApart
    <3>3. CASE m \notin inflight[s]
      <4>1. /\ m = NewJob(j, req)
            /\ response' = [response EXCEPT ![j] = "waiting"]
        <5>1. PICK out \in Outcomes :
                /\ response' = [response EXCEPT
                       ![j] = IF out = "ok" THEN "waiting" ELSE "error"]
                /\ inflight' = IF out = "ok"
                       THEN [inflight EXCEPT ![t] = @ \cup {NewJob(j, req)}]
                       ELSE inflight
          BY <2>2 DEF ScheduleJob
        <5>2. out = "ok" /\ m = NewJob(j, req)
          BY <1>1, <3>3, <5>1 DEF TypeOK
        <5> QED
          BY <5>1, <5>2
      <4>2. submitted' = [submitted EXCEPT ![j] = NewJob(j, req)]
        BY <2>2 DEF ScheduleJob
      <4> QED
        BY <1>t, <3>1, <4>1, <4>2
    <3> QED
      BY <3>2, <3>3
  <2>3. ASSUME NEW t \in Schedulers, NEW job \in inflight[t], EnqueueJob(t, job)
        PROVE  m = submitted'[m.id] /\ response'[m.id] = "waiting"
    <3>1. m \in inflight[s] /\ (s = t => m # job)
      BY <1>1, <2>3 DEF EnqueueJob, TypeOK
    <3>2. m.id # job.id
      BY <3>1 DEF RequestsApart
    <3> QED
      BY <1>t, <2>3, <3>1, <3>2 DEF EnqueueJob, RequestsApart
  <2>4. ASSUME NEW t \in Schedulers, EndScheduler(t)
        PROVE  m = submitted'[m.id] /\ response'[m.id] = "waiting"
    BY <1>1, <2>4 DEF EndScheduler, TypeOK, RequestsApart
  <2> QED
    BY <2>1, <2>2, <2>3, <2>4, RequestsChange
<1>2. ASSUME NEW s \in Schedulers, NEW t \in Schedulers,
             NEW m \in inflight'[s], NEW n \in inflight'[t], m.id = n.id
      PROVE  s = t
  <2>1. CASE m \in inflight[s] /\ n \in inflight[t]
    BY <1>2, <2>1 DEF RequestsApart
  <2>2. ASSUME NEW u \in Schedulers, NEW j \in Jobs, NEW req \in Requests,
               ScheduleJob(u, j, req)
        PROVE  s = t
    <3>1. NewJob(j, req).id = j
      BY DEF NewJob
    <3>2. /\ \A k \in inflight[s] : k.id # j
          /\ \A k \in inflight[t] : k.id # j
      BY <1>i, <2>2 DEF ScheduleJob
    <3>3. /\ m \in inflight[s] \/ (s = u /\ m = NewJob(j, req))
          /\ n \in inflight[t] \/ (t = u /\ n = NewJob(j, req))
      BY <1>2, <2>2 DEF ScheduleJob, TypeOK
    <3> QED
      BY <1>2, <2>1, <3>1, <3>2, <3>3
  <2> QED
    BY <2>1, <2>2, RequestFlow
<1>3. ASSUME NEW m \in Released'
      PROVE  response'[m.id] # "waiting"
  <2>1. CASE m \in Released
    <3>1. CASE UNCHANGED response
      BY <2>1, <3>1 DEF RequestsApart
    <3>2. ASSUME NEW t \in Schedulers, NEW j \in Jobs, NEW req \in Requests,
                 ScheduleJob(t, j, req)
          PROVE  response'[m.id] # "waiting"
      <4>1. m.id # j
        BY <1>r, <2>1, <3>2 DEF ScheduleJob
      <4>2. response'[m.id] = response[m.id]
        BY <1>t, <1>r, <2>1, <3>2, <4>1 DEF ScheduleJob
      <4> QED
        BY <2>1, <4>2 DEF RequestsApart
    <3>3. ASSUME NEW t \in Schedulers, NEW job \in inflight[t],
                 EnqueueJob(t, job)
          PROVE  response'[m.id] # "waiting"
      BY <1>r, <1>t, <2>1, <3>3 DEF EnqueueJob, RequestsApart
    <3>4. ASSUME NEW t \in Schedulers, EndScheduler(t)
          PROVE  UNCHANGED response
      BY <3>4 DEF EndScheduler
    <3> QED
      BY <3>1, <3>2, <3>3, <3>4, RequestsChange
  <2>2. ASSUME NEW s \in Schedulers, m \in inflight[s], EnqueueJob(s, m)
        PROVE  response'[m.id] # "waiting"
    BY <1>i, <1>t, <2>2 DEF EnqueueJob
  <2>3. ASSUME NEW w \in Slots, pc[w] # "idle", Made(w, m)
        PROVE  response'[m.id] # "waiting"
    <3>1. m.id = held[w].id /\ held[w] \in Released
      BY <2>3, MadeIdentity, ReleasedMembers
    <3>2. response' = response
      BY <2>3
      DEF Made, StartJob, HandlerFails, HandleJobSuccess, SaveOutcome,
          RetryJob, BuryJob, schedulerVars
    <3> QED
      BY <3>1, <3>2 DEF RequestsApart
  <2> QED
    BY <1>3, <2>1, <2>2, <2>3, ReleasedFlow
<1>4. ASSUME NEW j \in Jobs, submitted'[j] = NoJob
      PROVE  ~Saved(j)' /\ effects'[j] = 0
  <2>1. submitted[j] = NoJob
    BY <1>4, Kept
  <2>2. ~Saved(j) /\ effects[j] = 0
    BY <2>1 DEF RequestsApart
  <2>3. \A w \in Slots : pc[w] # "idle" =>
          held[w] \in Job /\ held[w].id \in Jobs /\ held[w].id # j
    BY <1>m, <2>1 DEF Messages, HeldMessages
  <2>4. effects'[j] = 0
    <3>1. ASSUME NEW w \in Slots, HandlerSucceeds(w)
          PROVE  effects'[j] = effects[j]
      BY <2>3, <3>1 DEF HandlerSucceeds, TypeOK
    <3> QED
      BY <2>2, <3>1, TalliesChange
  <2>5. jobs'[j] = jobs[j]
    <3>1. ASSUME NEW s \in Schedulers, NEW req \in Requests,
                 ScheduleJob(s, j, req)
          PROVE  FALSE
      BY <1>4, <1>t, <3>1, NewJobType, NoJobAssumption DEF ScheduleJob
    <3> QED
      BY <2>3, <3>1, RowFlow
  <2> QED
    BY <2>2, <2>4, <2>5 DEF Saved
<1> QED
  BY <1>1, <1>2, <1>3, <1>4 DEF RequestsApart

-----------------------------------------------------------------------------
(***************************************************************************)
(* Runs and their numbers.                                                 *)
(***************************************************************************)

\* A goroutine at one of these steps has begun a run and not recorded it.
InRun == {"executing", "failed", "succeeded", "requeued", "record"}

(***************************************************************************)
(* ProcessedAt tells runs apart: no message and no history row is from a   *)
(* run that has not begun, no two goroutines are in the same run, nor is   *)
(* any in a run that is recorded already, and what waits to be run is not  *)
(* from the run in which a handler is still working.                       *)
(***************************************************************************)
RunsNumbered ==
  /\ \A m \in Messages : m.run <= starts[m.id]
  /\ \A w \in Slots : pc[w] \in {"executing", "failed"} =>
       \A m \in Waiting : m.id = held[w].id => m.run # held[w].run
  /\ \A v, w \in Slots :
       v # w /\ pc[v] \in InRun /\ pc[w] \in InRun /\ held[v].id = held[w].id
         => held[v].run # held[w].run
  /\ \A j \in Jobs : \A h \in history[j] :
       /\ h.run <= starts[j]
       /\ \A w \in Slots : pc[w] \in InRun /\ held[w].id = j
                             => held[w].run # h.run

\* Only MarkAsProcessing gives a job a new run.
LEMMA MarkRuns ==
  ASSUME NEW job \in Job, NEW run \in Nat
  PROVE  /\ MarkAsProcessing(job, run).run = run
         /\ MarkAsCompleted(job).run = job.run
         /\ MarkAsFailed(job).run = job.run
         /\ MarkForRetry(job).run = job.run
         /\ MarkAsDead(job).run = job.run
BY DEF Job, MarkAsProcessing, MarkAsCompleted, MarkAsFailed, MarkForRetry,
       MarkAsDead

\* What StartJob does to its goroutine.
LEMMA StartStep ==
  ASSUME TypeOK, NEW w \in Slots, StartJob(w)
  PROVE  /\ pc[w] = "dequeued" /\ held[w] \in Job /\ held[w].id \in Jobs
         /\ starts' = [starts EXCEPT ![held[w].id] = starts[held[w].id] + 1]
         /\ \/ pc'[w] = "idle"
            \/ /\ pc'[w] = "executing"
               /\ held'[w] = MarkAsProcessing(held[w], starts[held[w].id] + 1)
               /\ held'[w] \in Job
               /\ held'[w].id = held[w].id
               /\ held'[w].run = starts[held[w].id] + 1
               /\ held'[w].attempts = held[w].attempts
               /\ held'[w].max = held[w].max
               /\ attempt'[w] = held[w].attempts + 1
<1> DEFINE run == starts[held[w].id] + 1
           job == MarkAsProcessing(held[w], run)
<1>1. pc[w] = "dequeued" /\ held[w] \in Job /\ held[w].id \in Jobs
  BY DEF StartJob, TypeOK, Job
<1>2. run \in Nat
  BY <1>1 DEF TypeOK
<1> HIDE DEF run
<1>3. /\ job \in Job /\ job.id = held[w].id /\ job.run = run
      /\ job.attempts = held[w].attempts /\ job.max = held[w].max
  BY <1>1, <1>2, MarkTypes, MarkRuns, MarkAttempts
<1> HIDE DEF job
<1>4. /\ starts' = [starts EXCEPT ![job.id] = run]
      /\ \/ /\ Goto(w, "executing")
            /\ held' = [held EXCEPT ![w] = job]
            /\ attempt' = [attempt EXCEPT ![w] = AttemptNumber(job)]
         \/ Release(w)
  BY DEF StartJob, job, run
<1>5. \/ pc'[w] = "idle"
      \/ /\ pc'[w] = "executing" /\ held'[w] = job
         /\ attempt'[w] = held[w].attempts + 1
  BY <1>3, <1>4 DEF TypeOK, Goto, Release, AttemptNumber
<1> QED
  BY <1>1, <1>3, <1>4, <1>5 DEF job, run

\* A goroutine in a run has just begun it, or was in the same run before.
LEMMA RunFlow ==
  ASSUME TypeOK, [Next]_vars, NEW w \in Slots, pc'[w] \in InRun
  PROVE  \/ /\ pc[w] \in InRun
            /\ held'[w].id = held[w].id
            /\ held'[w].run = held[w].run
            /\ attempt'[w] = attempt[w]
            /\ pc'[w] \in {"executing", "failed"} =>
                 pc[w] \in {"executing", "failed"}
         \/ StartJob(w) /\ pc'[w] = "executing"
<1>h. pc[w] # "idle" => held[w] \in Job
  BY DEF TypeOK
<1>0. 1 \in Nat
  OBVIOUS
<1>1. CASE ProcessNextJob(w)
  BY <1>1 DEF TypeOK, ProcessNextJob, Goto, InRun
<1>2. CASE StartJob(w)
  BY <1>2, StartStep DEF InRun
<1>3. CASE HandlerSucceeds(w)
  BY <1>3 DEF TypeOK, HandlerSucceeds, Goto, InRun
<1>4. CASE HandlerFails(w)
  <2>1. /\ MarkAsFailed(held[w]).id = held[w].id
        /\ MarkAsFailed(held[w]).run = held[w].run
    BY <1>0, <1>4, <1>h, MarkTypes, MarkRuns DEF HandlerFails
  <2> QED
    BY <1>4, <2>1 DEF TypeOK, HandlerFails, InRun
<1>5. ASSUME NEW job, SaveOutcome(w, job), job.id = held[w].id,
             job.run = held[w].run, pc[w] \in {"succeeded", "requeued"}
      PROVE  /\ pc[w] \in InRun
             /\ held'[w].id = held[w].id
             /\ held'[w].run = held[w].run
             /\ attempt'[w] = attempt[w]
             /\ pc'[w] \notin {"executing", "failed"}
  BY <1>5 DEF TypeOK, SaveOutcome, Goto, InRun
<1>6. CASE HandleJobSuccess(w)
  <2>1. /\ MarkAsCompleted(held[w]).id = held[w].id
        /\ MarkAsCompleted(held[w]).run = held[w].run
    BY <1>0, <1>6, <1>h, MarkTypes, MarkRuns DEF HandleJobSuccess
  <2> QED
    BY <1>5, <1>6, <2>1 DEF HandleJobSuccess
<1>7. CASE UpdateFailedJob(w)
  BY <1>5, <1>7 DEF UpdateFailedJob
<1>8. CASE RetryJob(w)
  <2>1. /\ MarkForRetry(held[w]).id = held[w].id
        /\ MarkForRetry(held[w]).run = held[w].run
    BY <1>0, <1>8, <1>h, MarkTypes, MarkRuns DEF RetryJob
  <2> QED
    BY <1>8, <2>1 DEF TypeOK, RetryJob, Goto, InRun
<1>9. CASE BuryJob(w)
  <2>1. /\ MarkAsDead(held[w]).id = held[w].id
        /\ MarkAsDead(held[w]).run = held[w].run
    BY <1>0, <1>9, <1>h, MarkTypes, MarkRuns DEF BuryJob
  <2> QED
    BY <1>9, <2>1 DEF TypeOK, BuryJob, Goto, InRun
<1>10. CASE RecordHistory(w)
  BY <1>10 DEF TypeOK, RecordHistory, Release, Goto, InRun
<1>11. ASSUME NEW v \in Slots, ProcessJobs(v), v # w
       PROVE  attempt'[w] = attempt[w]
  BY <1>11
  DEF TypeOK, ProcessJobs, ProcessNextJob, StartJob, HandlerSucceeds,
      HandlerFails, HandleJobSuccess, SaveOutcome, RetryJob, BuryJob,
      UpdateFailedJob, RecordHistory, Goto, Release
<1>12. ASSUME NEW p \in Workers, EndWorker(p)
       PROVE  attempt'[w] = attempt[w]
  BY <1>12 DEF EndWorker, InRun
<1>13. ASSUME \/ Request
              \/ \E s \in Schedulers : \/ Reply(s)
                                       \/ ProcessDelayedJobs(s)
                                       \/ ExitScheduler(s)
                                       \/ CrashScheduler(s)
              \/ \E p \in Processes : Shutdown(p)
              \/ Ripen
              \/ UNCHANGED vars
       PROVE  attempt' = attempt
  BY <1>13
  DEF Request, ScheduleJob, Reply, EnqueueJob, ProcessDelayedJobs, ReadRipe,
      PushRipe, RemoveRipe, ExitScheduler, CrashScheduler, EndScheduler,
      Shutdown, Ripen, vars, workerVars
<1>14. CASE ProcessJobs(w)
  BY <1>1, <1>2, <1>3, <1>4, <1>6, <1>7, <1>8, <1>9, <1>10, <1>14
  DEF ProcessJobs
<1>15. CASE ~ProcessJobs(w)
  <2>1. attempt'[w] = attempt[w]
    BY <1>11, <1>12, <1>13, <1>15 DEF Next, ExitWorker, CrashWorker
  <2> QED
    BY <1>15, <2>1, SlotOrigin DEF InRun
<1> QED
  BY <1>14, <1>15

\* Every step keeps runs and their numbers in order.
LEMMA RunsNumberedPreserved ==
  ASSUME TypeOK, PersistedFirst, AttemptsCounted, RequestsApart, RunsNumbered,
         [Next]_vars
  PROVE  RunsNumbered'
<1>t. /\ \A j \in Jobs : starts[j] \in Nat /\ starts'[j] \in Nat
      /\ \A j \in Jobs : starts'[j] >= starts[j]
      /\ \A m \in Job : m.id \in Jobs /\ m.run \in Nat
  BY TypesPreserved, Kept DEF TypeOK, Job
<1>m. \A m \in Messages : m \in Job /\ m.id \in Jobs /\ m.run <= starts[m.id]
  BY MessageType DEF RunsNumbered
<1>w. \A m \in Waiting : m \in Job /\ m.id \in Jobs /\ m.run <= starts[m.id]
  BY <1>m, ReleasedMembers
<1>h. ASSUME NEW w \in Slots, pc[w] # "idle"
      PROVE  /\ held[w] \in Job /\ held[w].id \in Jobs
             /\ held[w] \in Messages /\ held[w] \in Released
             /\ held[w].run <= starts[held[w].id]
  BY <1>h, <1>m, ReleasedMembers
<1>i. "idle" \notin InRun /\ {"executing", "failed"} \subseteq InRun
  BY DEF InRun
<1>s. ASSUME NEW w \in Slots, StartJob(w), pc'[w] = "executing"
      PROVE  /\ pc[w] = "dequeued" /\ held[w].id \in Jobs
             /\ held'[w].id = held[w].id
             /\ held'[w].run = starts[held[w].id] + 1
             /\ starts'[held[w].id] = starts[held[w].id] + 1
  BY <1>s, StartStep DEF TypeOK
<1>1. ASSUME NEW m \in Messages'
      PROVE  m.run <= starts'[m.id]
  <2>1. CASE m \in Messages
    BY <2>1, <1>m, <1>t
  <2>2. ASSUME NEW s \in Schedulers, NEW j \in Jobs, NEW req \in Requests,
               m = NewJob(j, req)
        PROVE  m.run <= starts'[m.id]
    BY <2>2, <1>t DEF NewJob
  <2>3. ASSUME NEW w \in Slots, pc[w] # "idle", Made(w, m)
        PROVE  m.run <= starts'[m.id]
    <3>1. held[w] \in Job /\ held[w].id \in Jobs /\ held[w].run <= starts[held[w].id]
      BY <2>3, <1>h
    <3>2. starts[held[w].id] + 1 \in Nat
      BY <3>1, <1>t
    <3>3. CASE m.run = held[w].run
      BY <2>3, <3>1, <3>3, <1>t, MadeIdentity
    <3>4. CASE StartJob(w) /\ m = MarkAsProcessing(held[w], starts[held[w].id] + 1)
      <4>1. m.run = starts[held[w].id] + 1 /\ m.id = held[w].id
        BY <3>1, <3>2, <3>4, MarkRuns, MarkTypes
      <4>2. starts'[held[w].id] = starts[held[w].id] + 1
        BY <3>1, <3>4, StartStep DEF TypeOK
      <4> QED
        BY <3>2, <4>1, <4>2
    <3> QED
      BY <2>3, <3>1, <3>2, <3>3, <3>4, MarkRuns DEF Made
  <2> QED
    BY <1>1, <2>1, <2>2, <2>3, MessageOrigin
<1>2. ASSUME NEW w \in Slots, pc'[w] \in {"executing", "failed"},
             NEW m \in Waiting', m.id = held'[w].id
      PROVE  m.run # held'[w].run
  <2>0. pc'[w] \in InRun
    BY <1>2, <1>i
  <2>1. CASE StartJob(w) /\ pc'[w] = "executing"
    <3>1. \A v \in Slots : ~RetryJob(v)
      BY <2>1 DEF StartJob, RetryJob, TypeOK, Goto, Release
    <3>2. \A s \in Schedulers : ~EnqueueJob(s, m)
      BY <2>1 DEF StartJob, EnqueueJob, TypeOK, Goto, workerVars
    <3>3. m \in Waiting
      BY <1>2, <3>1, <3>2, WaitingFlow
    <3> QED
      BY <1>2, <2>1, <3>3, <1>w, <1>s, <1>t
  <2>2. CASE /\ pc[w] \in {"executing", "failed"}
             /\ held'[w].id = held[w].id
             /\ held'[w].run = held[w].run
    <3>1. CASE m \in Waiting
      BY <1>2, <2>2, <3>1 DEF RunsNumbered
    <3>2. ASSUME NEW s \in Schedulers, m \in inflight[s]
          PROVE  FALSE
      <4>1. response[m.id] = "waiting"
        BY <3>2 DEF RequestsApart
      <4>2. held[w] \in Released
        BY <2>2, <1>h
      <4> QED
        BY <1>2, <2>2, <4>1, <4>2 DEF RequestsApart
    <3>3. ASSUME NEW v \in Slots, RetryJob(v), m = MarkForRetry(held[v])
          PROVE  m.run # held'[w].run
      <4>1. pc[v] = "failed" /\ pc'[v] = "requeued" /\ held[v] \in Job
        BY <3>3 DEF RetryJob, TypeOK, Goto
      <4>2. v # w
        BY <1>2, <4>1
      <4>3. m.run = held[v].run /\ m.id = held[v].id
        BY <3>3, <4>1, MarkRuns, MarkTypes, <1>t
      <4> QED
        BY <1>2, <1>i, <2>2, <4>1, <4>2, <4>3 DEF RunsNumbered
    <3> QED
      BY <1>2, <3>1, <3>2, <3>3, WaitingFlow
  <2> QED
    BY <1>2, <2>0, <2>1, <2>2, RunFlow
<1>3. ASSUME NEW v \in Slots, NEW w \in Slots, v # w, pc'[v] \in InRun,
             pc'[w] \in InRun, held'[v].id = held'[w].id
      PROVE  held'[v].run # held'[w].run
  <2>1. ASSUME NEW u \in Slots, NEW x \in Slots, u # x, StartJob(u)
        PROVE  ~StartJob(x)
    BY <2>1 DEF StartJob, TypeOK, Goto, Release
  <2>2. ASSUME NEW u \in Slots, NEW x \in Slots, u # x, StartJob(u),
               pc'[u] = "executing", pc[x] \in InRun, held'[x].id = held[x].id,
               held'[x].run = held[x].run, held'[x].id = held'[u].id
        PROVE  held'[x].run # held'[u].run
    <3>1. held[x].run <= starts[held[x].id] /\ held[x].run \in Nat
      BY <2>2, <1>h, <1>i, <1>t
    <3> QED
      BY <2>2, <3>1, <1>s, <1>t
  <2> QED
    BY <1>3, <2>1, <2>2, RunFlow DEF RunsNumbered
<1>4. ASSUME NEW j \in Jobs, NEW h \in history'[j]
      PROVE  /\ h.run <= starts'[j]
             /\ \A w \in Slots : pc'[w] \in InRun /\ held'[w].id = j
                                   => held'[w].run # h.run
  <2>1. CASE h \in history[j]
    <3>1. h.run <= starts[j] /\ h.run \in Nat
      BY <2>1 DEF RunsNumbered, TypeOK, StorageTypeOK, JobHistory
    <3>2. ASSUME NEW w \in Slots, pc'[w] \in InRun, held'[w].id = j
          PROVE  held'[w].run # h.run
      BY <2>1, <3>1, <3>2, <1>s, <1>t, RunFlow DEF RunsNumbered
    <3> QED
      BY <3>1, <3>2, <1>t
  <2>2. CASE h \notin history[j]
    <3>1. PICK w \in Slots : RecordHistory(w)
      BY <1>4, <2>2, TalliesChange
    <3>2. /\ pc[w] = "record" /\ pc'[w] = "idle"
          /\ held[w].id = j /\ h.run = held[w].run
      <4>1. /\ pc[w] = "record" /\ Release(w)
            /\ \E out \in Outcomes : SaveJobHistory(held[w].id,
                 [run     |-> held[w].run,
                  attempt |-> attempt[w],
                  status  |-> HistoryStatus(held[w])], out)
        BY <3>1 DEF RecordHistory
      <4>2. held[w].id = j /\ h = [run     |-> held[w].run,
                                   attempt |-> attempt[w],
                                   status  |-> HistoryStatus(held[w])]
        BY <1>4, <2>2, <4>1 DEF SaveJobHistory, TypeOK, StorageTypeOK
      <4> QED
        BY <4>1, <4>2 DEF Release, Goto, TypeOK
    <3>3. h.run <= starts'[j]
      BY <3>2, <1>h, <1>t
    <3>4. ASSUME NEW v \in Slots, pc'[v] \in InRun, held'[v].id = j
          PROVE  held'[v].run # h.run
      <4>1. v # w
        BY <3>2, <3>4, <1>i
      <4>2. pc'[v] = pc[v] /\ held'[v] = held[v]
        BY <3>1, <4>1 DEF RecordHistory, Release, Goto, TypeOK
      <4>3. pc[w] \in InRun
        BY <3>2 DEF InRun
      <4> QED
        BY <3>2, <3>4, <4>1, <4>2, <4>3 DEF RunsNumbered
    <3> QED
      BY <3>3, <3>4
  <2> QED
    BY <2>1, <2>2
<1> QED
  BY <1>1, <1>2, <1>3, <1>4 DEF RunsNumbered

\* In every reachable state requests are apart and runs in order.
THEOREM RunsInOrder == Spec => [](RequestsApart /\ RunsNumbered)
<1>1. Init => RequestsApart /\ RunsNumbered
  <2> SUFFICES ASSUME Init PROVE RequestsApart /\ RunsNumbered
    OBVIOUS
  <2>1. Messages = {} /\ Released = {} /\ Waiting = {}
    BY DEF Init, RedisInit, Messages, Queued, Buried, SchedulerMessages,
           HeldMessages, Range, Released, Waiting, PromoterMessages
  <2> QED
    BY <2>1
    DEF Init, StorageInit, RequestsApart, RunsNumbered, Saved, InRun
<1>2. /\ TypeOK /\ PersistedFirst /\ AttemptsCounted
      /\ RequestsApart /\ RunsNumbered
      /\ [Next]_vars
      => RequestsApart' /\ RunsNumbered'
  BY RequestsApartPreserved, RunsNumberedPreserved
<1> QED
  BY <1>1, <1>2, TypeCorrect, EveryMessageSaved, LedgerCorrect, PTL DEF Spec

-----------------------------------------------------------------------------
(***************************************************************************)
(* No job is forgotten.                                                    *)
(***************************************************************************)

\* A copy of the job is where somebody will work on it.
HasCopy(j) ==
  \/ \E s \in Schedulers : \E m \in inflight[s] : m.id = j
  \/ \E m \in Queued : m.id = j
  \/ \E m \in delayed : m.id = j /\ Unpushed(m)
  \/ \E w \in Slots : pc[w] \in Owning /\ held[w].id = j

\* That is to say that the job has a place.
LEMMA PlacesOfCopies ==
  ASSUME NEW j
  PROVE  Places(j) # {} <=> HasCopy(j)
<1>1. RequestPlaces(j) # {} <=>
        \E s \in Schedulers : \E m \in inflight[s] : m.id = j
  BY Zenon DEF RequestPlaces
<1>2. QueuePlaces(j) # {} <=> \E m \in Queued : m.id = j
  <2>1. \A p : ListPlaces(j, p) # {} <=>
                 \E i \in DOMAIN queues[p] : queues[p][i].id = j
    BY Zenon DEF ListPlaces
  <2>2. \A p : (\E m \in Range(queues[p]) : m.id = j) <=>
                  \E i \in DOMAIN queues[p] : queues[p][i].id = j
    BY Zenon DEF Range
  <2>3. QueuePlaces(j) # {} <=> \E p \in Priorities : ListPlaces(j, p) # {}
    BY Zenon DEF QueuePlaces
  <2>4. (\E m \in Queued : m.id = j) <=>
          \E p \in Priorities : \E m \in Range(queues[p]) : m.id = j
    BY Zenon DEF Queued
  <2> QED
    BY <2>1, <2>2, <2>3, <2>4
<1>3. DelayedPlaces(j) # {} <=> \E m \in delayed : m.id = j /\ Unpushed(m)
  BY Zenon DEF DelayedPlaces
<1>4. SlotPlaces(j) # {} <=> \E w \in Slots : pc[w] \in Owning /\ held[w].id = j
  BY Zenon DEF SlotPlaces
<1> QED
  BY <1>1, <1>2, <1>3, <1>4 DEF HasCopy, Places

\* What a call that is not carried out, or not answered, does to its job.
LEMMA CallHarm ==
  ASSUME TypeOK, NEW live, NEW id \in Jobs, NEW out, NEW ifFailed,
         NEW ifUnacked, Call(live, id, out, ifFailed, ifUnacked)
  PROVE  /\ damage'[id] = damage[id] \cup Harm(out, ifFailed, ifUnacked)
         /\ \A j \in Jobs : j # id => damage'[j] = damage[j]
BY DEF Call, TypeOK

\* The steps of requests and of the delayed-job loop forget no job.
LEMMA SchedulerForgetsNone ==
  ASSUME TypeOK, AttemptsCounted, RequestsApart, NEW j \in Jobs, HasCopy(j),
         "lost" \notin damage'[j],
         \/ \E s \in Schedulers, i \in Jobs, req \in Requests :
              ScheduleJob(s, i, req)
         \/ \E s \in Schedulers : \/ Reply(s)
                                  \/ ProcessDelayedJobs(s)
                                  \/ EndScheduler(s)
  PROVE  HasCopy(j)'
<1>t. /\ \A s \in Schedulers : inflight[s] \subseteq Job /\ batch[s] \subseteq Job
      /\ \A s \in Schedulers : moving[s] \subseteq Job
      /\ \A m \in Job : m.id \in Jobs
      /\ moving \in [Schedulers -> SUBSET Job]
      /\ inflight \in [Schedulers -> SUBSET Job]
      /\ RedisTypeOK
  BY DEF TypeOK, Job
<1>1. ASSUME NEW s \in Schedulers, NEW i \in Jobs, NEW req \in Requests,
             ScheduleJob(s, i, req)
      PROVE  HasCopy(j)'
  <2>1. \A u \in Schedulers : inflight[u] \subseteq inflight'[u]
    BY <1>1, <1>t DEF ScheduleJob
  <2> QED
    BY <1>1, <2>1
    DEF ScheduleJob, HasCopy, Unpushed, Queued, redisVars, promoterVars,
        workerVars
<1>2. ASSUME NEW s \in Schedulers, NEW job \in inflight[s], EnqueueJob(s, job)
      PROVE  HasCopy(j)'
  <2>1. PICK out \in PushOutcomes :
          /\ Call(TRUE, job.id, out, {"lost"}, {})
          /\ EnqueueDelayed(job, out) \/ Enqueue(job, out)
    BY <1>2 DEF EnqueueJob
  <2>2. job.id = j => out # "failed"
    <3>1. out = "failed" => "lost" \in damage'[job.id]
      BY <1>t, <2>1 DEF Call, Harm, TypeOK
    <3> QED
      BY <3>1
  <2>3. /\ inflight' = [inflight EXCEPT ![s] = inflight[s] \ {job}]
        /\ UNCHANGED <<moving, pc, held>>
    BY <1>2 DEF EnqueueJob, promoterVars, workerVars
  <2>4. Queued \subseteq Queued' /\ delayed \subseteq delayed'
    BY <1>t, <2>1, EnqueueAdds DEF Enqueue, EnqueueDelayed, Queued
  <2>5. CASE job.id # j
    <3>1. \A u \in Schedulers : \A m \in inflight[u] : m.id = j => m \in inflight'[u]
      BY <1>t, <2>3, <2>5
    <3> QED
      BY <2>3, <2>4, <3>1 DEF HasCopy, Unpushed
  <2>6. CASE job.id = j
    <3>1. CASE Enqueue(job, out)
      BY <1>t, <2>2, <2>6, <3>1, EnqueueAdds DEF HasCopy
    <3>2. CASE EnqueueDelayed(job, out)
      <4>1. job \in delayed'
        BY <2>2, <2>6, <3>2 DEF EnqueueDelayed, Applied
      <4>2. Unpushed(job)
        <5>1. SUFFICES ASSUME NEW u \in Schedulers, job \in moving[u]
                       PROVE  FALSE
          BY DEF Unpushed
        <5>2. job \in Released
          BY <5>1, ReleasedMembers
        <5> QED
          BY <5>2 DEF RequestsApart
      <4> QED
        BY <2>3, <2>6, <4>1, <4>2 DEF HasCopy, Unpushed
    <3> QED
      BY <2>1, <3>1, <3>2
  <2> QED
    BY <2>5, <2>6
<1>3. ASSUME NEW s \in Schedulers, ReadRipe(s)
      PROVE  HasCopy(j)'
  BY <1>3
  DEF ReadRipe, HasCopy, Unpushed, Queued, redisVars, schedulerVars, workerVars
<1>4. ASSUME NEW s \in Schedulers, NEW job \in batch[s], PushRipe(s, job)
      PROVE  HasCopy(j)'
  <2>1. PICK out \in PushOutcomes :
          /\ Enqueue(job, out)
          /\ moving' = IF Acknowledged(out) THEN [moving EXCEPT ![s] = {job}]
                                            ELSE moving
    BY <1>4 DEF PushRipe
  <2>2. /\ UNCHANGED <<inflight, delayed, pc, held>>
        /\ moving[s] = {}
    BY <1>4, <2>1 DEF PushRipe, Enqueue, schedulerVars, workerVars
  <2>3. Queued \subseteq Queued' /\ (out # "failed" => job \in Queued')
    BY <1>t, <2>1, EnqueueAdds
  <2>4. ASSUME NEW m \in delayed, m.id = j, Unpushed(m)
        PROVE  Unpushed(m)' \/ m \in Queued'
    BY <1>t, <2>1, <2>3, <2>4 DEF Unpushed, Acknowledged
  <2> QED
    BY <2>2, <2>3, <2>4 DEF HasCopy
<1>5. ASSUME NEW s \in Schedulers, NEW job \in moving[s], RemoveRipe(s, job)
      PROVE  HasCopy(j)'
  <2>1. /\ UNCHANGED <<inflight, queues, pc, held>>
        /\ moving' = [moving EXCEPT ![s] = {}]
        /\ delayed \subseteq delayed' \cup {job}
    BY <1>5 DEF RemoveRipe, RemoveDelayed, schedulerVars, workerVars
  <2>2. ASSUME NEW m \in delayed, Unpushed(m)
        PROVE  m \in delayed' /\ Unpushed(m)'
    BY <1>t, <2>1, <2>2 DEF Unpushed
  <2> QED
    BY <2>1, <2>2 DEF HasCopy, Queued
<1>6. ASSUME NEW s \in Schedulers, EndScheduler(s)
      PROVE  HasCopy(j)'
  <2>1. /\ UNCHANGED <<queues, delayed, pc, held>>
        /\ moving' = [moving EXCEPT ![s] = {}]
        /\ inflight' = [inflight EXCEPT ![s] = {}]
    BY <1>6 DEF EndScheduler, redisVars, workerVars
  <2>2. \A m \in inflight[s] : m.id # j
    BY <1>6 DEF EndScheduler
  <2>3. \A u \in Schedulers : \A m \in inflight[u] : m.id = j => m \in inflight'[u]
    BY <1>t, <2>1, <2>2
  <2>4. \A m : Unpushed(m) => Unpushed(m)'
    BY <1>t, <2>1 DEF Unpushed
  <2> QED
    BY <2>1, <2>3, <2>4 DEF HasCopy, Queued
<1> QED
  BY <1>1, <1>2, <1>3, <1>4, <1>5, <1>6 DEF Reply, ProcessDelayedJobs

\* The steps of the workers forget no job that they do not settle.
LEMMA WorkerForgetsNone ==
  ASSUME TypeOK, RequestsApart, RunsNumbered, NEW j \in Jobs, HasCopy(j),
         "lost" \notin damage'[j],
         \/ \E w \in Slots : ProcessJobs(w)
         \/ \E p \in Workers : EndWorker(p)
  PROVE  HasCopy(j)' \/ Settled(j)'
<1>h. ASSUME NEW w \in Slots, pc[w] # "idle"
      PROVE  held[w] \in Job /\ held[w].id \in Jobs
  BY <1>h DEF TypeOK, Job
\* A goroutine's own step leaves the copies of other goroutines alone.
<1>o. ASSUME NEW w \in Slots,
             UNCHANGED <<inflight, moving>>, Queued \subseteq Queued',
             delayed \subseteq delayed',
             \A v \in Slots : v # w => pc'[v] = pc[v] /\ held'[v] = held[v],
             pc[w] \in Owning /\ held[w].id = j => HasCopy(j)' \/ Settled(j)'
      PROVE  HasCopy(j)' \/ Settled(j)'
  BY <1>o DEF HasCopy, Unpushed
<1>1. ASSUME NEW w \in Slots, ProcessNextJob(w)
      PROVE  HasCopy(j)'
  <2>1. PICK i \in DOMAIN DequeueOrder :
          /\ Dequeue(i)
          /\ \/ /\ Call(TRUE, NextIn(i).id, "ok", {}, {})
                /\ Goto(w, "dequeued")
                /\ held' = [held EXCEPT ![w] = NextIn(i)]
             \/ /\ Call(TRUE, NextIn(i).id, "unacked", {}, {"lost"})
                /\ UNCHANGED <<pc, held>>
    BY <1>1 DEF ProcessNextJob
  <2>2. /\ NextIn(i) \in Job /\ NextIn(i).id \in Jobs
        /\ Queued \subseteq Queued' \cup {NextIn(i)}
    BY <2>1, DequeueTypes, DequeueKeeps DEF TypeOK, Job
  <2>3. UNCHANGED <<inflight, moving, delayed>> /\ pc[w] = "idle"
    BY <1>1, <2>1 DEF ProcessNextJob, Dequeue, schedulerVars, promoterVars
  <2>4. CASE /\ Call(TRUE, NextIn(i).id, "unacked", {}, {"lost"})
             /\ UNCHANGED <<pc, held>>
    <3>1. NextIn(i).id # j
      BY <2>2, <2>4 DEF Call, Harm, TypeOK
    <3> QED
      BY <2>2, <2>3, <2>4, <3>1 DEF HasCopy, Unpushed
  <2>5. CASE /\ Goto(w, "dequeued")
             /\ held' = [held EXCEPT ![w] = NextIn(i)]
    <3>1. pc'[w] \in Owning /\ held'[w] = NextIn(i)
      BY <2>5 DEF TypeOK, Goto, Owning
    <3>2. \A v \in Slots : v # w => pc'[v] = pc[v] /\ held'[v] = held[v]
      BY <2>5 DEF TypeOK, Goto
    <3>3. pc[w] \notin Owning
      BY <2>3 DEF Owning
    <3>4. ASSUME NEW m \in Queued, m.id = j
          PROVE  m \in Queued' \/ (pc'[w] \in Owning /\ held'[w].id = j)
      BY <2>2, <3>1, <3>4
    <3> QED
      BY <2>3, <3>2, <3>3, <3>4 DEF HasCopy, Unpushed
  <2> QED
    BY <2>1, <2>4, <2>5
<1>2. ASSUME NEW w \in Slots, StartJob(w)
      PROVE  HasCopy(j)' \/ Settled(j)'
  <2>1. UNCHANGED <<inflight, moving, queues, delayed>>
    BY <1>2 DEF StartJob, redisVars, schedulerVars, promoterVars
  <2>2. \A v \in Slots : v # w => pc'[v] = pc[v] /\ held'[v] = held[v]
    BY <1>2 DEF TypeOK, StartJob, Goto, Release
  <2>3. CASE pc'[w] = "executing"
    <3>1. held'[w].id = held[w].id
      BY <1>2, <2>3, StartStep
    <3> QED
      BY <1>o, <2>1, <2>2, <2>3, <3>1 DEF HasCopy, Owning, Queued
  <2>4. CASE pc'[w] # "executing"
    <3> DEFINE job == MarkAsProcessing(held[w], starts[held[w].id] + 1)
    <3>0. held[w] \in Job /\ starts[held[w].id] + 1 \in Nat
      BY <1>2, StartStep DEF TypeOK
    <3>1. job.id = held[w].id /\ held[w].id \in Jobs
      BY <1>2, <3>0, StartStep, MarkTypes
    <3>2. PICK out \in Outcomes :
            /\ Call(Live(ProcessOf(w)), job.id, out, {"lost"}, {"lost"})
            /\ out = "ok" => Goto(w, "executing")
      BY <1>2 DEF StartJob
    <3> HIDE DEF job
    <3>3. out \in {"failed", "unacked"}
      BY <2>4, <3>2 DEF Outcomes, Goto, TypeOK
    <3>4. "lost" \in damage'[held[w].id]
      BY <3>1, <3>2, <3>3, CallHarm DEF Harm
    <3> QED
      BY <1>o, <2>1, <2>2, <3>4 DEF Queued
  <2> QED
    BY <2>3, <2>4
<1>3. ASSUME NEW w \in Slots, HandlerSucceeds(w)
      PROVE  HasCopy(j)' \/ Settled(j)'
  <2>1. /\ UNCHANGED <<inflight, moving, queues, delayed, held>>
        /\ \A v \in Slots : v # w => pc'[v] = pc[v]
        /\ pc[w] # "idle"
    BY <1>3
    DEF TypeOK, HandlerSucceeds, Goto, redisVars, schedulerVars, promoterVars
  <2>2. held[w].id = j => effects'[j] > 0
    BY <1>3, <2>1, <1>h DEF TypeOK, HandlerSucceeds
  <2> QED
    BY <1>o, <2>1, <2>2 DEF Settled, Queued
<1>4. ASSUME NEW w \in Slots, HandlerFails(w)
      PROVE  HasCopy(j)' \/ Settled(j)'
  <2>1. /\ UNCHANGED <<inflight, moving, queues, delayed>>
        /\ \A v \in Slots : v # w => pc'[v] = pc[v] /\ held'[v] = held[v]
        /\ pc[w] # "idle" /\ pc'[w] = "failed"
        /\ held'[w] = MarkAsFailed(held[w])
    BY <1>4
    DEF TypeOK, HandlerFails, Goto, redisVars, schedulerVars, promoterVars
  <2>2. held'[w].id = held[w].id
    BY <2>1, <1>h, MarkTypes
  <2> QED
    BY <1>o, <2>1, <2>2 DEF HasCopy, Owning, Queued
<1>5. ASSUME NEW w \in Slots,
             HandleJobSuccess(w) \/ UpdateFailedJob(w) \/ RecordHistory(w)
      PROVE  HasCopy(j)' \/ Settled(j)'
  <2>1. /\ UNCHANGED <<inflight, moving, queues, delayed>>
        /\ \A v \in Slots : v # w => pc'[v] = pc[v] /\ held'[v] = held[v]
        /\ pc[w] \notin Owning
    BY <1>5
    DEF TypeOK, HandleJobSuccess, UpdateFailedJob, SaveOutcome, RecordHistory,
        Release, Goto, redisVars, schedulerVars, promoterVars, Owning
  <2> QED
    BY <1>o, <2>1 DEF Queued
<1>6. ASSUME NEW w \in Slots, RetryJob(w)
      PROVE  HasCopy(j)' \/ Settled(j)'
  <2> DEFINE job == MarkForRetry(held[w])
  <2>1. held[w] \in Job /\ held[w].id \in Jobs /\ pc[w] = "failed"
    BY <1>6, <1>h DEF RetryJob
  <2>2. job.id = held[w].id /\ job.run = held[w].run
    BY <2>1, MarkTypes, MarkRuns
  <2>3. PICK out \in Outcomes :
          /\ Call(Live(ProcessOf(w)), job.id, out, {"lost"}, {})
          /\ EnqueueDelayed(job, out)
    BY <1>6 DEF RetryJob
  <2> HIDE DEF job
  <2>4. /\ UNCHANGED <<inflight, moving, queues>> /\ delayed \subseteq delayed'
        /\ \A v \in Slots : v # w => pc'[v] = pc[v] /\ held'[v] = held[v]
    BY <1>6, <2>3
    DEF TypeOK, RetryJob, EnqueueDelayed, Goto, schedulerVars, promoterVars
  <2>5. ASSUME held[w].id = j
        PROVE  HasCopy(j)'
    <3>1. out # "failed"
      BY <2>1, <2>2, <2>3, <2>5, CallHarm DEF Harm
    <3>2. job \in delayed'
      BY <2>3, <3>1 DEF EnqueueDelayed, Applied
    <3>3. Unpushed(job)
      BY <2>1, <2>2, ReleasedMembers DEF Unpushed, RunsNumbered
    <3> QED
      BY <2>2, <2>4, <2>5, <3>2, <3>3 DEF HasCopy, Unpushed
  <2> QED
    BY <1>o, <2>4, <2>5 DEF Queued
<1>7. ASSUME NEW w \in Slots, BuryJob(w)
      PROVE  HasCopy(j)' \/ Settled(j)'
  <2> DEFINE job == MarkAsDead(held[w])
  <2>1. held[w] \in Job /\ held[w].id \in Jobs
    BY <1>7, <1>h DEF BuryJob
  <2>2. job \in Job /\ job.id = held[w].id
    BY <2>1, MarkTypes
  <2>3. PICK out \in PushOutcomes :
          /\ Call(Live(ProcessOf(w)), job.id, out, {"lost"}, {})
          /\ MoveToDeadLetter(job, out)
    BY <1>7 DEF BuryJob
  <2> HIDE DEF job
  <2>4. /\ UNCHANGED <<inflight, moving, queues, delayed>>
        /\ \A v \in Slots : v # w => pc'[v] = pc[v] /\ held'[v] = held[v]
    BY <1>7, <2>3
    DEF TypeOK, BuryJob, MoveToDeadLetter, Goto, schedulerVars, promoterVars
  <2>5. ASSUME held[w].id = j
        PROVE  Settled(j)'
    <3>1. out # "failed"
      BY <2>1, <2>2, <2>3, <2>5, CallHarm DEF Harm
    <3>2. job \in Buried'
      BY <2>2, <2>3, <3>1, RangePushed
      DEF TypeOK, RedisTypeOK, MoveToDeadLetter, Buried
    <3> QED
      BY <2>2, <2>5, <3>2 DEF Settled, IsBuried
  <2> QED
    BY <1>o, <2>4, <2>5 DEF Queued
<1>8. ASSUME NEW p \in Workers, EndWorker(p)
      PROVE  HasCopy(j)'
  <2>1. UNCHANGED <<inflight, moving, queues, delayed>>
    BY <1>8 DEF EndWorker, redisVars, schedulerVars, promoterVars
  <2>2. ASSUME NEW w \in Slots, pc[w] \in Owning, held[w].id = j
        PROVE  pc'[w] = pc[w] /\ held'[w] = held[w]
    <3>1. CASE ProcessOf(w) = p
      <4>1. HarmAt(pc[w]) = {"lost"} /\ pc[w] # "idle"
        BY <2>2 DEF HarmAt, Owning
      <4>2. HarmAt(pc[w]) \subseteq damage'[j]
        BY <1>8, <2>2, <3>1, <4>1 DEF EndWorker
      <4> QED
        BY <4>1, <4>2
    <3>2. CASE ProcessOf(w) # p
      BY <1>8, <3>2 DEF EndWorker
    <3> QED
      BY <3>1, <3>2
  <2> QED
    BY <2>1, <2>2 DEF HasCopy, Unpushed, Queued
<1> QED
  BY <1>1, <1>2, <1>3, <1>4, <1>5, <1>6, <1>7, <1>8 DEF ProcessJobs

(***************************************************************************)
(* No job is forgotten, in any system, with any number of scheduler        *)
(* processes and through any faults: ScheduleJob, the delayed-job loop and *)
(* ProcessJob have always put the next copy of a job somewhere before they *)
(* drop the one they have, apart from the steps that set "lost".           *)
(***************************************************************************)
THEOREM NoJobForgotten == Spec => []NoneForgotten
<1> DEFINE Inv == \A j \in Jobs : Saved(j) /\ "lost" \notin damage[j]
                                    => HasCopy(j) \/ Settled(j)
<1>1. Init => Inv
  BY DEF Init, StorageInit, Saved
<1>2. TypeOK /\ PersistedFirst /\ AttemptsCounted /\ RequestsApart
        /\ RunsNumbered /\ Inv /\ [Next]_vars
      => Inv'
  <2> SUFFICES ASSUME TypeOK, PersistedFirst, AttemptsCounted, RequestsApart,
                      RunsNumbered, Inv, [Next]_vars, NEW j \in Jobs,
                      Saved(j)', "lost" \notin damage'[j]
               PROVE  HasCopy(j)' \/ Settled(j)'
    OBVIOUS
  <2>1. "lost" \notin damage[j] /\ (Settled(j) => Settled(j)')
    <3>1. /\ effects[j] \in Nat /\ effects'[j] \in Nat
          /\ effects'[j] >= effects[j]
          /\ damage[j] \subseteq damage'[j]
          /\ Buried \subseteq Buried'
      BY Kept, TypesPreserved DEF TypeOK
    <3> QED
      BY <3>1 DEF Settled, IsBuried
  <2>2. CASE ~Saved(j)
    <3>1. jobs'[j] # jobs[j]
      BY <2>2 DEF Saved
    <3>2. \A w \in Slots : pc[w] # "idle" => held[w].id # j
      BY <2>2 DEF PersistedFirst, Messages, HeldMessages
    <3>3. PICK s \in Schedulers, req \in Requests : ScheduleJob(s, j, req)
      BY <3>1, <3>2, RowFlow
    <3> DEFINE job == NewJob(j, req)
    <3>4. job.id = j
      BY DEF NewJob
    <3>5. PICK out \in Outcomes :
            /\ Call(TRUE, j, out, {}, {"lost"})
            /\ SaveJob(job, out)
            /\ inflight' = IF out = "ok"
                           THEN [inflight EXCEPT ![s] = @ \cup {job}]
                           ELSE inflight
      BY <3>3 DEF ScheduleJob
    <3> HIDE DEF job
    <3>6. out # "failed"
      BY <3>1, <3>5 DEF SaveJob, Save, Applied
    <3>7. out # "unacked"
      BY <3>5 DEF Call, Harm, TypeOK
    <3>8. job \in inflight'[s]
      BY <3>5, <3>6, <3>7 DEF Outcomes, TypeOK
    <3> QED
      BY <3>4, <3>8 DEF HasCopy
  <2>3. CASE Saved(j) /\ HasCopy(j)
    <3>1. CASE \/ Ripen
               \/ \E p \in Processes : Shutdown(p)
               \/ UNCHANGED vars
      BY <2>3, <3>1
      DEF Ripen, TimePasses, Shutdown, vars, redisVars, schedulerVars,
          promoterVars, workerVars, HasCopy, Unpushed, Queued
    <3> QED
      BY <2>3, <3>1, SchedulerForgetsNone, WorkerForgetsNone
      DEF Next, Request, ExitScheduler, CrashScheduler, ExitWorker, CrashWorker
  <2> QED
    BY <2>1, <2>2, <2>3
<1>3. Inv => NoneForgotten
  BY PlacesOfCopies DEF NoneForgotten
<1> QED
  BY <1>1, <1>2, <1>3, TypeCorrect, EveryMessageSaved, LedgerCorrect,
     RunsInOrder, PTL DEF Spec
==============================================================================
