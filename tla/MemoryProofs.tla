----------------------------- MODULE MemoryProofs ----------------------------
(***************************************************************************)
(* Proofs about the services on the in-memory adapters, for any number of  *)
(* jobs and goroutines and any orders.                                     *)
(***************************************************************************)
EXTENDS MemoryService, FiniteSetTheorems, TLAPS

-----------------------------------------------------------------------------
(***************************************************************************)
(* Lists and jobs.                                                         *)
(***************************************************************************)

\* A list over some ids is one over more ids.
LEMMA SeqWider ==
  ASSUME NEW S, NEW T, S \subseteq T, NEW s \in Seq(S)
  PROVE  s \in Seq(T)
OBVIOUS

\* Where the elements of two lists put together come from.
LEMMA ConcatAt ==
  ASSUME NEW S, NEW s \in Seq(S), NEW t \in Seq(S), NEW i \in DOMAIN (s \o t)
  PROVE  \/ i \in DOMAIN s /\ (s \o t)[i] = s[i]
         \/ /\ i - Len(s) \in DOMAIN t
            /\ (s \o t)[i] = t[i - Len(s)]
OBVIOUS

\* ScheduleJob builds a well-formed job, whose priority has a queue.
LEMMA NewJobType ==
  ASSUME NEW j \in Jobs, NEW order \in Orders
  PROVE  LET job == NewJob(j, order.request)
         IN  /\ job \in Job /\ job.id = j /\ job.priority \in QueueKeys
             /\ job.status \in {"pending", "scheduled"}
<1> DEFINE req == order.request
<1>1. req \in Requests
  BY DEF Requests
<1>2. req \in ScheduleJobRequest
  BY <1>1, OrdersAssumption
<1>3. NewJob(j, req) \in Job
  <2>1. (IF req.policy = NoPolicy THEN NewRetryPolicy ELSE req.policy)
          \in RetryPolicies
    BY <1>2, DefaultMaxRetriesAssumption
    DEF ScheduleJobRequest, RetryPolicies, NewRetryPolicy
  <2> QED
    BY <1>2, <2>1
    DEF NewJob, Job, ScheduleJobRequest, RetryPolicies, PriorityMedium, Statuses
<1>4. NewJob(j, req).priority \in QueueKeys
  BY <1>1 DEF QueueKeys
<1>5. NewJob(j, req).id = j /\ NewJob(j, req).status \in {"pending", "scheduled"}
  BY DEF NewJob
<1> QED
  BY <1>3, <1>4, <1>5

\* A job record that differs from another in status, attempts and run only.
Alike(new, job) ==
  /\ new \in Job /\ new.id = job.id /\ new.type = job.type
  /\ new.priority = job.priority /\ new.max = job.max

\* The status changes of domain/job.go touch no more than they say.
LEMMA MarkFields ==
  ASSUME NEW job \in Job, NEW run \in Nat
  PROVE  /\ Alike(MarkAsProcessing(job, run), job)
         /\ MarkAsProcessing(job, run).status = "processing"
         /\ MarkAsProcessing(job, run).attempts = job.attempts
         /\ Alike(MarkAsCompleted(job), job)
         /\ MarkAsCompleted(job).status = "completed"
         /\ MarkAsCompleted(job).attempts = job.attempts
         /\ Alike(MarkAsFailed(job), job)
         /\ MarkAsFailed(job).status = "failed"
         /\ MarkAsFailed(job).attempts = job.attempts + 1
         /\ Alike(MarkForRetry(job), job)
         /\ MarkForRetry(job).status = "scheduled"
         /\ MarkForRetry(job).attempts = job.attempts
         /\ Alike(MarkAsDead(job), job)
         /\ MarkAsDead(job).status = "dead"
         /\ MarkAsDead(job).attempts = job.attempts
         /\ Alike([job EXCEPT !.status = "pending"], job)
         /\ [job EXCEPT !.status = "pending"].status = "pending"
         /\ [job EXCEPT !.status = "pending"].attempts = job.attempts
<1> USE DEF Job, Statuses, Alike
<1>1. /\ Alike(MarkAsProcessing(job, run), job)
      /\ MarkAsProcessing(job, run).status = "processing"
      /\ MarkAsProcessing(job, run).attempts = job.attempts
  BY DEF MarkAsProcessing
<1>2. /\ Alike(MarkAsCompleted(job), job)
      /\ MarkAsCompleted(job).status = "completed"
      /\ MarkAsCompleted(job).attempts = job.attempts
  BY DEF MarkAsCompleted
<1>3. /\ Alike(MarkAsFailed(job), job)
      /\ MarkAsFailed(job).status = "failed"
      /\ MarkAsFailed(job).attempts = job.attempts + 1
  <2>1. job.attempts \in Int /\ job.attempts + 1 \in Int
    OBVIOUS
  <2>2. MarkAsFailed(job) \in Job
    BY <2>1 DEF MarkAsFailed
  <2> QED
    BY <2>1, <2>2 DEF MarkAsFailed
<1>4. /\ Alike(MarkForRetry(job), job)
      /\ MarkForRetry(job).status = "scheduled"
      /\ MarkForRetry(job).attempts = job.attempts
  BY DEF MarkForRetry
<1>5. /\ Alike(MarkAsDead(job), job)
      /\ MarkAsDead(job).status = "dead"
      /\ MarkAsDead(job).attempts = job.attempts
  BY DEF MarkAsDead
<1>6. /\ Alike([job EXCEPT !.status = "pending"], job)
      /\ [job EXCEPT !.status = "pending"].status = "pending"
      /\ [job EXCEPT !.status = "pending"].attempts = job.attempts
  OBVIOUS
<1> HIDE DEF Job, Statuses, Alike
<1> QED
  BY <1>1, <1>2, <1>3, <1>4, <1>5, <1>6

\* ProcessDelayedJobs puts each job that is due into one place of its queue.
LEMMA ReadyLists ==
  ASSUME IsFiniteSet(due), NEW ready \in ReadyOrders, NEW p \in QueueKeys
  PROVE  /\ ready[p] \in Seq(DueAt(p))
         /\ \A i, k \in DOMAIN ready[p] : ready[p][i] = ready[p][k] => i = k
<1>1. IsFiniteSet(DueAt(p))
  BY FS_Subset DEF DueAt
<1>2. Cardinality(DueAt(p)) \in Nat
  BY <1>1, FS_CardinalityType
<1>3. ready[p] \in SetToSeqs(DueAt(p))
  BY DEF ReadyOrders
<1> QED
  BY <1>2, <1>3 DEF SetToSeqs

-----------------------------------------------------------------------------
(***************************************************************************)
(* Type correctness.                                                       *)
(***************************************************************************)

\* The steps at which a goroutine is to run its job or to pass it on.
Holding == {"dequeued", "executing", "succeeded", "erred", "failed",
            "retrying", "burying"}

MemorySteps == Holding \cup {"idle", "finished", "record"}

HistoryRecord == [attempt : Int,
                  status  : {"none", "processing", "completed", "failed"}]

\* What MemoryTypeOK leaves out: the types of the rest of the state, that a
\* run that is over has its outcome in its record, and that an id is in
\* storage from its request on, under the priority and policy of the request.
MemoryShape ==
  /\ payload = [j \in Jobs |-> payload[j]]
  /\ stored \subseteq Jobs
  /\ IsFiniteSet(delayed)
  /\ pc \in [Goroutines -> MemorySteps]
  /\ held \in [Goroutines -> Jobs \cup {NoJob}]
  /\ record \in [Goroutines -> HistoryRecord]
  /\ \A g \in Goroutines :
       /\ pc[g] \in {"failed", "retrying", "burying"} =>
            record[g].status = "failed"
       /\ pc[g] \in {"finished", "record"} =>
            record[g].status \in {"completed", "failed"}
  /\ submitted \in [Jobs -> Job \cup {NoJob}]
  /\ \A j \in Jobs : j \in stored <=> submitted[j] # NoJob
  /\ \A j \in stored : Alike(object[j], submitted[j])
                       /\ submitted[j].priority \in QueueKeys
  /\ starts \in [Jobs -> Nat] /\ done \in [Jobs -> Nat] /\ lost \in [Jobs -> Nat]
  /\ \A j \in Jobs : j \notin stored => starts[j] = 0 /\ done[j] = 0 /\ lost[j] = 0

MemoryTypes == MemoryTypeOK /\ MemoryShape

\* The job in a goroutine's hands.
LEMMA HeldJob ==
  ASSUME MemoryTypes, NEW g \in Goroutines, pc[g] # "idle"
  PROVE  /\ held[g] \in jobStorage /\ held[g] \in stored /\ held[g] \in Jobs
         /\ object[held[g]] \in Job /\ submitted[held[g]] \in Job
         /\ object[held[g]].priority \in QueueKeys
<1>1. held[g] \in jobStorage /\ held[g] \in stored
  BY DEF MemoryTypes, MemoryTypeOK
<1>2. held[g] \in Jobs
  BY <1>1 DEF MemoryTypes, MemoryShape
<1>3. /\ Alike(object[held[g]], submitted[held[g]])
      /\ submitted[held[g]] \in Job /\ submitted[held[g]].priority \in QueueKeys
  BY <1>1, <1>2 DEF MemoryTypes, MemoryShape
<1> QED
  BY <1>1, <1>2, <1>3 DEF Alike

\* The writes of a goroutine to the Job it works on.
Marks(g) ==
  \/ HandleJobSuccess(g)
  \/ HandleJobFailure(g)
  \/ MarkRetry(g)
  \/ MarkDead(g)

\* What such a write leaves alone, and where the goroutine goes.
LEMMA MarkEffect ==
  ASSUME MemoryTypes, NEW g \in Goroutines, Marks(g)
  PROVE  LET j == held[g]
         IN  /\ j \in stored /\ j \in Jobs /\ object[j] \in Job
             /\ UNCHANGED <<stored, history, queues, jobStorage, delayed, due,
                            deadLetter, inflight, held, payload, submitted,
                            starts, done, lost>>
             /\ object' = [object EXCEPT ![j] = object'[j]]
             /\ Alike(object'[j], object[j])
             /\ pc' = [pc EXCEPT ![g] = pc'[g]]
             /\ \/ /\ pc[g] = "succeeded" /\ pc'[g] = "finished"
                   /\ object'[j].status = "completed"
                   /\ object'[j].attempts = object[j].attempts
                   /\ record' = [record EXCEPT ![g].status = "completed"]
                \/ /\ pc[g] = "erred" /\ pc'[g] = "failed"
                   /\ object'[j].status = "failed"
                   /\ object'[j].attempts = object[j].attempts + 1
                   /\ record' = [record EXCEPT ![g].status = "failed"]
                \/ /\ pc[g] = "failed" /\ pc'[g] = "retrying"
                   /\ CanRetry(object[j])
                   /\ object'[j].status = "scheduled"
                   /\ object'[j].attempts = object[j].attempts
                   /\ record' = record
                \/ /\ pc[g] = "failed" /\ pc'[g] = "burying"
                   /\ ~CanRetry(object[j])
                   /\ object'[j].status = "dead"
                   /\ object'[j].attempts = object[j].attempts
                   /\ record' = record
<1> DEFINE j == held[g]
<1>1. pc[g] # "idle"
  BY DEF Marks, HandleJobSuccess, HandleJobFailure, MarkRetry, MarkDead
<1>2. j \in stored /\ j \in Jobs /\ object[j] \in Job
  BY <1>1, HeldJob
<1>3. /\ pc \in [Goroutines -> MemorySteps]
      /\ object \in [Jobs -> Job \cup {NoJob}]
  BY DEF MemoryTypes, MemoryTypeOK, MemoryShape
<1>4. /\ Alike(MarkAsCompleted(object[j]), object[j])
      /\ MarkAsCompleted(object[j]).status = "completed"
      /\ MarkAsCompleted(object[j]).attempts = object[j].attempts
      /\ Alike(MarkAsFailed(object[j]), object[j])
      /\ MarkAsFailed(object[j]).status = "failed"
      /\ MarkAsFailed(object[j]).attempts = object[j].attempts + 1
      /\ Alike(MarkForRetry(object[j]), object[j])
      /\ MarkForRetry(object[j]).status = "scheduled"
      /\ MarkForRetry(object[j]).attempts = object[j].attempts
      /\ Alike(MarkAsDead(object[j]), object[j])
      /\ MarkAsDead(object[j]).status = "dead"
      /\ MarkAsDead(object[j]).attempts = object[j].attempts
  BY <1>2, MarkFields
<1>5. ASSUME NEW job, NEW step, Mark(g, job, step)
      PROVE  /\ object' = [object EXCEPT ![j] = job] /\ object'[j] = job
             /\ object' = [object EXCEPT ![j] = object'[j]]
             /\ pc' = [pc EXCEPT ![g] = pc'[g]] /\ pc'[g] = step
             /\ UNCHANGED <<stored, history, queues, jobStorage, delayed, due,
                            deadLetter, inflight, held, payload, submitted,
                            starts, done, lost>>
  BY <1>2, <1>3, <1>5
  DEF Mark, Goto, storageVars, queueVars, clientVars, tallies
<1>6. CASE HandleJobSuccess(g)
  BY <1>2, <1>4, <1>5, <1>6 DEF HandleJobSuccess
<1>7. CASE HandleJobFailure(g)
  BY <1>2, <1>4, <1>5, <1>7 DEF HandleJobFailure
<1>8. CASE MarkRetry(g)
  BY <1>2, <1>4, <1>5, <1>8 DEF MarkRetry
<1>9. CASE MarkDead(g)
  BY <1>2, <1>4, <1>5, <1>9 DEF MarkDead
<1> QED
  BY <1>6, <1>7, <1>8, <1>9 DEF Marks

\* A write to the Job keeps the types.
LEMMA MarkTypes ==
  ASSUME MemoryTypes, NEW g \in Goroutines, Marks(g)
  PROVE  MemoryTypes'
<1> DEFINE j == held[g]
           job == object'[j]
<1>1. /\ j \in stored /\ j \in Jobs /\ object[j] \in Job
      /\ UNCHANGED <<stored, history, queues, jobStorage, delayed, due,
                     deadLetter, inflight, held, payload, submitted, starts,
                     done, lost>>
      /\ object' = [object EXCEPT ![j] = job] /\ Alike(job, object[j])
      /\ pc' = [pc EXCEPT ![g] = pc'[g]]
  BY MarkEffect
<1>2. \/ /\ pc[g] = "succeeded" /\ pc'[g] = "finished"
         /\ record' = [record EXCEPT ![g].status = "completed"]
      \/ /\ pc[g] = "erred" /\ pc'[g] = "failed"
         /\ record' = [record EXCEPT ![g].status = "failed"]
      \/ /\ pc[g] = "failed" /\ pc'[g] \in {"retrying", "burying"}
         /\ record' = record
  BY MarkEffect
<1>3. job \in Job
  BY <1>1 DEF Alike
<1> HIDE DEF job
<1>4. MemoryTypeOK'
  BY <1>1, <1>2, <1>3, NoJobAssumption
  DEF MemoryTypes, MemoryTypeOK, MemoryShape, MemorySteps, Holding
<1>5. /\ pc' \in [Goroutines -> MemorySteps]
      /\ record' \in [Goroutines -> HistoryRecord]
      /\ \A h \in Goroutines :
           /\ pc'[h] \in {"failed", "retrying", "burying"} =>
                record'[h].status = "failed"
           /\ pc'[h] \in {"finished", "record"} =>
                record'[h].status \in {"completed", "failed"}
  BY <1>1, <1>2 DEF MemoryTypes, MemoryShape, HistoryRecord, MemorySteps, Holding
<1>6. \A i \in stored : Alike(object'[i], submitted[i])
  BY <1>1, <1>3 DEF MemoryTypes, MemoryTypeOK, MemoryShape, Alike
<1>7. MemoryShape'
  BY <1>1, <1>5, <1>6 DEF MemoryTypes, MemoryShape
<1> QED
  BY <1>4, <1>7 DEF MemoryTypes

\* ProcessJob up to the handler keeps the types.
LEMMA StartTypes ==
  ASSUME MemoryTypes, NEW g \in Goroutines, StartJob(g)
  PROVE  MemoryTypes'
<1> DEFINE j == held[g]
           job == MarkAsProcessing(object[j], starts[j] + 1)
<1>1. /\ j \in jobStorage /\ j \in stored /\ j \in Jobs /\ object[j] \in Job
      /\ starts[j] + 1 \in Nat
  BY HeldJob DEF StartJob, MemoryTypes, MemoryShape
<1>2. Alike(job, object[j]) /\ job \in Job
  BY <1>1, MarkFields DEF Alike
<1>3. object[j].attempts + 1 \in Int
  BY <1>1 DEF Job
<1>4. MemoryTypeOK'
  BY <1>1, <1>2, NoJobAssumption
  DEF StartJob, Goto, MemoryTypes, MemoryTypeOK, MemoryShape, storageVars, queueVars
<1>5. MemoryShape'
  BY <1>1, <1>2, <1>3
  DEF StartJob, Goto, MemoryTypes, MemoryShape, MemoryTypeOK, HistoryRecord,
      MemorySteps, Holding, storageVars, queueVars, clientVars, Alike
<1> QED
  BY <1>4, <1>5 DEF MemoryTypes

\* The handler's return keeps the types.
LEMMA HandlerTypesOK ==
  ASSUME MemoryTypes, NEW g \in Goroutines, HandlerSucceeds(g) \/ HandlerFails(g)
  PROVE  MemoryTypes'
<1> DEFINE j == held[g]
<1>1. j \in stored /\ j \in Jobs
  BY HeldJob DEF HandlerSucceeds, HandlerFails
<1>2. /\ pc[g] = "executing"
      /\ \E step \in {"succeeded", "erred"} : pc' = [pc EXCEPT ![g] = step]
      /\ UNCHANGED <<object, storageVars, queueVars, inflight, held, record,
                     clientVars, starts>>
  BY DEF HandlerSucceeds, HandlerFails, Goto
<1>3. done' \in [Jobs -> Nat] /\ lost' \in [Jobs -> Nat]
  BY <1>1 DEF HandlerSucceeds, HandlerFails, Hidden, MemoryTypes, MemoryShape
<1>4. \A i \in Jobs : i \notin stored => done'[i] = 0 /\ lost'[i] = 0
  BY <1>1 DEF HandlerSucceeds, HandlerFails, Hidden, MemoryTypes, MemoryShape
<1>5. MemoryTypeOK'
  BY <1>2
  DEF MemoryTypes, MemoryTypeOK, MemoryShape, MemorySteps, Holding, storageVars,
      queueVars
<1>6. MemoryShape'
  BY <1>2, <1>3, <1>4
  DEF MemoryTypes, MemoryShape, MemorySteps, Holding, storageVars, queueVars,
      clientVars
<1> QED
  BY <1>5, <1>6 DEF MemoryTypes

\* EnqueueDelayed and MoveToDeadLetter keep the types.
LEMMA FailureTypes ==
  ASSUME MemoryTypes, NEW g \in Goroutines, RetryJob(g) \/ BuryJob(g)
  PROVE  MemoryTypes'
<1> DEFINE j == held[g]
<1>1. j \in jobStorage /\ pc[g] \in {"retrying", "burying"}
  BY HeldJob DEF RetryJob, BuryJob
<1>2. /\ pc' = [pc EXCEPT ![g] = "finished"]
      /\ UNCHANGED <<object, storageVars, inflight, held, record, clientVars,
                     tallies>>
  BY DEF RetryJob, BuryJob, Goto
<1>3. /\ queues' = queues /\ due' = due /\ jobStorage' = jobStorage
      /\ delayed' = delayed \/ delayed' = delayed \cup {j}
      /\ deadLetter' = deadLetter \/ deadLetter' = Append(deadLetter, j)
  BY <1>1 DEF RetryJob, BuryJob, EnqueueDelayed, MoveToDeadLetter
<1>4. IsFiniteSet(delayed')
  <2>1. IsFiniteSet(delayed)
    BY DEF MemoryTypes, MemoryShape
  <2>2. IsFiniteSet(delayed \cup {j})
    BY <2>1, FS_AddElement
  <2> QED
    BY <1>3, <2>1, <2>2
<1>5. /\ deadLetter' \in Seq(jobStorage) /\ due \subseteq delayed'
      /\ delayed' \subseteq jobStorage
  <2>1. deadLetter \in Seq(jobStorage) /\ due \subseteq delayed /\ delayed \subseteq jobStorage
    BY DEF MemoryTypes, MemoryTypeOK
  <2>2. Append(deadLetter, j) \in Seq(jobStorage)
    BY <1>1, <2>1
  <2> QED
    BY <1>1, <1>3, <2>1, <2>2
<1>6. MemoryTypeOK'
  BY <1>1, <1>2, <1>3, <1>5
  DEF MemoryTypes, MemoryTypeOK, MemoryShape, MemorySteps, Holding, storageVars
<1>7. MemoryShape'
  BY <1>1, <1>2, <1>4
  DEF MemoryTypes, MemoryShape, MemorySteps, Holding, storageVars, clientVars,
      tallies
<1> QED
  BY <1>6, <1>7 DEF MemoryTypes

\* Dequeue, and the end of ProcessJob, keep the types.
LEMMA TakeAndEndTypes ==
  ASSUME MemoryTypes, NEW g \in Goroutines,
         ProcessNextJob(g) \/ UpdateJob(g) \/ SaveJobHistory(g)
  PROVE  MemoryTypes'
<1>1. CASE ProcessNextJob(g)
  <2>1. PICK p \in Priorities, j \in Jobs : /\ Dequeue(p, j)
                                            /\ held' = [held EXCEPT ![g] = j]
    BY <1>1 DEF ProcessNextJob
  <2>2. p \in QueueKeys /\ queues[p] \in Seq(jobStorage) /\ queues[p] # <<>>
    BY <2>1 DEF Dequeue, QueueKeys, MemoryTypes, MemoryTypeOK
  <2>3. j \in jobStorage /\ Tail(queues[p]) \in Seq(jobStorage)
    BY <2>1, <2>2 DEF Dequeue
  <2>4. /\ pc' = [pc EXCEPT ![g] = "dequeued"] /\ pc[g] = "idle"
        /\ UNCHANGED <<object, storageVars, inflight, record, clientVars, tallies>>
    BY <1>1 DEF ProcessNextJob, Goto
  <2>5. MemoryTypeOK'
    BY <2>1, <2>2, <2>3, <2>4
    DEF Dequeue, MemoryTypes, MemoryTypeOK, MemoryShape, storageVars
  <2>6. MemoryShape'
    BY <2>1, <2>4
    DEF Dequeue, MemoryTypes, MemoryShape, MemorySteps, Holding, storageVars, clientVars,
        tallies
  <2> QED
    BY <2>5, <2>6 DEF MemoryTypes
<1>2. CASE UpdateJob(g)
  <2>1. MemoryTypeOK'
    BY <1>2
    DEF UpdateJob, Goto, MemoryTypes, MemoryTypeOK, MemoryShape, storageVars,
        queueVars
  <2>2. MemoryShape'
    BY <1>2
    DEF UpdateJob, Goto, MemoryTypes, MemoryShape, MemorySteps, Holding, storageVars,
        queueVars, clientVars, tallies
  <2> QED
    BY <2>1, <2>2 DEF MemoryTypes
<1>3. CASE SaveJobHistory(g)
  <2>1. held[g] \in Jobs /\ pc[g] = "record"
    BY <1>3, HeldJob DEF SaveJobHistory
  <2>2. record[g] \in [attempt : Int, status : {"completed", "failed"}]
    BY <2>1 DEF MemoryTypes, MemoryShape, HistoryRecord
  <2>3. MemoryTypeOK'
    BY <1>3, <2>1, <2>2
    DEF SaveJobHistory, Goto, MemoryTypes, MemoryTypeOK, MemoryShape, queueVars
  <2>4. MemoryShape'
    BY <1>3, <2>1
    DEF SaveJobHistory, Goto, MemoryTypes, MemoryShape, MemorySteps, Holding, NoRecord,
        HistoryRecord, queueVars, clientVars, tallies
  <2> QED
    BY <2>3, <2>4 DEF MemoryTypes
<1> QED
  BY <1>1, <1>2, <1>3

\* The API keeps the types.
LEMMA RequestTypes ==
  ASSUME MemoryTypes, Request \/ Reply
  PROVE  MemoryTypes'
<1>1. ASSUME NEW j \in Jobs, NEW order \in Orders, ScheduleJob(j, order)
      PROVE  MemoryTypes'
  <2> DEFINE job == NewJob(j, order.request)
  <2>1. job \in Job /\ job.id = j /\ job.priority \in QueueKeys
    BY NewJobType
  <2> HIDE DEF job
  <2>2. /\ submitted[j] = NoJob /\ submitted' = [submitted EXCEPT ![j] = job]
        /\ payload' = [payload EXCEPT ![j] = order.payload]
        /\ object' = [object EXCEPT ![j] = job]
        /\ stored' = stored \cup {j} /\ history' = history
        /\ inflight' = inflight \cup {j}
        /\ UNCHANGED <<queueVars, workerVars, tallies>>
    BY <1>1 DEF ScheduleJob, SaveJob, job
  <2>3. j \notin stored
    BY <2>2 DEF MemoryTypes, MemoryShape
  <2>4. MemoryTypeOK'
    BY <2>1, <2>2, NoJobAssumption
    DEF MemoryTypes, MemoryTypeOK, MemoryShape, queueVars, workerVars
  <2>5. \A i \in stored' : /\ Alike(object'[i], submitted'[i])
                           /\ submitted'[i].priority \in QueueKeys
    BY <2>1, <2>2 DEF MemoryTypes, MemoryTypeOK, MemoryShape, Alike
  <2>6. payload' = [i \in Jobs |-> payload'[i]]
    BY <2>2 DEF MemoryTypes, MemoryShape
  <2>7. MemoryShape'
    BY <2>1, <2>2, <2>5, <2>6, NoJobAssumption
    DEF MemoryTypes, MemoryShape, queueVars, workerVars, tallies
  <2> QED
    BY <2>4, <2>7 DEF MemoryTypes
<1>2. ASSUME NEW j \in inflight, EnqueueJob(j)
      PROVE  MemoryTypes'
  <2>1. /\ j \in stored /\ j \in Jobs /\ object[j].priority \in QueueKeys
        /\ jobStorage' = jobStorage \cup {j}
    BY <1>2
    DEF EnqueueJob, Enqueue, EnqueueDelayed, MemoryTypes, MemoryTypeOK,
        MemoryShape, Alike
  <2>2. /\ inflight' = inflight \ {j} /\ due' = due /\ deadLetter' = deadLetter
        /\ UNCHANGED <<object, storageVars, workerVars, clientVars, tallies>>
    BY <1>2 DEF EnqueueJob, Enqueue, EnqueueDelayed
  <2>3. /\ queues \in [QueueKeys -> Seq(jobStorage')]
        /\ deadLetter \in Seq(jobStorage')
    BY <2>1, SeqWider DEF MemoryTypes, MemoryTypeOK
  <2>4. queues' \in [QueueKeys -> Seq(jobStorage')]
    <3>1. Append(queues[object[j].priority], j) \in Seq(jobStorage')
      BY <2>1, <2>3
    <3> QED
      BY <1>2, <2>1, <2>3, <3>1 DEF EnqueueJob, Enqueue, EnqueueDelayed
  <2>5. delayed' = delayed \/ delayed' = delayed \cup {j}
    BY <1>2 DEF EnqueueJob, Enqueue, EnqueueDelayed
  <2>6. IsFiniteSet(delayed')
    <3>1. IsFiniteSet(delayed)
      BY DEF MemoryTypes, MemoryShape
    <3>2. IsFiniteSet(delayed \cup {j})
      BY <3>1, FS_AddElement
    <3> QED
      BY <2>5, <3>1, <3>2
  <2>7. MemoryTypeOK'
    BY <2>1, <2>2, <2>3, <2>4, <2>5
    DEF MemoryTypes, MemoryTypeOK, storageVars, workerVars
  <2>8. MemoryShape'
    BY <2>2, <2>6
    DEF MemoryTypes, MemoryShape, storageVars, workerVars, clientVars, tallies
  <2> QED
    BY <2>7, <2>8 DEF MemoryTypes
<1> QED
  BY <1>1, <1>2 DEF Request, Reply

\* The delayed-job loop and the clock keep the types.
LEMMA DelayedTypes ==
  ASSUME MemoryTypes, ProcessDelayedJobs \/ TimePasses
  PROVE  MemoryTypes'
<1>0. /\ IsFiniteSet(delayed) /\ due \subseteq delayed
      /\ delayed \subseteq jobStorage /\ jobStorage \subseteq stored
      /\ stored \subseteq Jobs
  BY DEF MemoryTypes, MemoryTypeOK, MemoryShape
<1>1. CASE ProcessDelayedJobs
  <2>1. PICK ready \in ReadyOrders :
          queues' = [p \in QueueKeys |-> queues[p] \o ready[p]]
    BY <1>1 DEF ProcessDelayedJobs
  <2>2. IsFiniteSet(due)
    BY <1>0, FS_Subset
  <2>3. queues' \in [QueueKeys -> Seq(jobStorage)]
    <3> SUFFICES ASSUME NEW p \in QueueKeys
                 PROVE  queues[p] \o ready[p] \in Seq(jobStorage)
      BY <2>1
    <3>1. ready[p] \in Seq(DueAt(p)) /\ DueAt(p) \subseteq jobStorage
      BY <1>0, <2>2, ReadyLists DEF DueAt
    <3>2. ready[p] \in Seq(jobStorage)
      BY <3>1, SeqWider
    <3>3. queues[p] \in Seq(jobStorage)
      BY DEF MemoryTypes, MemoryTypeOK
    <3> QED
      BY <3>2, <3>3
  <2>4. /\ object' = [j \in Jobs |-> IF j \in due
                                       THEN [object[j] EXCEPT !.status = "pending"]
                                       ELSE object[j]]
        /\ delayed' = delayed \ due /\ due' = {}
        /\ UNCHANGED <<jobStorage, deadLetter, storageVars, inflight,
                       workerVars, clientVars, tallies>>
    BY <1>1 DEF ProcessDelayedJobs
  <2>5. \A j \in due : object[j] \in Job /\ object'[j] \in Job
                       /\ Alike(object'[j], object[j])
    <3> SUFFICES ASSUME NEW j \in due
                 PROVE  object[j] \in Job /\ object'[j] \in Job
                        /\ Alike(object'[j], object[j])
      OBVIOUS
    <3>1. j \in stored /\ j \in Jobs /\ object[j] \in Job
      BY <1>0 DEF MemoryTypes, MemoryShape, Alike
    <3>2. object'[j] = [object[j] EXCEPT !.status = "pending"]
      BY <2>4, <3>1
    <3>3. Alike([object[j] EXCEPT !.status = "pending"], object[j])
      BY <3>1, MarkFields
    <3> QED
      BY <3>1, <3>2, <3>3 DEF Alike
  <2>6. \A j \in Jobs \ due : object'[j] = object[j]
    BY <2>4
  <2>7. object' \in [Jobs -> Job \cup {NoJob}]
        /\ \A j \in Jobs : (object'[j] # NoJob) = (object[j] # NoJob)
    BY <1>0, <2>4, <2>5, <2>6, NoJobAssumption DEF MemoryTypes, MemoryTypeOK
  <2>8. IsFiniteSet(delayed')
    BY <1>0, <2>4, FS_Subset
  <2>9. MemoryTypeOK'
    BY <1>0, <2>3, <2>4, <2>7
    DEF MemoryTypes, MemoryTypeOK, storageVars, workerVars
  <2>10. \A j \in stored : Alike(object'[j], submitted[j])
    BY <1>0, <2>5, <2>6 DEF MemoryTypes, MemoryShape, Alike
  <2>11. MemoryShape'
    BY <2>4, <2>8, <2>10
    DEF MemoryTypes, MemoryShape, storageVars, workerVars, clientVars, tallies
  <2> QED
    BY <2>9, <2>11 DEF MemoryTypes
<1>2. CASE TimePasses
  <2>1. MemoryTypeOK'
    BY <1>2
    DEF TimePasses, MemoryTypes, MemoryTypeOK, storageVars, workerVars
  <2>2. MemoryShape'
    BY <1>2
    DEF TimePasses, MemoryTypes, MemoryShape, storageVars, workerVars,
        clientVars, tallies
  <2> QED
    BY <2>1, <2>2 DEF MemoryTypes
<1> QED
  BY <1>1, <1>2

\* Every step preserves the types.
LEMMA MemoryTypesPreserved ==
  ASSUME MemoryTypes, [MemoryNext]_memoryVars
  PROVE  MemoryTypes'
<1>1. CASE UNCHANGED memoryVars
  <2>1. MemoryTypeOK'
    BY <1>1
    DEF memoryVars, MemoryTypes, MemoryTypeOK, storageVars, queueVars, workerVars
  <2>2. MemoryShape'
    BY <1>1
    DEF memoryVars, MemoryTypes, MemoryShape, storageVars, queueVars,
        workerVars, clientVars, tallies
  <2> QED
    BY <2>1, <2>2 DEF MemoryTypes
<1>2. CASE MemoryNext
  BY <1>2, RequestTypes, DelayedTypes, StartTypes, HandlerTypesOK, MarkTypes,
     FailureTypes, TakeAndEndTypes
  DEF MemoryNext, ProcessJobs, Marks
<1> QED
  BY <1>1, <1>2

\* In every reachable state the types are right.
LEMMA MemoryTypesHold == MemorySpec => []MemoryTypes
<1>1. MemoryInit => MemoryTypes
  <2> SUFFICES ASSUME MemoryInit
               PROVE  MemoryTypes
    OBVIOUS
  <2>1. MemoryTypeOK
    BY DEF MemoryInit, MemoryTypeOK
  <2>2. MemoryShape
    BY FS_EmptySet
    DEF MemoryInit, MemoryShape, MemorySteps, Holding, HistoryRecord, NoRecord
  <2> QED
    BY <2>1, <2>2 DEF MemoryTypes
<1> QED
  BY <1>1, MemoryTypesPreserved, PTL DEF MemorySpec

\* In every reachable state of the in-memory service an id that a queue, a
\* map or a goroutine keeps leads to a job: Dequeue, UpdateJob and GetJob
\* never meet one that is not there, however requests, the delayed-job loop
\* and goroutines interleave.
THEOREM MemoryTypeCorrect == MemorySpec => []MemoryTypeOK
BY MemoryTypesHold, PTL DEF MemoryTypes

-----------------------------------------------------------------------------
(***************************************************************************)
(* Where a job is, and what its status says.                               *)
(***************************************************************************)
Queued(j) == \E p \in QueueKeys : \E i \in DOMAIN queues[p] : queues[p][i] = j

\* The queues have the job at one position at most.
QueuedOnce(j) ==
  \A p, q \in QueueKeys : \A i \in DOMAIN queues[p], k \in DOMAIN queues[q] :
    queues[p][i] = j /\ queues[q][k] = j => p = q /\ i = k

\* Goroutine g is to run the job or to pass it on.
Owns(g, j) == pc[g] \in Holding /\ held[g] = j

\* The status that goes with the step of the goroutine that owns the job.
StatusFits(step, job) ==
  /\ step = "dequeued" => job.status = "pending"
  /\ step \in {"executing", "succeeded", "erred"} => job.status = "processing"
  /\ step = "failed" => job.status = "failed"
  /\ step = "retrying" => job.status = "scheduled" /\ AttemptsLeft(job) > 0
  /\ step = "burying" => job.status = "dead" /\ ~(AttemptsLeft(job) > 0)

(***************************************************************************)
(* The shared status says who has the job, and there is one who has it:    *)
(* a request, the queues, delayedJobs or one goroutine.                    *)
(***************************************************************************)
PlaceKnown(j) ==
  /\ j \in inflight => /\ object[j].status \in {"pending", "scheduled"}
                       /\ j \notin jobStorage
  /\ j \in delayed => /\ object[j].status = "scheduled"
                      /\ \A g \in Goroutines : ~Owns(g, j)
  /\ Queued(j) => object[j].status = "pending"
  /\ \A g \in Goroutines : held[g] = j =>
       /\ StatusFits(pc[g], object[j])
       /\ pc[g] = "dequeued" => ~Queued(j)
  /\ \A g, h \in Goroutines : Owns(g, j) /\ Owns(h, j) => g = h
  /\ QueuedOnce(j)

PlacesKnown == \A j \in stored : PlaceKnown(j)

\* Appending an id to a queue.
LEMMA QueueAppend ==
  ASSUME MemoryTypes, NEW p \in QueueKeys, NEW i,
         queues' = [queues EXCEPT ![p] = Append(@, i)], NEW j
  PROVE  /\ Queued(j)' <=> Queued(j) \/ j = i
         /\ QueuedOnce(j) /\ (j = i => ~Queued(j)) => QueuedOnce(j)'
<1>1. queues \in [QueueKeys -> Seq(jobStorage)]
  BY DEF MemoryTypes, MemoryTypeOK
<1>2. \A q \in QueueKeys : q # p => queues'[q] = queues[q]
  BY <1>1
<1>3. /\ queues'[p] = Append(queues[p], i) /\ Len(queues[p]) \in Nat
      /\ DOMAIN queues[p] = 1 .. Len(queues[p])
      /\ DOMAIN queues'[p] = 1 .. (Len(queues[p]) + 1)
      /\ \A k \in DOMAIN queues[p] : queues'[p][k] = queues[p][k]
      /\ queues'[p][Len(queues[p]) + 1] = i
  BY <1>1
<1>4. Queued(j)' => Queued(j) \/ j = i
  BY <1>2, <1>3 DEF Queued
<1>5. Queued(j) \/ j = i => Queued(j)'
  BY <1>2, <1>3 DEF Queued
<1>6. ASSUME QueuedOnce(j), j = i => ~Queued(j)
      PROVE  QueuedOnce(j)'
  BY <1>2, <1>3, <1>6 DEF Queued, QueuedOnce
<1> QED
  BY <1>4, <1>5, <1>6

\* Taking the first id off a queue.
LEMMA QueueTail ==
  ASSUME MemoryTypes, NEW p \in QueueKeys, queues[p] # <<>>,
         queues' = [queues EXCEPT ![p] = Tail(@)], NEW j
  PROVE  /\ Queued(j)' => Queued(j)
         /\ QueuedOnce(j) => QueuedOnce(j)'
         /\ j = Head(queues[p]) => Queued(j)
         /\ j = Head(queues[p]) /\ QueuedOnce(j) => ~Queued(j)'
<1>1. queues \in [QueueKeys -> Seq(jobStorage)]
  BY DEF MemoryTypes, MemoryTypeOK
<1>2. \A q \in QueueKeys : q # p => queues'[q] = queues[q]
  BY <1>1
<1>3. /\ queues'[p] = Tail(queues[p]) /\ Len(queues[p]) \in Nat
      /\ Len(queues[p]) > 0
      /\ DOMAIN queues[p] = 1 .. Len(queues[p])
      /\ DOMAIN queues'[p] = 1 .. (Len(queues[p]) - 1)
      /\ \A k \in DOMAIN queues'[p] : queues'[p][k] = queues[p][k + 1]
      /\ Head(queues[p]) = queues[p][1]
  BY <1>1
<1>4. Queued(j)' => Queued(j)
  BY <1>2, <1>3 DEF Queued
<1>5. QueuedOnce(j) => QueuedOnce(j)'
  BY <1>2, <1>3 DEF QueuedOnce
<1>6. j = Head(queues[p]) => Queued(j)
  BY <1>3 DEF Queued
<1>7. j = Head(queues[p]) /\ QueuedOnce(j) => ~Queued(j)'
  BY <1>2, <1>3 DEF Queued, QueuedOnce
<1> QED
  BY <1>4, <1>5, <1>6, <1>7

\* What ProcessDelayedJobs does to the queues.
LEMMA QueueReady ==
  ASSUME MemoryTypes, ProcessDelayedJobs, NEW j
  PROVE  /\ Queued(j)' => Queued(j) \/ j \in due
         /\ QueuedOnce(j) /\ (j \in due => ~Queued(j)) => QueuedOnce(j)'
<1>1. queues \in [QueueKeys -> Seq(jobStorage)]
  BY DEF MemoryTypes, MemoryTypeOK
<1>2. IsFiniteSet(due)
  BY FS_Subset DEF MemoryTypes, MemoryTypeOK, MemoryShape
<1>3. PICK ready \in ReadyOrders :
        queues' = [p \in QueueKeys |-> queues[p] \o ready[p]]
  BY DEF ProcessDelayedJobs
<1>4. \A p \in QueueKeys :
        /\ ready[p] \in Seq(DueAt(p))
        /\ \A i, k \in DOMAIN ready[p] : ready[p][i] = ready[p][k] => i = k
  BY <1>2, ReadyLists
<1>5. ASSUME NEW p \in QueueKeys, NEW i \in DOMAIN queues'[p]
      PROVE  \/ i \in DOMAIN queues[p] /\ queues'[p][i] = queues[p][i]
             \/ /\ i - Len(queues[p]) \in DOMAIN ready[p]
                /\ queues'[p][i] = ready[p][i - Len(queues[p])]
                /\ queues'[p][i] \in DueAt(p)
  <2>1. queues[p] \in Seq(jobStorage) /\ ready[p] \in Seq(DueAt(p))
    BY <1>1, <1>4
  <2>2. queues'[p] = queues[p] \o ready[p]
    BY <1>3
  <2>3. ready[p] \in Seq(jobStorage)
    BY <2>1, SeqWider DEF MemoryTypes, MemoryTypeOK, DueAt
  <2>4. \A k \in DOMAIN ready[p] : ready[p][k] \in DueAt(p)
    BY <2>1
  <2>5. \/ i \in DOMAIN queues[p] /\ queues'[p][i] = queues[p][i]
        \/ /\ i - Len(queues[p]) \in DOMAIN ready[p]
           /\ queues'[p][i] = ready[p][i - Len(queues[p])]
    <3>1. i \in DOMAIN (queues[p] \o ready[p])
      BY <1>5, <2>2, Zenon
    <3>2. \/ i \in DOMAIN queues[p] /\ (queues[p] \o ready[p])[i] = queues[p][i]
          \/ /\ i - Len(queues[p]) \in DOMAIN ready[p]
             /\ (queues[p] \o ready[p])[i] = ready[p][i - Len(queues[p])]
      BY <2>1, <2>3, <3>1, ConcatAt, Zenon
    <3> QED
      BY <2>2, <3>2, Zenon
  <2> QED
    BY <2>4, <2>5
<1>6. Queued(j)' => Queued(j) \/ j \in due
  BY <1>5 DEF Queued, DueAt
<1>7. ASSUME QueuedOnce(j), j \in due => ~Queued(j)
      PROVE  QueuedOnce(j)'
  <2> SUFFICES ASSUME NEW p \in QueueKeys, NEW q \in QueueKeys,
                      NEW i \in DOMAIN queues'[p], NEW k \in DOMAIN queues'[q],
                      queues'[p][i] = j, queues'[q][k] = j
               PROVE  p = q /\ i = k
    BY DEF QueuedOnce
  <2>1. CASE j \in due
    <3>1. /\ i - Len(queues[p]) \in DOMAIN ready[p]
          /\ ready[p][i - Len(queues[p])] = j /\ j \in DueAt(p)
          /\ k - Len(queues[q]) \in DOMAIN ready[q]
          /\ ready[q][k - Len(queues[q])] = j /\ j \in DueAt(q)
      BY <1>5, <1>7, <2>1 DEF Queued
    <3>2. p = q
      BY <3>1 DEF DueAt
    <3>3. i - Len(queues[p]) = k - Len(queues[p])
      BY <1>4, <3>1, <3>2
    <3>4. Len(queues[p]) \in Nat /\ i \in Int /\ k \in Int
      <4>1. queues[p] \in Seq(jobStorage) /\ ready[p] \in Seq(DueAt(p))
        BY <1>1, <1>4
      <4>2. queues'[p] = queues[p] \o ready[p]
        BY <1>3
      <4> QED
        BY <3>2, <4>1, <4>2
    <3> QED
      BY <3>2, <3>3, <3>4
  <2>2. CASE j \notin due
    <3>1. i \in DOMAIN queues[p] /\ k \in DOMAIN queues[q]
          /\ queues[p][i] = j /\ queues[q][k] = j
      BY <1>5, <2>2 DEF DueAt
    <3> QED
      BY <1>7, <3>1 DEF QueuedOnce
  <2> QED
    BY <2>1, <2>2
<1> QED
  BY <1>6, <1>7

\* A job that a step does not touch stays where it is known to be.
LEMMA Undisturbed ==
  ASSUME NEW j, PlaceKnown(j), object'[j] = object[j],
         j \in inflight' => j \in inflight,
         j \in inflight' /\ j \in jobStorage' => j \in jobStorage,
         j \in delayed' => j \in delayed,
         Queued(j)' => Queued(j), QueuedOnce(j)',
         \A g \in Goroutines : Owns(g, j)' => Owns(g, j) /\ pc'[g] = pc[g]
  PROVE  PlaceKnown(j)'
<1>1. j \in inflight' => /\ object'[j].status \in {"pending", "scheduled"}
                         /\ j \notin jobStorage'
  BY DEF PlaceKnown
<1>2. /\ j \in delayed' => /\ object'[j].status = "scheduled"
                           /\ \A g \in Goroutines : ~Owns(g, j)'
      /\ Queued(j)' => object'[j].status = "pending"
  BY DEF PlaceKnown
<1>3. ASSUME NEW g \in Goroutines, held'[g] = j
      PROVE  /\ StatusFits(pc'[g], object'[j])
             /\ pc'[g] = "dequeued" => ~Queued(j)'
  <2>1. CASE pc'[g] \in Holding
    <3>1. Owns(g, j) /\ pc'[g] = pc[g]
      BY <1>3, <2>1 DEF Owns
    <3>2. StatusFits(pc[g], object[j]) /\ (pc[g] = "dequeued" => ~Queued(j))
      BY <3>1 DEF PlaceKnown, Owns
    <3> QED
      BY <3>1, <3>2
  <2>2. CASE pc'[g] \notin Holding
    BY <2>2 DEF Holding, StatusFits
  <2> QED
    BY <2>1, <2>2
<1>4. \A g, h \in Goroutines : Owns(g, j)' /\ Owns(h, j)' => g = h
  BY DEF PlaceKnown
<1> QED
  BY <1>1, <1>2, <1>3, <1>4 DEF PlaceKnown

\* The goroutine that has the job is the only one who has it.
LEMMA OwnedAlone ==
  ASSUME MemoryTypes, PlacesKnown, NEW g \in Goroutines, pc[g] \in Holding
  PROVE  LET j == held[g]
         IN  /\ j \in stored /\ j \in Jobs /\ j \in jobStorage
             /\ object[j] \in Job /\ submitted[j] \in Job
             /\ j \notin inflight /\ j \notin delayed /\ ~Queued(j)
             /\ \A h \in Goroutines : Owns(h, j) => h = g
             /\ StatusFits(pc[g], object[j])
             /\ QueuedOnce(j)
<1> DEFINE j == held[g]
<1>0. pc[g] # "idle"
  BY DEF Holding
<1>1. /\ j \in jobStorage /\ j \in stored /\ j \in Jobs
      /\ object[j] \in Job /\ submitted[j] \in Job
  BY <1>0, HeldJob
<1>2. PlaceKnown(j) /\ Owns(g, j)
  BY <1>1 DEF PlacesKnown, Owns
<1>3. /\ StatusFits(pc[g], object[j])
      /\ pc[g] = "dequeued" => ~Queued(j)
  BY <1>2 DEF PlaceKnown
<1>4. pc[g] # "dequeued" => object[j].status # "pending"
  BY <1>3 DEF StatusFits, Holding
<1>5. j \notin inflight /\ j \notin delayed /\ ~Queued(j)
  BY <1>1, <1>2, <1>3, <1>4 DEF PlaceKnown
<1> QED
  BY <1>1, <1>2, <1>3, <1>5 DEF PlaceKnown

\* A goroutine that is done with its job does not tell its status.
LEMMA NoOwnerFits ==
  ASSUME NEW step, step \notin Holding
  PROVE  step # "dequeued" /\ \A job : StatusFits(step, job)
BY DEF Holding, StatusFits

\* A goroutine's own step does not move the others.
LEMMA OtherGoroutines ==
  ASSUME MemoryTypes, NEW g \in Goroutines, ProcessJobs(g)
  PROVE  \A h \in Goroutines : h # g => pc'[h] = pc[h] /\ held'[h] = held[h]
BY DEF ProcessJobs, ProcessNextJob, StartJob, HandlerSucceeds, HandlerFails,
       HandleJobSuccess, HandleJobFailure, MarkRetry, RetryJob, MarkDead,
       BuryJob, Mark, UpdateJob, SaveJobHistory, Goto, MemoryTypes, MemoryShape

\* The steps of the goroutine that has the job.
OwnerStep(g) ==
  \/ StartJob(g)
  \/ HandlerSucceeds(g)
  \/ HandlerFails(g)
  \/ Marks(g)
  \/ RetryJob(g)
  \/ BuryJob(g)

\* What they have in common: all of them touch that job alone.
LEMMA OwnerEffect ==
  ASSUME MemoryTypes, PlacesKnown, NEW g \in Goroutines, OwnerStep(g)
  PROVE  /\ pc[g] \in Holding
         /\ UNCHANGED <<stored, inflight, queues, jobStorage, held, due,
                        submitted, payload, history>>
         /\ \A j : j # held[g] => (j \in delayed' <=> j \in delayed)
         /\ \A j \in Jobs : j # held[g] => object'[j] = object[j]
         /\ \A h \in Goroutines : h # g => pc'[h] = pc[h]
<1>1. CASE Marks(g)
  <2>1. pc[g] \in {"succeeded", "erred", "failed"}
    BY <1>1, MarkEffect
  <2>2. /\ UNCHANGED <<stored, inflight, queues, jobStorage, held, due,
                       submitted, payload, history, delayed>>
        /\ object' = [object EXCEPT ![held[g]] = object'[held[g]]]
        /\ pc' = [pc EXCEPT ![g] = pc'[g]]
    BY <1>1, MarkEffect
  <2> HIDE DEF Marks
  <2> QED
    BY <2>1, <2>2 DEF Holding, MemoryTypes, MemoryTypeOK, MemoryShape
<1>2. CASE StartJob(g) \/ HandlerSucceeds(g) \/ HandlerFails(g)
  BY <1>2
  DEF StartJob, HandlerSucceeds, HandlerFails, Goto, Holding, MemoryTypes,
      MemoryTypeOK, MemoryShape, storageVars, queueVars, clientVars
<1>3. CASE RetryJob(g) \/ BuryJob(g)
  <2>1. pc[g] \in Holding /\ held[g] \in jobStorage
    BY <1>3, HeldJob DEF RetryJob, BuryJob, Holding
  <2> QED
    BY <1>3, <2>1
    DEF RetryJob, BuryJob, EnqueueDelayed, MoveToDeadLetter, Goto, MemoryTypes,
        MemoryShape, storageVars, clientVars
<1> QED
  BY <1>1, <1>2, <1>3 DEF OwnerStep

\* Whoever has the job changes its status and keeps it, or passes it on.
LEMMA OwnerKeepsPlaces ==
  ASSUME MemoryTypes, PlacesKnown, NEW g \in Goroutines, OwnerStep(g)
  PROVE  PlacesKnown'
<1>1. pc[g] \in Holding
  BY OwnerEffect
<1>2. PICK i \in stored : i = held[g] /\ i \in Jobs
  BY <1>1, OwnedAlone
<1>3. /\ object[i] \in Job /\ StatusFits(pc[g], object[i])
      /\ i \notin inflight /\ i \notin delayed /\ ~Queued(i) /\ QueuedOnce(i)
      /\ \A h \in Goroutines : Owns(h, i) => h = g
  BY <1>1, <1>2, OwnedAlone
<1>4. \A h \in Goroutines : h # g => pc'[h] = pc[h]
  BY OwnerEffect
<1>5. UNCHANGED <<stored, inflight, queues, jobStorage, held>>
  BY OwnerEffect
<1>6. \A j : j # i => (j \in delayed' <=> j \in delayed)
  BY <1>2, OwnerEffect
<1>7. \A j \in Jobs : j # i => object'[j] = object[j]
  BY <1>2, OwnerEffect
<1>8. \A j : (Queued(j)' <=> Queued(j)) /\ (QueuedOnce(j)' <=> QueuedOnce(j))
  BY <1>5 DEF Queued, QueuedOnce
<1>9. ASSUME NEW j \in stored, j # i
      PROVE  PlaceKnown(j)'
  <2>1. j \in Jobs /\ PlaceKnown(j) /\ QueuedOnce(j)
    BY DEF MemoryTypes, MemoryShape, PlacesKnown, PlaceKnown
  <2>2. \A h \in Goroutines : Owns(h, j)' => Owns(h, j) /\ pc'[h] = pc[h]
    BY <1>2, <1>4, <1>5, <1>9 DEF Owns
  <2> QED
    BY <1>5, <1>6, <1>7, <1>8, <1>9, <2>1, <2>2, Undisturbed
<1>10. /\ pc'[g] # "dequeued"
       /\ StatusFits(pc'[g], object'[i])
       /\ i \in delayed' => object'[i].status = "scheduled" /\ pc'[g] = "finished"
  <2>1. CASE StartJob(g)
    <3>1. /\ object'[i] = MarkAsProcessing(object[i], starts[i] + 1)
          /\ pc'[g] = "executing" /\ delayed' = delayed
      BY <1>2, <2>1
      DEF StartJob, Goto, MemoryTypes, MemoryTypeOK, MemoryShape, queueVars
    <3>2. starts[i] + 1 \in Nat
      BY <1>2 DEF MemoryTypes, MemoryShape
    <3>3. MarkAsProcessing(object[i], starts[i] + 1).status = "processing"
      BY <1>3, <3>2, MarkFields
    <3>4. object'[i].status = "processing"
      BY <3>1, <3>3
    <3> QED
      BY <1>3, <3>1, <3>4 DEF StatusFits
  <2>2. CASE HandlerSucceeds(g) \/ HandlerFails(g)
    <3>1. /\ pc[g] = "executing" /\ pc'[g] \in {"succeeded", "erred"}
          /\ object' = object /\ delayed' = delayed
      BY <2>2
      DEF HandlerSucceeds, HandlerFails, Goto, MemoryTypes, MemoryShape, queueVars
    <3> QED
      BY <1>3, <3>1 DEF StatusFits
  <2>3. CASE Marks(g)
    <3>1. /\ delayed' = delayed /\ Alike(object'[i], object[i])
          /\ \/ pc'[g] = "finished"
             \/ pc'[g] = "failed" /\ object'[i].status = "failed"
             \/ /\ pc'[g] = "retrying" /\ object'[i].status = "scheduled"
                /\ CanRetry(object[i])
                /\ object'[i].attempts = object[i].attempts
             \/ /\ pc'[g] = "burying" /\ object'[i].status = "dead"
                /\ ~CanRetry(object[i])
                /\ object'[i].attempts = object[i].attempts
      BY <1>2, <2>3, MarkEffect
    <3>2. pc[g] = "failed" => object[i].status = "failed"
      BY <1>3 DEF StatusFits
    <3>3. pc'[g] \in {"retrying", "burying"} => pc[g] = "failed"
      BY <2>3, MarkEffect
    <3>4. object'[i].max = object[i].max
      BY <3>1 DEF Alike
    <3>5. /\ pc'[g] = "retrying" => AttemptsLeft(object'[i]) > 0
          /\ pc'[g] = "burying" => ~(AttemptsLeft(object'[i]) > 0)
      BY <3>1, <3>2, <3>3, <3>4 DEF CanRetry, AttemptsLeft
    <3> QED
      BY <1>3, <3>1, <3>5 DEF StatusFits
  <2>4. CASE RetryJob(g)
    <3>1. object' = object /\ pc[g] = "retrying" /\ pc'[g] = "finished"
      BY <2>4 DEF RetryJob, Goto, MemoryTypes, MemoryShape
    <3> QED
      BY <1>3, <3>1 DEF StatusFits
  <2>5. CASE BuryJob(g)
    <3>1. pc'[g] = "finished" /\ delayed' = delayed
      BY <2>5 DEF BuryJob, MoveToDeadLetter, Goto, MemoryTypes, MemoryShape
    <3> QED
      BY <1>3, <3>1 DEF StatusFits
  <2> QED
    BY <2>1, <2>2, <2>3, <2>4, <2>5 DEF OwnerStep
<1>11. \A h \in Goroutines : Owns(h, i)' => h = g
  BY <1>3, <1>4, <1>5 DEF Owns
<1>12. PlaceKnown(i)'
  <2>1. ASSUME NEW h \in Goroutines, held'[h] = i
        PROVE  /\ StatusFits(pc'[h], object'[i])
               /\ pc'[h] = "dequeued" => ~Queued(i)'
    <3>1. CASE h = g
      BY <1>10, <3>1
    <3>2. CASE h # g
      <4>1. pc'[h] \notin Holding
        BY <1>11, <2>1, <3>2 DEF Owns
      <4> QED
        BY <4>1 DEF Holding, StatusFits
    <3> QED
      BY <3>1, <3>2
  <2>2. \A h, k \in Goroutines : Owns(h, i)' /\ Owns(k, i)' => h = k
    BY <1>11
  <2>3. i \in delayed' => \A h \in Goroutines : ~Owns(h, i)'
    BY <1>10, <1>11 DEF Owns, Holding
  <2> QED
    BY <1>3, <1>5, <1>8, <1>10, <2>1, <2>2, <2>3 DEF PlaceKnown
<1> QED
  BY <1>5, <1>9, <1>12 DEF PlacesKnown

\* Dequeue hands the only entry of a job to the goroutine; the last steps of
\* ProcessJob move no job.
LEMMA TakeKeepsPlaces ==
  ASSUME MemoryTypes, PlacesKnown, NEW g \in Goroutines,
         ProcessNextJob(g) \/ UpdateJob(g) \/ SaveJobHistory(g)
  PROVE  PlacesKnown'
<1>1. \A h \in Goroutines : h # g => pc'[h] = pc[h] /\ held'[h] = held[h]
  BY OtherGoroutines DEF ProcessJobs
<1>2. UNCHANGED <<object, stored, inflight, jobStorage, delayed>>
  BY DEF ProcessNextJob, Dequeue, UpdateJob, SaveJobHistory, storageVars, queueVars
<1>3. CASE ProcessNextJob(g)
  <2>1. PICK p \in Priorities, i \in Jobs : /\ Dequeue(p, i)
                                            /\ held' = [held EXCEPT ![g] = i]
    BY <1>3 DEF ProcessNextJob
  <2>2. /\ p \in QueueKeys /\ queues[p] # <<>> /\ i = Head(queues[p])
        /\ queues' = [queues EXCEPT ![p] = Tail(@)]
    BY <2>1 DEF Dequeue, QueueKeys
  <2>3. pc[g] = "idle" /\ pc'[g] = "dequeued" /\ held'[g] = i
    BY <1>3, <2>1 DEF ProcessNextJob, Goto, MemoryTypes, MemoryShape
  <2>4. ASSUME NEW j \in stored, j # i
        PROVE  PlaceKnown(j)'
    <3>1. PlaceKnown(j) /\ QueuedOnce(j)
      BY DEF PlacesKnown, PlaceKnown
    <3>2. (Queued(j)' => Queued(j)) /\ QueuedOnce(j)'
      BY <2>2, <3>1, QueueTail
    <3>3. \A h \in Goroutines : Owns(h, j)' => Owns(h, j) /\ pc'[h] = pc[h]
      BY <1>1, <2>3, <2>4 DEF Owns
    <3> QED
      BY <1>2, <3>1, <3>2, <3>3, Undisturbed
  <2>5. ASSUME i \in stored
        PROVE  PlaceKnown(i)'
    <3>1. PlaceKnown(i) /\ QueuedOnce(i)
      BY <2>5 DEF PlacesKnown, PlaceKnown
    <3>2. Queued(i) /\ ~Queued(i)' /\ QueuedOnce(i)'
      BY <2>2, <3>1, QueueTail
    <3>3. object[i].status = "pending"
      BY <3>1, <3>2 DEF PlaceKnown
    <3>4. ASSUME NEW h \in Goroutines
          PROVE  ~Owns(h, i)
      <4>1. held[h] = i => /\ StatusFits(pc[h], object[i])
                           /\ pc[h] = "dequeued" => ~Queued(i)
        BY <3>1 DEF PlaceKnown
      <4> QED
        BY <3>2, <3>3, <4>1 DEF Owns, StatusFits, Holding
    <3>5. \A h \in Goroutines : Owns(h, i)' => h = g
      BY <1>1, <3>4 DEF Owns
    <3>6. ASSUME NEW h \in Goroutines, held'[h] = i
          PROVE  /\ StatusFits(pc'[h], object'[i])
                 /\ pc'[h] = "dequeued" => ~Queued(i)'
      <4>1. h = g \/ pc'[h] \notin Holding
        BY <3>5, <3>6 DEF Owns
      <4> QED
        BY <1>2, <2>3, <3>2, <3>3, <4>1 DEF StatusFits, Holding
    <3>7. \A h, k \in Goroutines : Owns(h, i)' /\ Owns(k, i)' => h = k
      BY <3>5
    <3>8. /\ i \in inflight' => /\ object'[i].status \in {"pending", "scheduled"}
                                /\ i \notin jobStorage'
          /\ i \notin delayed'
          /\ Queued(i)' => object'[i].status = "pending"
      BY <1>2, <3>1, <3>2, <3>3 DEF PlaceKnown
    <3> QED
      BY <3>2, <3>6, <3>7, <3>8 DEF PlaceKnown
  <2> QED
    BY <1>2, <2>4, <2>5 DEF PlacesKnown
<1>4. CASE UpdateJob(g) \/ SaveJobHistory(g)
  <2>1. /\ pc'[g] \in {"idle", "record"} /\ queues' = queues
    BY <1>4
    DEF UpdateJob, SaveJobHistory, Goto, MemoryTypes, MemoryShape, queueVars
  <2>2. ASSUME NEW j \in stored
        PROVE  PlaceKnown(j)'
    <3>1. PlaceKnown(j) /\ QueuedOnce(j)
      BY DEF PlacesKnown, PlaceKnown
    <3>2. (Queued(j)' => Queued(j)) /\ QueuedOnce(j)'
      BY <2>1, <3>1 DEF Queued, QueuedOnce
    <3>3. \A h \in Goroutines : Owns(h, j)' => Owns(h, j) /\ pc'[h] = pc[h]
      BY <1>1, <2>1 DEF Owns, Holding
    <3> QED
      BY <1>2, <3>1, <3>2, <3>3, Undisturbed
  <2> QED
    BY <1>2, <2>2 DEF PlacesKnown
<1> QED
  BY <1>3, <1>4

\* Requests and the delayed-job loop make no second copy of a job.
LEMMA SchedulerKeepsPlaces ==
  ASSUME MemoryTypes, PlacesKnown,
         Request \/ Reply \/ ProcessDelayedJobs \/ TimePasses
  PROVE  PlacesKnown'
<1>0. pc' = pc /\ held' = held
  BY DEF Request, Reply, ScheduleJob, EnqueueJob, ProcessDelayedJobs,
         TimePasses, workerVars
<1>a. \A j : \A h \in Goroutines : Owns(h, j)' => Owns(h, j) /\ pc'[h] = pc[h]
  BY <1>0 DEF Owns
<1>b. \A j \in stored : PlaceKnown(j) /\ QueuedOnce(j) /\ j \in Jobs
  BY DEF PlacesKnown, PlaceKnown, MemoryTypes, MemoryShape
<1>c. \A j \in Jobs : j \notin jobStorage =>
        ~Queued(j) /\ QueuedOnce(j) /\ j \notin delayed
        /\ \A h \in Goroutines : ~Owns(h, j)
  BY DEF MemoryTypes, MemoryTypeOK, Queued, QueuedOnce, Owns, Holding
<1>1. ASSUME NEW i \in Jobs, NEW order \in Orders, ScheduleJob(i, order)
      PROVE  PlacesKnown'
  <2> DEFINE job == NewJob(i, order.request)
  <2>1. job.status \in {"pending", "scheduled"}
    BY NewJobType
  <2> HIDE DEF job
  <2>2. /\ submitted[i] = NoJob /\ object' = [object EXCEPT ![i] = job]
        /\ stored' = stored \cup {i} /\ inflight' = inflight \cup {i}
        /\ queues' = queues /\ jobStorage' = jobStorage /\ delayed' = delayed
    BY <1>1 DEF ScheduleJob, SaveJob, queueVars, job
  <2>3. i \notin jobStorage /\ object'[i] = job
        /\ \A j \in Jobs : j # i => object'[j] = object[j]
    BY <2>2 DEF MemoryTypes, MemoryTypeOK, MemoryShape
  <2>4. \A j : (Queued(j)' <=> Queued(j)) /\ (QueuedOnce(j)' <=> QueuedOnce(j))
    BY <2>2 DEF Queued, QueuedOnce
  <2>5. \A j \in stored : j # i => PlaceKnown(j)'
    BY <1>a, <1>b, <2>2, <2>3, <2>4, Undisturbed
  <2>6. PlaceKnown(i)'
    <3>1. ~Queued(i)' /\ QueuedOnce(i)' /\ i \notin delayed'
          /\ \A h \in Goroutines : ~Owns(h, i)'
      BY <1>a, <1>c, <2>2, <2>3, <2>4
    <3>2. \A h \in Goroutines : held'[h] = i =>
            /\ StatusFits(pc'[h], object'[i])
            /\ pc'[h] = "dequeued" => ~Queued(i)'
      BY <3>1, NoOwnerFits DEF Owns
    <3> QED
      BY <2>1, <2>2, <2>3, <3>1, <3>2 DEF PlaceKnown
  <2> QED
    BY <2>2, <2>5, <2>6 DEF PlacesKnown
<1>2. ASSUME NEW i \in inflight, EnqueueJob(i)
      PROVE  PlacesKnown'
  <2>1. /\ i \in stored /\ i \in Jobs /\ object[i].priority \in QueueKeys
        /\ object[i].status \in {"pending", "scheduled"} /\ i \notin jobStorage
    BY <1>2
    DEF PlacesKnown, PlaceKnown, MemoryTypes, MemoryTypeOK, MemoryShape, Alike
  <2>2. /\ inflight' = inflight \ {i} /\ jobStorage' = jobStorage \cup {i}
        /\ object' = object /\ stored' = stored
    BY <1>2 DEF EnqueueJob, Enqueue, EnqueueDelayed, storageVars
  <2>3. ~Queued(i) /\ i \notin delayed /\ \A h \in Goroutines : ~Owns(h, i)
    BY <1>c, <2>1
  <2>4. \/ /\ object[i].status = "scheduled" /\ queues' = queues
           /\ delayed' = delayed \cup {i}
        \/ /\ object[i].status = "pending" /\ delayed' = delayed
           /\ queues' = [queues EXCEPT ![object[i].priority] = Append(@, i)]
    BY <1>2, <2>1 DEF EnqueueJob, Enqueue, EnqueueDelayed
  <2>5. \A j : QueuedOnce(j) => QueuedOnce(j)'
    <3>1. CASE queues' = queues
      BY <3>1 DEF QueuedOnce
    <3>2. CASE queues' = [queues EXCEPT ![object[i].priority] = Append(@, i)]
      BY <2>1, <2>3, <3>2, QueueAppend
    <3> QED
      BY <2>4, <3>1, <3>2
  <2>6. \A j : Queued(j)' => Queued(j) \/ (j = i /\ object[i].status = "pending")
    <3>1. CASE queues' = queues
      BY <3>1 DEF Queued
    <3>2. CASE queues' # queues
      BY <2>1, <2>4, <3>2, QueueAppend
    <3> QED
      BY <3>1, <3>2
  <2>7. ASSUME NEW j \in stored, j # i
        PROVE  PlaceKnown(j)'
    <3>1. PlaceKnown(j) /\ QueuedOnce(j)'
      BY <1>b, <2>5
    <3>2. Queued(j)' => Queued(j)
      BY <2>6, <2>7
    <3> QED
      BY <1>a, <2>2, <2>4, <2>7, <3>1, <3>2, Undisturbed
  <2>8. PlaceKnown(i)'
    <3>1. QueuedOnce(i)'
      BY <1>b, <2>1, <2>5
    <3>2. \A h \in Goroutines : ~Owns(h, i)'
      BY <1>a, <2>3
    <3>3. \A h \in Goroutines : held'[h] = i =>
            /\ StatusFits(pc'[h], object'[i])
            /\ pc'[h] = "dequeued" => ~Queued(i)'
      BY <3>2, NoOwnerFits DEF Owns
    <3>4. /\ i \in delayed' => object'[i].status = "scheduled"
          /\ Queued(i)' => object'[i].status = "pending"
      BY <2>2, <2>3, <2>4, <2>6
    <3> QED
      BY <2>2, <3>1, <3>2, <3>3, <3>4 DEF PlaceKnown
  <2> QED
    BY <2>2, <2>7, <2>8 DEF PlacesKnown
<1>3. CASE ProcessDelayedJobs
  <2>1. /\ delayed' = delayed \ due /\ stored' = stored /\ inflight' = inflight
        /\ jobStorage' = jobStorage
        /\ object' = [j \in Jobs |-> IF j \in due
                                       THEN [object[j] EXCEPT !.status = "pending"]
                                       ELSE object[j]]
    BY <1>3 DEF ProcessDelayedJobs, storageVars
  <2>2. due \subseteq delayed /\ delayed \subseteq jobStorage
    BY DEF MemoryTypes, MemoryTypeOK
  <2>3. ASSUME NEW j \in stored, j \notin due
        PROVE  PlaceKnown(j)'
    <3>1. Queued(j)' => Queued(j)
      BY <1>3, <2>3, QueueReady
    <3>2. QueuedOnce(j)'
      BY <1>3, <1>b, <2>3, QueueReady
    <3>3. object'[j] = object[j]
      BY <1>b, <2>1, <2>3
    <3> QED
      BY <1>a, <1>b, <2>1, <3>1, <3>2, <3>3, Undisturbed
  <2>4. ASSUME NEW j \in stored, j \in due
        PROVE  PlaceKnown(j)'
    <3>1. PlaceKnown(j) /\ j \in delayed /\ j \in jobStorage /\ j \in Jobs
      BY <1>b, <2>2, <2>4
    <3>2. /\ object[j].status = "scheduled" /\ ~Queued(j) /\ j \notin inflight
          /\ \A h \in Goroutines : ~Owns(h, j)
      BY <3>1 DEF PlaceKnown
    <3>3. QueuedOnce(j)'
      BY <1>3, <1>b, <3>2, QueueReady
    <3>4. object[j] \in Job
      BY <1>b DEF MemoryTypes, MemoryShape, Alike
    <3>5. object'[j].status = "pending"
      BY <2>1, <2>4, <3>1, <3>4 DEF Job
    <3>6. \A h \in Goroutines : ~Owns(h, j)'
      BY <1>a, <3>2
    <3>7. \A h \in Goroutines : held'[h] = j =>
            /\ StatusFits(pc'[h], object'[j])
            /\ pc'[h] = "dequeued" => ~Queued(j)'
      BY <3>6, NoOwnerFits DEF Owns
    <3> QED
      BY <2>1, <2>4, <3>2, <3>3, <3>5, <3>6, <3>7 DEF PlaceKnown
  <2> QED
    BY <2>1, <2>3, <2>4 DEF PlacesKnown
<1>4. CASE TimePasses
  <2>1. UNCHANGED <<object, stored, inflight, jobStorage, delayed, queues>>
    BY <1>4 DEF TimePasses, storageVars
  <2>2. \A j : (Queued(j)' <=> Queued(j)) /\ (QueuedOnce(j)' <=> QueuedOnce(j))
    BY <2>1 DEF Queued, QueuedOnce
  <2>3. \A j \in stored : PlaceKnown(j)'
    BY <1>a, <1>b, <2>1, <2>2, Undisturbed
  <2> QED
    BY <2>1, <2>3 DEF PlacesKnown
<1> QED
  BY <1>1, <1>2, <1>3, <1>4 DEF Request, Reply

\* Every step keeps track of where jobs are.
LEMMA PlacesPreserved ==
  ASSUME MemoryTypes, PlacesKnown, [MemoryNext]_memoryVars
  PROVE  PlacesKnown'
<1>1. CASE UNCHANGED memoryVars
  BY <1>1
  DEF memoryVars, storageVars, queueVars, workerVars, PlacesKnown, PlaceKnown,
      Queued, QueuedOnce, Owns
<1>2. CASE MemoryNext
  BY <1>2, SchedulerKeepsPlaces, OwnerKeepsPlaces, TakeKeepsPlaces
  DEF MemoryNext, ProcessJobs, OwnerStep, Marks
<1> QED
  BY <1>1, <1>2

\* In every reachable state the status says who has the job.
THEOREM PlacesAlwaysKnown == MemorySpec => []PlacesKnown
<1>1. MemoryInit => PlacesKnown
  BY DEF MemoryInit, PlacesKnown
<1> QED
  BY <1>1, MemoryTypesHold, PlacesPreserved, PTL DEF MemorySpec

-----------------------------------------------------------------------------
(***************************************************************************)
(* What a step does to the life of a job.                                  *)
(***************************************************************************)
Buried(j) == j \in Range(deadLetter)

\* The step is about the job's status, not about these.
SameTallies(j) == starts'[j] = starts[j] /\ done'[j] = done[j] /\ lost'[j] = lost[j]

SamePlan(j) ==
  /\ submitted'[j] = submitted[j] /\ payload'[j] = payload[j]
  /\ object'[j].max = object[j].max /\ object'[j].type = object[j].type

(***************************************************************************)
(* How far the job has got for the service behind its handler and for the  *)
(* queues: its status, but ahead of it once the handler has returned nil   *)
(* and behind it until EnqueueDelayed or MoveToDeadLetter has the job.     *)
(***************************************************************************)
Stage(j) ==
  IF At(j, "succeeded") THEN "completed"
  ELSE IF At(j, "retrying") \/ At(j, "burying") THEN "failed"
  ELSE object[j].status

\* Which stage goes with the step of the goroutine that owns the job.
StageAt(step) ==
  IF step = "dequeued" THEN "pending"
  ELSE IF step \in {"executing", "erred"} THEN "processing"
  ELSE IF step = "succeeded" THEN "completed"
  ELSE "failed"

Status(j, from, to) == Stage(j) = from /\ Stage(j)' = to

SameAttempts(j) == object'[j].attempts = object[j].attempts

\* The step is not about the job, unless it comes back from delayedJobs.
Untouched(j) ==
  /\ Stage(j)' = Stage(j) \/ Status(j, "scheduled", "pending")
  /\ SameAttempts(j) /\ SameTallies(j) /\ SamePlan(j)
  /\ Buried(j)' <=> Buried(j)
  /\ Running(j)' <=> Running(j)

Begins(j) ==
  /\ Status(j, "pending", "processing")
  /\ SameAttempts(j) /\ SamePlan(j)
  /\ starts'[j] = starts[j] + 1 /\ done'[j] = done[j] /\ lost'[j] = lost[j]
  /\ Buried(j)' <=> Buried(j)
  /\ ~Running(j) /\ Running(j)'

Succeeds(j) ==
  /\ Status(j, "processing", "completed")
  /\ SameAttempts(j) /\ SamePlan(j)
  /\ starts'[j] = starts[j] /\ done'[j] = done[j] + 1 /\ lost'[j] = lost[j]
  /\ Buried(j)' <=> Buried(j)
  /\ Running(j)

\* An error that hides what the service has done.
Errs(j) ==
  /\ Status(j, "processing", "processing")
  /\ SameAttempts(j) /\ SamePlan(j)
  /\ starts'[j] = starts[j]
  /\ done'[j] = done[j] + 1 /\ lost'[j] = lost[j] + 1
  /\ Buried(j)' <=> Buried(j)
  /\ Running(j) /\ Running(j)'

Fails(j) ==
  /\ Status(j, "processing", "failed")
  /\ object'[j].attempts = object[j].attempts + 1 /\ SamePlan(j)
  /\ SameTallies(j)
  /\ Buried(j)' <=> Buried(j)
  /\ Running(j) /\ Running(j)'

Retries(j) ==
  /\ Status(j, "failed", "scheduled") /\ AttemptsLeft(object[j]) > 0
  /\ SameAttempts(j) /\ SameTallies(j) /\ SamePlan(j)
  /\ Buried(j)' <=> Buried(j)
  /\ Running(j) /\ ~Running(j)'

Buries(j) ==
  /\ Status(j, "failed", "dead") /\ ~(AttemptsLeft(object[j]) > 0)
  /\ SameAttempts(j) /\ SameTallies(j) /\ SamePlan(j)
  /\ Buried(j)'
  /\ Running(j)

Advances(j) ==
  Begins(j) \/ Succeeds(j) \/ Errs(j) \/ Fails(j) \/ Retries(j) \/ Buries(j)

\* The stage of a job that a goroutine owns.
LEMMA StageOwned ==
  ASSUME MemoryTypes, PlacesKnown, NEW g \in Goroutines, pc[g] \in Holding
  PROVE  Stage(held[g]) = StageAt(pc[g])
<1> DEFINE j == held[g]
<1>1. /\ StatusFits(pc[g], object[j])
      /\ \A h \in Goroutines : Owns(h, j) => h = g
  BY OwnedAlone
<1>2. /\ At(j, "succeeded") <=> pc[g] = "succeeded"
      /\ At(j, "retrying") <=> pc[g] = "retrying"
      /\ At(j, "burying") <=> pc[g] = "burying"
  BY <1>1 DEF At, Owns, Holding
<1> QED
  BY <1>1, <1>2 DEF Stage, StageAt, StatusFits, Holding

\* The stage of a job that none owns.
LEMMA StageFree ==
  ASSUME NEW j, \A g \in Goroutines : ~Owns(g, j)
  PROVE  Stage(j) = object[j].status
<1>1. ~At(j, "succeeded") /\ ~At(j, "retrying") /\ ~At(j, "burying")
  BY DEF At, Owns, Holding
<1> QED
  BY <1>1 DEF Stage

\* The dead letter list after one more entry.
LEMMA RangeAppend ==
  ASSUME NEW S, NEW s \in Seq(S), NEW i \in S, NEW j
  PROVE  j \in Range(Append(s, i)) <=> j \in Range(s) \/ j = i
<1>1. /\ Len(s) \in Nat /\ DOMAIN s = 1 .. Len(s)
      /\ DOMAIN Append(s, i) = 1 .. (Len(s) + 1)
      /\ \A k \in DOMAIN s : Append(s, i)[k] = s[k]
      /\ Append(s, i)[Len(s) + 1] = i
  OBVIOUS
<1>2. j \in Range(s) <=> \E k \in DOMAIN s : s[k] = j
  BY Zenon DEF Range
<1>3. /\ j \in Range(Append(s, i))
          <=> \E k \in DOMAIN Append(s, i) : Append(s, i)[k] = j
  BY Zenon DEF Range
<1>4. (\E k \in DOMAIN Append(s, i) : Append(s, i)[k] = j)
        <=> (\E k \in DOMAIN s : s[k] = j) \/ j = i
  BY <1>1
<1> QED
  BY <1>2, <1>3, <1>4, Zenon

\* No step of requests, of the delayed-job loop or of the clock is about the
\* life of a job that is in storage already.
LEMMA SchedulerStep ==
  ASSUME MemoryTypes, PlacesKnown,
         Request \/ Reply \/ ProcessDelayedJobs \/ TimePasses
  PROVE  \A j \in stored : Untouched(j)
<1> SUFFICES ASSUME NEW j \in stored
             PROVE  Untouched(j)
  OBVIOUS
<1>0. j \in Jobs /\ submitted[j] # NoJob /\ object[j] \in Job
  BY DEF MemoryTypes, MemoryShape, Alike
<1>s. ASSUME object'[j].status = object[j].status
      PROVE  Stage(j)' = Stage(j)
  <2>1. pc' = pc /\ held' = held
    BY DEF Request, Reply, ScheduleJob, EnqueueJob, ProcessDelayedJobs,
           TimePasses, workerVars
  <2> QED
    BY <1>s, <2>1 DEF Stage, At
<1>1. UNCHANGED <<pc, held, deadLetter, starts, done, lost>>
  BY DEF Request, Reply, ScheduleJob, EnqueueJob, Enqueue, EnqueueDelayed,
         ProcessDelayedJobs, TimePasses, workerVars, tallies, queueVars
<1>2. (Running(j)' <=> Running(j)) /\ (Buried(j)' <=> Buried(j)) /\ SameTallies(j)
  BY <1>1 DEF Running, Buried, SameTallies
<1>3. CASE Request
  <2>1. PICK i \in Jobs, order \in Orders : ScheduleJob(i, order)
    BY <1>3 DEF Request
  <2>2. /\ i # j
        /\ submitted'[j] = submitted[j] /\ payload'[j] = payload[j]
        /\ object'[j] = object[j]
    BY <1>0, <2>1 DEF ScheduleJob, SaveJob, MemoryTypes, MemoryTypeOK, MemoryShape
  <2> QED
    BY <1>2, <1>s, <2>2 DEF Untouched, SameAttempts, SamePlan
<1>4. CASE Reply \/ TimePasses
  <2>1. UNCHANGED <<object, submitted, payload>>
    BY <1>4 DEF Reply, EnqueueJob, TimePasses, clientVars
  <2> QED
    BY <1>2, <1>s, <2>1 DEF Untouched, SameAttempts, SamePlan
<1>5. CASE ProcessDelayedJobs
  <2>1. /\ UNCHANGED <<submitted, payload>>
        /\ object'[j] = IF j \in due THEN [object[j] EXCEPT !.status = "pending"]
                                     ELSE object[j]
    BY <1>0, <1>5 DEF ProcessDelayedJobs, clientVars
  <2>2. j \in due => /\ object[j].status = "scheduled"
                     /\ \A g \in Goroutines : ~Owns(g, j)
    BY DEF MemoryTypes, MemoryTypeOK, PlacesKnown, PlaceKnown
  <2>3. /\ object'[j].max = object[j].max /\ object'[j].type = object[j].type
        /\ object'[j].attempts = object[j].attempts
        /\ object'[j].status = IF j \in due THEN "pending" ELSE object[j].status
    BY <1>0, <2>1 DEF Job
  <2>4. j \in due => Status(j, "scheduled", "pending")
    <3> SUFFICES ASSUME j \in due PROVE Status(j, "scheduled", "pending")
      OBVIOUS
    <3>1. Stage(j) = "scheduled"
      BY <2>2, StageFree
    <3>2. Stage(j)' = object'[j].status
      <4>1. /\ At(j, "succeeded")' <=> At(j, "succeeded")
            /\ At(j, "retrying")' <=> At(j, "retrying")
            /\ At(j, "burying")' <=> At(j, "burying")
        BY <1>1 DEF At
      <4>2. ~At(j, "succeeded") /\ ~At(j, "retrying") /\ ~At(j, "burying")
        BY <2>2 DEF At, Owns, Holding
      <4> QED
        BY <4>1, <4>2 DEF Stage
    <3> QED
      BY <2>3, <3>1, <3>2 DEF Status
  <2> QED
    BY <1>2, <1>s, <2>1, <2>3, <2>4 DEF Untouched, SameAttempts, SamePlan
<1> QED
  BY <1>3, <1>4, <1>5

\* A step of a goroutine advances the job it has, or none, and no other.
LEMMA GoroutineStep ==
  ASSUME MemoryTypes, PlacesKnown, NEW g \in Goroutines, ProcessJobs(g)
  PROVE  /\ stored' = stored
         /\ \/ \A j \in stored : Untouched(j)
            \/ \E i \in stored : /\ Advances(i)
                                 /\ \A j \in stored \ {i} : Untouched(j)
<1>1. \A h \in Goroutines : h # g => pc'[h] = pc[h] /\ held'[h] = held[h]
  BY OtherGoroutines
<1>3. CASE ProcessNextJob(g) \/ UpdateJob(g) \/ SaveJobHistory(g)
  <2>1. /\ UNCHANGED <<object, stored, submitted, payload, starts, done, lost,
                       deadLetter>>
        /\ pc[g] \in {"idle", "finished", "record"}
        /\ pc'[g] \in {"dequeued", "record", "idle"}
    BY <1>3
    DEF ProcessNextJob, Dequeue, UpdateJob, SaveJobHistory, Goto, MemoryTypes,
        MemoryShape, tallies, queueVars, storageVars, clientVars
  <2>2. \A j : /\ Running(j)' <=> Running(j)
               /\ At(j, "succeeded")' <=> At(j, "succeeded")
               /\ At(j, "retrying")' <=> At(j, "retrying")
               /\ At(j, "burying")' <=> At(j, "burying")
    BY <1>1, <2>1 DEF Running, At
  <2>3. \A j \in stored : Untouched(j)
    BY <2>1, <2>2
    DEF Untouched, SameAttempts, SameTallies, SamePlan, Buried, Stage
  <2> QED
    BY <2>1, <2>3
<1>4. CASE OwnerStep(g)
  <2>1. /\ pc[g] \in Holding
        /\ UNCHANGED <<stored, held, submitted, payload>>
    BY <1>4, OwnerEffect
  <2>2. PICK i \in stored : i = held[g] /\ i \in Jobs
    BY <2>1, OwnedAlone
  <2>3. /\ object[i] \in Job /\ i \in jobStorage
        /\ \A h \in Goroutines : Owns(h, i) => h = g
        /\ Stage(i) = StageAt(pc[g])
    BY <2>1, <2>2, OwnedAlone, StageOwned
  <2>4. deadLetter \in Seq(jobStorage)
    BY DEF MemoryTypes, MemoryTypeOK
  <2>5. \A step \in Holding : At(i, step)' <=> pc'[g] = step
    BY <1>1, <2>1, <2>2, <2>3 DEF At, Owns
  <2>6. Stage(i)' = IF pc'[g] = "succeeded" THEN "completed"
                    ELSE IF pc'[g] \in {"retrying", "burying"} THEN "failed"
                    ELSE object'[i].status
    BY <2>5 DEF Stage, Holding
  <2>7. \A j \in stored \ {i} : Untouched(j)
    <3> SUFFICES ASSUME NEW j \in stored, j # i
                 PROVE  Untouched(j)
      OBVIOUS
    <3>1. j \in Jobs
      BY DEF MemoryTypes, MemoryShape
    <3>2. object'[j] = object[j]
      BY <1>4, <2>2, <3>1, OwnerEffect
    <3>3. SameTallies(j) /\ (deadLetter' = deadLetter \/ deadLetter' = Append(deadLetter, i))
      <4>1. CASE Marks(g)
        BY <4>1, MarkEffect DEF SameTallies
      <4>2. CASE ~Marks(g)
        BY <1>4, <2>2, <3>1, <4>2
        DEF OwnerStep, StartJob, HandlerSucceeds, HandlerFails, Hidden, RetryJob,
            BuryJob, EnqueueDelayed, MoveToDeadLetter, MemoryTypes, MemoryTypeOK,
            MemoryShape, SameTallies, tallies, queueVars
      <4> QED
        BY <4>1, <4>2
    <3>4. /\ Running(j)' <=> Running(j)
          /\ At(j, "succeeded")' <=> At(j, "succeeded")
          /\ At(j, "retrying")' <=> At(j, "retrying")
          /\ At(j, "burying")' <=> At(j, "burying")
      BY <1>1, <2>1, <2>2 DEF Running, At
    <3>5. Buried(j)' <=> Buried(j)
      BY <2>3, <2>4, <3>3, RangeAppend DEF Buried
    <3> QED
      BY <2>1, <3>2, <3>3, <3>4, <3>5
      DEF Untouched, SameAttempts, SamePlan, Stage
  <2>8. SUFFICES Advances(i) \/ Untouched(i)
    BY <2>1, <2>7
  <2>9. Running(i) <=> pc[g] \in Holding \ {"dequeued", "succeeded"}
    BY <2>1, <2>2, <2>3 DEF Running, Owns, Holding
  <2>10. Running(i)' <=> pc'[g] \in Holding \ {"dequeued", "succeeded"}
    BY <1>1, <2>1, <2>2, <2>3 DEF Running, Owns, Holding
  <2>11. starts[i] \in Nat /\ starts[i] + 1 \in Nat /\ done[i] \in Nat /\ lost[i] \in Nat
    BY <2>2 DEF MemoryTypes, MemoryShape
  <2>12. CASE StartJob(g)
    <3>1. /\ object'[i] = MarkAsProcessing(object[i], starts[i] + 1)
          /\ starts'[i] = starts[i] + 1 /\ done' = done /\ lost' = lost
          /\ deadLetter' = deadLetter
          /\ pc[g] = "dequeued" /\ pc'[g] = "executing"
      BY <2>2, <2>12
      DEF StartJob, Goto, MemoryTypes, MemoryTypeOK, MemoryShape, queueVars
    <3>m. LET job == MarkAsProcessing(object[i], starts[i] + 1)
          IN  /\ job.status = "processing" /\ Alike(job, object[i])
              /\ job.attempts = object[i].attempts
      BY <2>3, <2>11, MarkFields
    <3>2. object'[i].status = "processing" /\ SameAttempts(i) /\ SamePlan(i)
      BY <2>1, <3>m, <3>1 DEF Alike, SameAttempts, SamePlan
    <3>3. Begins(i)
      BY <2>3, <2>6, <2>9, <2>10, <3>1, <3>2
      DEF Begins, Status, Buried, StageAt, Holding
    <3> QED
      BY <3>3 DEF Advances
  <2>13. CASE HandlerSucceeds(g)
    <3>1. /\ done'[i] = done[i] + 1 /\ UNCHANGED <<object, starts, lost, deadLetter>>
          /\ pc[g] = "executing" /\ pc'[g] = "succeeded"
      BY <2>2, <2>13
      DEF HandlerSucceeds, Goto, MemoryTypes, MemoryShape, queueVars
    <3>2. Succeeds(i)
      BY <2>1, <2>3, <2>6, <2>9, <3>1
      DEF Succeeds, Status, Buried, StageAt, Holding, SameAttempts, SamePlan
    <3> QED
      BY <3>2 DEF Advances
  <2>14. CASE HandlerFails(g)
    <3>1. /\ UNCHANGED <<object, starts, deadLetter>>
          /\ pc[g] = "executing" /\ pc'[g] = "erred"
      BY <2>14
      DEF HandlerFails, Goto, MemoryTypes, MemoryShape, queueVars
    <3>2. \/ done'[i] = done[i] /\ lost'[i] = lost[i]
          \/ done'[i] = done[i] + 1 /\ lost'[i] = lost[i] + 1
      BY <2>2, <2>14 DEF HandlerFails, Hidden, MemoryTypes, MemoryShape
    <3>3. Stage(i) = "processing" /\ Stage(i)' = object[i].status
      BY <2>3, <2>6, <3>1 DEF StageAt
    <3>4. object[i].status = "processing"
      BY <2>1, <2>2, <3>1, OwnedAlone DEF StatusFits
    <3>5. SameAttempts(i) /\ SamePlan(i) /\ (Buried(i)' <=> Buried(i))
          /\ Running(i) /\ Running(i)'
      BY <2>1, <2>9, <2>10, <3>1 DEF SameAttempts, SamePlan, Buried, Holding
    <3>6. Errs(i) \/ Untouched(i)
      BY <3>1, <3>2, <3>3, <3>4, <3>5 DEF Errs, Untouched, Status, SameTallies
    <3> QED
      BY <3>6 DEF Advances
  <2>15. CASE Marks(g)
    <3>1. SamePlan(i) /\ SameTallies(i) /\ (Buried(i)' <=> Buried(i))
      BY <2>1, <2>2, <2>15, MarkEffect
      DEF SamePlan, SameTallies, Buried, Alike
    <3>2. \/ /\ pc[g] = "succeeded" /\ pc'[g] = "finished"
             /\ object'[i].status = "completed" /\ SameAttempts(i)
          \/ /\ pc[g] = "erred" /\ pc'[g] = "failed"
             /\ object'[i].status = "failed"
             /\ object'[i].attempts = object[i].attempts + 1
          \/ /\ pc[g] = "failed" /\ pc'[g] \in {"retrying", "burying"}
             /\ SameAttempts(i)
      BY <2>2, <2>15, MarkEffect DEF SameAttempts
    <3>3. Fails(i) \/ Untouched(i)
      BY <2>3, <2>6, <2>9, <2>10, <3>1, <3>2
      DEF Fails, Untouched, Status, StageAt, Holding
    <3> QED
      BY <3>3 DEF Advances
  <2>16. CASE RetryJob(g)
    <3>1. /\ UNCHANGED <<object, starts, done, lost, deadLetter>>
          /\ pc[g] = "retrying" /\ pc'[g] = "finished"
      BY <2>16
      DEF RetryJob, EnqueueDelayed, Goto, MemoryTypes, MemoryShape, tallies
    <3>2. object[i].status = "scheduled" /\ AttemptsLeft(object[i]) > 0
      BY <2>1, <2>2, <3>1, OwnedAlone DEF StatusFits
    <3>3. Retries(i)
      BY <2>1, <2>3, <2>6, <2>9, <2>10, <3>1, <3>2
      DEF Retries, Status, Buried, StageAt, Holding, SameAttempts, SamePlan,
          SameTallies
    <3> QED
      BY <3>3 DEF Advances
  <2>17. CASE BuryJob(g)
    <3>1. /\ UNCHANGED <<object, starts, done, lost>>
          /\ deadLetter' = Append(deadLetter, i)
          /\ pc[g] = "burying" /\ pc'[g] = "finished"
      BY <2>2, <2>17
      DEF BuryJob, MoveToDeadLetter, Goto, MemoryTypes, MemoryShape, tallies
    <3>2. object[i].status = "dead" /\ ~(AttemptsLeft(object[i]) > 0)
      BY <2>1, <2>2, <3>1, OwnedAlone DEF StatusFits
    <3>3. Buried(i)'
      BY <2>3, <2>4, <3>1, RangeAppend DEF Buried
    <3>4. Buries(i)
      BY <2>1, <2>3, <2>6, <2>9, <3>1, <3>2, <3>3
      DEF Buries, Status, StageAt, Holding, SameAttempts, SamePlan, SameTallies
    <3> QED
      BY <3>4 DEF Advances
  <2> QED
    BY <1>4, <2>12, <2>13, <2>14, <2>15, <2>16, <2>17 DEF OwnerStep
<1> QED
  BY <1>3, <1>4 DEF ProcessJobs, OwnerStep, Marks

\* Every step advances one job in storage or none.
LEMMA LifeStep ==
  ASSUME MemoryTypes, PlacesKnown, [MemoryNext]_memoryVars
  PROVE  \/ \A j \in stored : Untouched(j)
         \/ stored' = stored /\ \E i \in stored :
              Advances(i) /\ \A j \in stored \ {i} : Untouched(j)
<1>1. CASE UNCHANGED memoryVars
  <2>1. UNCHANGED <<object, submitted, payload, starts, done, lost, deadLetter,
                    pc, held>>
    BY <1>1
    DEF memoryVars, queueVars, workerVars, clientVars, tallies
  <2> QED
    BY <2>1
    DEF Untouched, SameAttempts, SameTallies, SamePlan, Buried, Running, Stage, At
<1>2. CASE MemoryNext
  BY <1>2, SchedulerStep, GoroutineStep DEF MemoryNext
<1> QED
  BY <1>1, <1>2

\* What it does to one of them.
LEMMA JobStep ==
  ASSUME MemoryTypes, PlacesKnown, [MemoryNext]_memoryVars, NEW j \in stored
  PROVE  Untouched(j) \/ Advances(j)
BY LifeStep

\* Whatever is in a queue, on the dead letter list or with a goroutine has
\* been in storage before.
LEMMA NothingBefore ==
  ASSUME MemoryTypes, NEW j \in Jobs, j \notin stored
  PROVE  /\ ~Buried(j) /\ object[j] = NoJob
         /\ ~Running(j) /\ \A g \in Goroutines : ~Owns(g, j)
         /\ submitted[j] = NoJob /\ starts[j] = 0 /\ done[j] = 0 /\ lost[j] = 0
<1>1. /\ jobStorage \subseteq stored /\ deadLetter \in Seq(jobStorage)
      /\ object[j] = NoJob /\ submitted[j] = NoJob
      /\ starts[j] = 0 /\ done[j] = 0 /\ lost[j] = 0
  BY DEF MemoryTypes, MemoryTypeOK, MemoryShape
<1>2. \A k \in DOMAIN deadLetter : deadLetter[k] # j
  BY <1>1
<1>3. ~Buried(j)
  BY <1>2, Zenon DEF Buried, Range
<1>4. ~Running(j) /\ \A g \in Goroutines : ~Owns(g, j)
  BY HeldJob DEF Running, Owns, Holding
<1> QED
  BY <1>1, <1>3, <1>4

\* A job comes into storage by ScheduleJob only, as a new job.
LEMMA Arrival ==
  ASSUME MemoryTypes, [MemoryNext]_memoryVars, NEW j \in stored', j \notin stored
  PROVE  /\ j \in Jobs
         /\ \E order \in Orders :
              /\ submitted'[j] = NewJob(j, order.request)
              /\ object'[j] = submitted'[j]
         /\ object'[j] \in Job /\ object'[j].status \in {"pending", "scheduled"}
         /\ ~Buried(j)' /\ ~Running(j)' /\ Stage(j)' = object'[j].status
         /\ starts'[j] = 0 /\ done'[j] = 0 /\ lost'[j] = 0
         /\ stored' = stored \cup {j}
<1>1. PICK i \in Jobs, order \in Orders : ScheduleJob(i, order)
  <2>1. CASE UNCHANGED memoryVars
    BY <2>1 DEF memoryVars, storageVars
  <2>2. CASE MemoryNext /\ ~Request
    BY <2>2
    DEF MemoryNext, Reply, EnqueueJob, ProcessDelayedJobs, TimePasses,
        ProcessJobs, ProcessNextJob, StartJob, HandlerSucceeds, HandlerFails,
        HandleJobSuccess, HandleJobFailure, MarkRetry, RetryJob, MarkDead,
        BuryJob, Mark, UpdateJob, SaveJobHistory, storageVars
  <2> QED
    BY <2>1, <2>2 DEF Request
<1>2. /\ stored' = stored \cup {i}
      /\ submitted' = [submitted EXCEPT ![i] = NewJob(i, order.request)]
      /\ object' = [object EXCEPT ![i] = NewJob(i, order.request)]
      /\ UNCHANGED <<deadLetter, pc, held, starts, done, lost>>
  BY <1>1 DEF ScheduleJob, SaveJob, queueVars, workerVars, tallies
<1>3. j = i
  BY <1>2
<1>4. /\ submitted'[j] = NewJob(j, order.request)
      /\ object'[j] = NewJob(j, order.request)
  BY <1>2, <1>3 DEF MemoryTypes, MemoryTypeOK, MemoryShape
<1>5. /\ NewJob(j, order.request) \in Job
      /\ NewJob(j, order.request).status \in {"pending", "scheduled"}
  BY <1>3, NewJobType
<1>6. /\ ~Buried(j) /\ ~Running(j) /\ \A g \in Goroutines : ~Owns(g, j)
      /\ starts[j] = 0 /\ done[j] = 0 /\ lost[j] = 0
  BY <1>3, NothingBefore
<1>7. (Buried(j)' <=> Buried(j)) /\ (Running(j)' <=> Running(j))
  BY <1>2 DEF Buried, Running
<1>8. Stage(j)' = object'[j].status
  <2>1. ~At(j, "succeeded")' /\ ~At(j, "retrying")' /\ ~At(j, "burying")'
    BY <1>2, <1>6 DEF At, Owns, Holding
  <2> QED
    BY <2>1 DEF Stage
<1> QED
  BY <1>2, <1>3, <1>4, <1>5, <1>6, <1>7, <1>8

-----------------------------------------------------------------------------
(***************************************************************************)
(* The shared status is true.                                              *)
(***************************************************************************)

(***************************************************************************)
(* The stage of a job is true: it is completed exactly if its service has  *)
(* carried it out once more than errors have hidden, and dead exactly if   *)
(* it is a dead letter.                                                    *)
(***************************************************************************)
StagesTrue ==
  \A j \in stored :
    /\ done[j] = lost[j] + (IF Stage(j) = "completed" THEN 1 ELSE 0)
    /\ Stage(j) = "dead" <=> Buried(j)

LEMMA StagesAlwaysTrue == MemorySpec => []StagesTrue
<1>1. MemoryInit => StagesTrue
  BY DEF MemoryInit, StagesTrue
<1>2. MemoryTypes /\ PlacesKnown /\ StagesTrue /\ [MemoryNext]_memoryVars
        => StagesTrue'
  <2> SUFFICES ASSUME MemoryTypes, PlacesKnown, StagesTrue,
                      [MemoryNext]_memoryVars, NEW j \in stored'
               PROVE  /\ done'[j] = lost'[j] +
                           (IF Stage(j)' = "completed" THEN 1 ELSE 0)
                      /\ Stage(j)' = "dead" <=> Buried(j)'
    BY DEF StagesTrue
  <2>1. CASE j \notin stored
    BY <2>1, Arrival
  <2>2. CASE j \in stored
    <3>1. /\ done[j] = lost[j] + (IF Stage(j) = "completed" THEN 1 ELSE 0)
          /\ Stage(j) = "dead" <=> Buried(j)
          /\ done[j] \in Nat /\ lost[j] \in Nat
      BY <2>2 DEF StagesTrue, MemoryTypes, MemoryShape
    <3>2. CASE Untouched(j)
      BY <3>1, <3>2 DEF Untouched, SameTallies, Status
    <3>3. CASE Begins(j) \/ Succeeds(j)
      BY <3>1, <3>3 DEF Begins, Succeeds, Status
    <3>4. CASE Errs(j) \/ Fails(j)
      BY <3>1, <3>4 DEF Errs, Fails, SameTallies, Status
    <3>5. CASE Retries(j) \/ Buries(j)
      BY <3>1, <3>5 DEF Retries, Buries, SameTallies, Status
    <3> QED
      BY <2>2, <3>2, <3>3, <3>4, <3>5, JobStep DEF Advances
  <2> QED
    BY <2>1, <2>2
<1> QED
  BY <1>1, <1>2, MemoryTypesHold, PlacesAlwaysKnown, PTL DEF MemorySpec

(***************************************************************************)
(* In the in-memory service, in any interleaving of requests, the delayed- *)
(* job loop and goroutines that all write through the same pointer without *)
(* a lock, a reader of the Job may trust the status: completed if and only *)
(* if the handler has returned nil and the goroutine has said so, dead if  *)
(* and only if the job is a dead letter or about to become one.            *)
(***************************************************************************)
THEOREM SharedStatusHolds == MemorySpec => []SharedStatusTrue
<1>1. MemoryTypes /\ PlacesKnown /\ StagesTrue => SharedStatusTrue
  <2> SUFFICES ASSUME MemoryTypes, PlacesKnown, StagesTrue, NEW j \in stored
               PROVE  /\ object[j].status = "completed" <=>
                           Succeeded(j) /\ ~At(j, "succeeded")
                      /\ object[j].status = "dead" <=>
                           Buried(j) \/ At(j, "burying")
                      /\ done[j] <= lost[j] + 1
    BY DEF SharedStatusTrue, Buried
  <2>1. /\ done[j] = lost[j] + (IF Stage(j) = "completed" THEN 1 ELSE 0)
        /\ Stage(j) = "dead" <=> Buried(j)
        /\ done[j] \in Nat /\ lost[j] \in Nat
    BY DEF StagesTrue, MemoryTypes, MemoryShape
  <2>2. Succeeded(j) <=> Stage(j) = "completed"
    BY <2>1 DEF Succeeded
  <2>3. CASE \E g \in Goroutines : Owns(g, j)
    <3>1. PICK g \in Goroutines : Owns(g, j)
      BY <2>3
    <3>2. pc[g] \in Holding /\ held[g] = j
      BY <3>1 DEF Owns
    <3>3. /\ StatusFits(pc[g], object[j])
          /\ \A h \in Goroutines : Owns(h, j) => h = g
          /\ Stage(j) = StageAt(pc[g])
      BY <3>2, OwnedAlone, StageOwned
    <3>4. /\ At(j, "succeeded") <=> pc[g] = "succeeded"
          /\ At(j, "burying") <=> pc[g] = "burying"
      BY <3>2, <3>3 DEF At, Owns, Holding
    <3> QED
      BY <2>1, <2>2, <3>2, <3>3, <3>4 DEF StatusFits, StageAt, Holding
  <2>4. CASE \A g \in Goroutines : ~Owns(g, j)
    <3>1. ~At(j, "succeeded") /\ ~At(j, "burying")
      BY <2>4 DEF At, Owns, Holding
    <3> QED
      BY <2>1, <2>2, <2>4, <3>1, StageFree
  <2> QED
    BY <2>3, <2>4
<1> QED
  BY <1>1, MemoryTypesHold, PlacesAlwaysKnown, StagesAlwaysTrue, PTL

(***************************************************************************)
(* In the in-memory service no step takes back a completed or dead status: *)
(* who may write to a Job has it to himself, and its status then says that *)
(* it is neither.                                                          *)
(***************************************************************************)
THEOREM MemoryFinalStatusStays == MemorySpec => FinalStatusStays
<1> DEFINE Stay == \A j \in stored : object[j].status \in {"completed", "dead"} =>
                     object'[j].status = object[j].status
<1>1. MemoryTypes /\ PlacesKnown /\ [MemoryNext]_memoryVars => [Stay]_memoryVars
  <2> SUFFICES ASSUME MemoryTypes, PlacesKnown, MemoryNext, NEW j \in stored,
                      object[j].status \in {"completed", "dead"}
               PROVE  object'[j].status = object[j].status
    OBVIOUS
  <2>0. j \in Jobs /\ submitted[j] # NoJob
    BY DEF MemoryTypes, MemoryShape
  <2>1. CASE Request
    <3>1. PICK i \in Jobs, order \in Orders : ScheduleJob(i, order)
      BY <2>1 DEF Request
    <3> QED
      BY <2>0, <3>1
      DEF ScheduleJob, SaveJob, MemoryTypes, MemoryTypeOK, MemoryShape
  <2>2. CASE Reply \/ TimePasses
    BY <2>2 DEF Reply, EnqueueJob, TimePasses
  <2>3. CASE ProcessDelayedJobs
    <3>1. j \notin due
      BY DEF MemoryTypes, MemoryTypeOK, PlacesKnown, PlaceKnown
    <3> QED
      BY <2>0, <2>3, <3>1 DEF ProcessDelayedJobs
  <2>4. ASSUME NEW g \in Goroutines, OwnerStep(g)
        PROVE  object'[j].status = object[j].status
    <3>1. CASE j # held[g]
      BY <2>0, <2>4, <3>1, OwnerEffect
    <3>2. CASE j = held[g]
      <4>1. pc[g] \in Holding
        BY <2>4, OwnerEffect
      <4>2. StatusFits(pc[g], object[j])
        BY <3>2, <4>1, OwnedAlone
      <4>3. pc[g] = "burying"
        BY <4>1, <4>2 DEF StatusFits, Holding
      <4>4. ~Marks(g)
        BY <4>3
        DEF Marks, HandleJobSuccess, HandleJobFailure, MarkRetry, MarkDead
      <4>5. BuryJob(g)
        BY <2>4, <4>3, <4>4
        DEF OwnerStep, StartJob, HandlerSucceeds, HandlerFails, RetryJob
      <4> QED
        BY <4>5 DEF BuryJob
    <3> QED
      BY <3>1, <3>2
  <2>5. ASSUME NEW g \in Goroutines,
               ProcessNextJob(g) \/ UpdateJob(g) \/ SaveJobHistory(g)
        PROVE  object'[j].status = object[j].status
    BY <2>5 DEF ProcessNextJob, UpdateJob, SaveJobHistory
  <2> QED
    BY <2>1, <2>2, <2>3, <2>4, <2>5 DEF MemoryNext, ProcessJobs, OwnerStep, Marks
<1> QED
  BY <1>1, MemoryTypesHold, PlacesAlwaysKnown, PTL DEF MemorySpec, FinalStatusStays

-----------------------------------------------------------------------------
(***************************************************************************)
(* A job is executed as often as its retry policy allows, and no oftener.  *)
(***************************************************************************)

(***************************************************************************)
(* The attempts counted in the shared Job are the executions begun, less   *)
(* the one that is under way or has succeeded.  A job that waits has an    *)
(* execution left, and any other has had one.                              *)
(***************************************************************************)
RunsCounted(j) ==
  /\ object[j].attempts = submitted[j].attempts + starts[j]
       - (IF Stage(j) \in {"processing", "completed"} THEN 1 ELSE 0)
  /\ IF Stage(j) \in {"pending", "scheduled"}
       THEN starts[j] < Allowed(submitted[j])
       ELSE starts[j] > 0 /\ starts[j] <= Allowed(submitted[j])

AllRunsCounted == \A j \in stored : RunsCounted(j)

\* The numbers in a stored job's records.
LEMMA StoredNumbers ==
  ASSUME MemoryTypes, NEW j \in stored
  PROVE  /\ j \in Jobs /\ starts[j] \in Nat /\ done[j] \in Nat /\ lost[j] \in Nat
         /\ object[j] \in Job /\ submitted[j] \in Job
         /\ submitted[j].attempts \in Int /\ submitted[j].max \in Int
         /\ object[j].attempts \in Int /\ object[j].max = submitted[j].max
         /\ Allowed(submitted[j]) \in Nat /\ Allowed(submitted[j]) > 0
         /\ Allowed(submitted[j]) >= submitted[j].max - submitted[j].attempts
         /\ submitted[j].max - submitted[j].attempts > 0 =>
              Allowed(submitted[j]) = submitted[j].max - submitted[j].attempts
         /\ ~(submitted[j].max - submitted[j].attempts > 0) =>
              Allowed(submitted[j]) = 1
<1>1. /\ j \in Jobs /\ starts[j] \in Nat /\ done[j] \in Nat /\ lost[j] \in Nat
      /\ Alike(object[j], submitted[j]) /\ submitted[j] \in Job
  BY DEF MemoryTypes, MemoryShape
<1>2. /\ object[j] \in Job /\ object[j].max = submitted[j].max
      /\ submitted[j].attempts \in Int /\ submitted[j].max \in Int
      /\ object[j].attempts \in Int
  BY <1>1 DEF Alike, Job
<1> QED
  BY <1>1, <1>2 DEF Allowed, AttemptsLeft

\* No step upsets the count.
LEMMA RunsPreserved ==
  ASSUME MemoryTypes, MemoryTypes', PlacesKnown, AllRunsCounted,
         [MemoryNext]_memoryVars
  PROVE  AllRunsCounted'
<1> SUFFICES ASSUME NEW j \in stored'
             PROVE  RunsCounted(j)'
  BY DEF AllRunsCounted
<1>1. CASE j \notin stored
  <2>1. /\ object'[j] = submitted'[j] /\ starts'[j] = 0
        /\ Stage(j)' \in {"pending", "scheduled"} /\ object'[j] \in Job
    BY <1>1, Arrival
  <2>2. submitted'[j].attempts \in Int /\ submitted'[j].max \in Int
    BY <2>1 DEF Job
  <2>3. Allowed(submitted'[j]) > 0
    BY <2>2 DEF Allowed, AttemptsLeft
  <2> QED
    BY <2>1, <2>2, <2>3 DEF RunsCounted
<1>2. CASE j \in stored
  <2> DEFINE a == submitted[j].attempts
             n == Allowed(submitted[j])
  <2>1. /\ starts[j] \in Nat /\ a \in Int /\ object[j].attempts \in Int
        /\ n \in Nat /\ n >= submitted[j].max - a
        /\ object[j].max = submitted[j].max /\ submitted[j].max \in Int
    BY <1>2, StoredNumbers
  <2>2. RunsCounted(j)
    BY <1>2 DEF AllRunsCounted
  <2>3. Untouched(j) \/ Advances(j)
    BY <1>2, JobStep
  <2>4. submitted'[j] = submitted[j]
    BY <2>3 DEF Untouched, Advances, Begins, Succeeds, Errs, Fails, Retries, Buries, SamePlan
  <2> HIDE DEF a, n
  <2>5. /\ object[j].attempts = a + starts[j]
             - (IF Stage(j) \in {"processing", "completed"} THEN 1 ELSE 0)
        /\ IF Stage(j) \in {"pending", "scheduled"}
             THEN starts[j] < n
             ELSE starts[j] > 0 /\ starts[j] <= n
    BY <2>2 DEF RunsCounted, a, n
  <2>6. SUFFICES
          /\ object'[j].attempts = a + starts'[j]
               - (IF Stage(j)' \in {"processing", "completed"} THEN 1 ELSE 0)
          /\ IF Stage(j)' \in {"pending", "scheduled"}
               THEN starts'[j] < n
               ELSE starts'[j] > 0 /\ starts'[j] <= n
    BY <2>4 DEF RunsCounted, a, n
  <2>7. CASE Untouched(j)
    BY <2>1, <2>5, <2>7 DEF Untouched, SameAttempts, SameTallies, Status
  <2>8. CASE Begins(j)
    BY <2>1, <2>5, <2>8 DEF Begins, SameAttempts, Status
  <2>9. CASE Succeeds(j)
    BY <2>1, <2>5, <2>9 DEF Succeeds, SameAttempts, Status
  <2>10. CASE Errs(j) \/ Fails(j)
    BY <2>1, <2>5, <2>10 DEF Errs, Fails, SameAttempts, SameTallies, Status
  <2>11. CASE Retries(j)
    BY <2>1, <2>5, <2>11
    DEF Retries, SameAttempts, SameTallies, Status, AttemptsLeft
  <2>12. CASE Buries(j)
    BY <2>1, <2>5, <2>12 DEF Buries, SameAttempts, SameTallies, Status
  <2> QED
    BY <2>3, <2>7, <2>8, <2>9, <2>10, <2>11, <2>12 DEF Advances
<1> QED
  BY <1>1, <1>2

(***************************************************************************)
(* In the in-memory service the attempts in the shared Job count the       *)
(* executions, MarkAsProcessing is never called oftener than the retry     *)
(* policy allows, and a job waits only while it has an execution left.     *)
(***************************************************************************)
THEOREM MemoryRunsCounted == MemorySpec => []AllRunsCounted
<1>1. MemoryInit => AllRunsCounted
  BY DEF MemoryInit, AllRunsCounted
<1>2. MemoryTypes /\ MemoryTypes' /\ PlacesKnown /\ AllRunsCounted
        /\ [MemoryNext]_memoryVars => AllRunsCounted'
  BY RunsPreserved
<1> QED
  BY <1>1, <1>2, MemoryTypesHold, PlacesAlwaysKnown, PTL DEF MemorySpec

-----------------------------------------------------------------------------
(***************************************************************************)
(* The refinement mapping, job by job.                                     *)
(***************************************************************************)

\* The step leaves the job what it is for JobLifecycle.
Stays(j) ==
  /\ PhaseOf(j)' = PhaseOf(j)
  /\ starts'[j] = starts[j]
  /\ AllowedOf(j)' = AllowedOf(j)

\* One of JobLifecycle's steps of a job.
Moves(j) ==
  \/ /\ PhaseOf(j) = "new" /\ PhaseOf(j)' = "waiting"
     /\ starts'[j] = starts[j]
     /\ \E req \in Requests : AllowedOf(j)' = Allowed(NewJob(j, req))
  \/ /\ PhaseOf(j) = "waiting" /\ PhaseOf(j)' = "running"
     /\ starts[j] < AllowedOf(j)
     /\ starts'[j] = starts[j] + 1
     /\ AllowedOf(j)' = AllowedOf(j)
  \/ /\ PhaseOf(j) = "running"
     /\ \/ PhaseOf(j)' = "done"
        \/ PhaseOf(j)' = "waiting" /\ starts[j] < AllowedOf(j)
        \/ PhaseOf(j)' = "dead" /\ starts[j] = AllowedOf(j)
     /\ starts'[j] = starts[j]
     /\ AllowedOf(j)' = AllowedOf(j)

\* What the mapping makes of a job, by its stage and by who runs it.
LEMMA PhaseKnown ==
  ASSUME MemoryTypes, StagesTrue, NEW j \in Jobs
  PROVE  /\ j \notin stored => /\ PhaseOf(j) = "new" /\ starts[j] = 0
                               /\ AllowedOf(j) = 0
         /\ j \in stored =>
              /\ AllowedOf(j) = Allowed(submitted[j])
              /\ Stage(j) = "completed" => PhaseOf(j) = "done"
              /\ Stage(j) = "dead" => PhaseOf(j) = "dead"
              /\ Stage(j) \notin {"completed", "dead"} =>
                   PhaseOf(j) = IF Running(j) THEN "running" ELSE "waiting"
<1>1. ASSUME j \notin stored
      PROVE  PhaseOf(j) = "new" /\ starts[j] = 0 /\ AllowedOf(j) = 0
  BY <1>1 DEF MemoryTypes, MemoryTypeOK, MemoryShape, PhaseOf, AllowedOf
<1>2. ASSUME j \in stored
      PROVE  /\ object[j] # NoJob
             /\ Succeeded(j) <=> Stage(j) = "completed"
             /\ j \in Range(deadLetter) <=> Stage(j) = "dead"
  <2>1. done[j] \in Nat /\ lost[j] \in Nat
    BY <1>2, StoredNumbers
  <2> QED
    BY <1>2, <2>1 DEF MemoryTypes, MemoryTypeOK, StagesTrue, Succeeded, Buried
<1>3. ASSUME j \in stored
      PROVE  AllowedOf(j) = Allowed(submitted[j])
  BY <1>2, <1>3 DEF AllowedOf
<1>4. ASSUME j \in stored
      PROVE  /\ Stage(j) = "completed" => PhaseOf(j) = "done"
             /\ Stage(j) = "dead" => PhaseOf(j) = "dead"
             /\ Stage(j) \notin {"completed", "dead"} =>
                  PhaseOf(j) = IF Running(j) THEN "running" ELSE "waiting"
  BY <1>2, <1>4 DEF PhaseOf
<1> QED
  BY <1>1, <1>3, <1>4

\* The same after a step.
LEMMA PhaseKnownNext ==
  ASSUME MemoryTypes', StagesTrue', NEW j \in Jobs
  PROVE  /\ j \notin stored' => /\ PhaseOf(j)' = "new" /\ starts'[j] = 0
                                /\ AllowedOf(j)' = 0
         /\ j \in stored' =>
              /\ AllowedOf(j)' = Allowed(submitted'[j])
              /\ Stage(j)' = "completed" => PhaseOf(j)' = "done"
              /\ Stage(j)' = "dead" => PhaseOf(j)' = "dead"
              /\ Stage(j)' \notin {"completed", "dead"} =>
                   PhaseOf(j)' = IF Running(j)' THEN "running" ELSE "waiting"
<1>1. ASSUME j \notin stored'
      PROVE  PhaseOf(j)' = "new" /\ starts'[j] = 0 /\ AllowedOf(j)' = 0
  BY <1>1 DEF MemoryTypes, MemoryTypeOK, MemoryShape, PhaseOf, AllowedOf
<1>2. ASSUME j \in stored'
      PROVE  /\ object'[j] # NoJob
             /\ Succeeded(j)' <=> Stage(j)' = "completed"
             /\ j \in Range(deadLetter') <=> Stage(j)' = "dead"
  <2>1. done'[j] \in Nat /\ lost'[j] \in Nat
    BY DEF MemoryTypes, MemoryShape
  <2> QED
    BY <1>2, <2>1 DEF MemoryTypes, MemoryTypeOK, StagesTrue, Succeeded, Buried
<1>3. ASSUME j \in stored'
      PROVE  AllowedOf(j)' = Allowed(submitted'[j])
  BY <1>2, <1>3 DEF AllowedOf, Allowed, AttemptsLeft
<1>4. ASSUME j \in stored'
      PROVE  /\ Stage(j)' = "completed" => PhaseOf(j)' = "done"
             /\ Stage(j)' = "dead" => PhaseOf(j)' = "dead"
             /\ Stage(j)' \notin {"completed", "dead"} =>
                  PhaseOf(j)' = IF Running(j)' THEN "running" ELSE "waiting"
  BY <1>2, <1>4 DEF PhaseOf
<1> QED
  BY <1>1, <1>3, <1>4

\* A step that moves one job and leaves the others as they are.
LEMMA MoveStep ==
  ASSUME MemoryTypes, NEW i \in Jobs, Moves(i), \A j \in Jobs \ {i} : Stays(j),
         MemoryTypes'
  PROVE  Lifecycle!LifecycleNext
<1>0. /\ starts = [j \in Jobs |-> starts[j]]
      /\ starts' = [j \in Jobs |-> starts'[j]]
  BY DEF MemoryTypes, MemoryShape
<1>1. CASE /\ PhaseOf(i) = "new" /\ PhaseOf(i)' = "waiting"
           /\ starts'[i] = starts[i]
           /\ \E req \in Requests : AllowedOf(i)' = Allowed(NewJob(i, req))
  <2> DEFINE n == AllowedOf(i)'
             Budgets == UNION {BudgetsOf(j) : j \in Jobs}
  <2>1. n \in Budgets
    <3>1. n \in BudgetsOf(i)
      BY <1>1, Zenon DEF BudgetsOf
    <3> QED
      BY <3>1
  <2>2. [j \in Jobs |-> AllowedOf(j)]' =
           [[j \in Jobs |-> AllowedOf(j)] EXCEPT ![i] = n]
    BY DEF Stays
  <2>3. Lifecycle!Move(i, "new", "waiting")
    BY <1>1 DEF Lifecycle!Move, Stays
  <2>4. UNCHANGED starts
    BY <1>0, <1>1 DEF Stays
  <2>5. Lifecycle!Submit(i)
    <3> HIDE DEF Budgets, n
    <3>1. \E b \in Budgets : [j \in Jobs |-> AllowedOf(j)]' =
                              [[j \in Jobs |-> AllowedOf(j)] EXCEPT ![i] = b]
      BY <2>1, <2>2
    <3> QED
      BY <2>3, <2>4, <3>1, Zenon DEF Lifecycle!Submit, Budgets
  <2> QED
    BY <2>5 DEF Lifecycle!LifecycleNext
<1>2. CASE /\ PhaseOf(i) = "waiting" /\ PhaseOf(i)' = "running"
           /\ starts[i] < AllowedOf(i)
           /\ starts'[i] = starts[i] + 1
           /\ AllowedOf(i)' = AllowedOf(i)
  <2>1. starts' = [starts EXCEPT ![i] = @ + 1]
    BY <1>0, <1>2 DEF Stays
  <2>2. Lifecycle!Move(i, "waiting", "running")
    BY <1>2 DEF Lifecycle!Move, Stays
  <2>3. UNCHANGED [j \in Jobs |-> AllowedOf(j)]
    BY <1>2 DEF Stays
  <2>4. Lifecycle!Execute(i)
    BY <1>2, <2>1, <2>2, <2>3 DEF Lifecycle!Execute
  <2> QED
    BY <2>4 DEF Lifecycle!LifecycleNext
<1>3. CASE /\ PhaseOf(i) = "running" /\ starts'[i] = starts[i]
           /\ AllowedOf(i)' = AllowedOf(i)
           /\ \/ PhaseOf(i)' = "done"
              \/ PhaseOf(i)' = "waiting" /\ starts[i] < AllowedOf(i)
              \/ PhaseOf(i)' = "dead" /\ starts[i] = AllowedOf(i)
  <2>1. UNCHANGED <<starts, [j \in Jobs |-> AllowedOf(j)]>>
    BY <1>0, <1>3 DEF Stays
  <2>2. Lifecycle!Succeed(i) \/ Lifecycle!Retry(i) \/ Lifecycle!Bury(i)
    BY <1>3, <2>1
    DEF Lifecycle!Succeed, Lifecycle!Retry, Lifecycle!Bury, Lifecycle!Move, Stays
  <2> QED
    BY <2>2 DEF Lifecycle!LifecycleNext
<1> QED
  BY <1>1, <1>2, <1>3 DEF Moves

\* A job that comes into storage is submitted.
LEMMA ArrivalMoves ==
  ASSUME MemoryTypes, StagesTrue, MemoryTypes', StagesTrue',
         [MemoryNext]_memoryVars, NEW j \in stored', j \notin stored
  PROVE  j \in Jobs /\ Moves(j)
<1>1. /\ j \in Jobs /\ Stage(j)' \in {"pending", "scheduled"}
      /\ ~Running(j)' /\ starts'[j] = 0
  BY Arrival
<1>2. PICK order \in Orders : submitted'[j] = NewJob(j, order.request)
  BY Arrival
<1>3. order.request \in Requests
  BY DEF Requests
<1>4. PhaseOf(j) = "new" /\ starts[j] = 0
  BY <1>1, PhaseKnown
<1>5. PhaseOf(j)' = "waiting" /\ AllowedOf(j)' = Allowed(submitted'[j])
  BY <1>1, PhaseKnownNext
<1>6. AllowedOf(j)' = Allowed(NewJob(j, order.request))
  BY <1>2, <1>5
<1> QED
  BY <1>1, <1>3, <1>4, <1>5, <1>6 DEF Moves

\* A job in storage is there for good, under the policy it came with.
LEMMA StoredStays ==
  ASSUME MemoryTypes, PlacesKnown, MemoryTypes', [MemoryNext]_memoryVars,
         NEW j \in stored
  PROVE  j \in stored' /\ submitted'[j] = submitted[j]
<1>1. submitted'[j] = submitted[j]
  BY JobStep
  DEF Untouched, Advances, Begins, Succeeds, Errs, Fails, Retries, Buries, SamePlan
<1> QED
  BY <1>1 DEF MemoryTypes, MemoryShape

\* A job the step is not about stays what it is.
LEMMA UntouchedStays ==
  ASSUME MemoryTypes, PlacesKnown, StagesTrue, MemoryTypes', StagesTrue',
         [MemoryNext]_memoryVars, NEW j \in stored, Untouched(j)
  PROVE  Stays(j)
<1>1. j \in Jobs /\ j \in stored' /\ submitted'[j] = submitted[j]
  BY StoredStays DEF MemoryTypes, MemoryShape
<1>2. /\ starts'[j] = starts[j] /\ (Running(j)' <=> Running(j))
      /\ Stage(j)' = Stage(j) \/ Status(j, "scheduled", "pending")
  BY DEF Untouched, SameTallies
<1>3. PhaseOf(j)' = PhaseOf(j)
  BY <1>1, <1>2, PhaseKnown, PhaseKnownNext DEF Status
<1>4. AllowedOf(j)' = AllowedOf(j)
  BY <1>1, PhaseKnown, PhaseKnownNext
<1> QED
  BY <1>2, <1>3, <1>4 DEF Stays

\* A job that a goroutine advances moves on, or has failed and is still run.
LEMMA AdvanceMoves ==
  ASSUME MemoryTypes, PlacesKnown, StagesTrue, AllRunsCounted,
         MemoryTypes', StagesTrue',
         [MemoryNext]_memoryVars, NEW j \in stored, Advances(j)
  PROVE  Moves(j) \/ Stays(j)
<1> DEFINE n == Allowed(submitted[j])
<1>1. j \in Jobs /\ j \in stored' /\ submitted'[j] = submitted[j]
  BY StoredStays DEF MemoryTypes, MemoryShape
<1>2. AllowedOf(j) = n /\ AllowedOf(j)' = n
  BY <1>1, PhaseKnown, PhaseKnownNext
<1>3. /\ Stage(j) = "completed" => PhaseOf(j) = "done"
      /\ Stage(j) = "dead" => PhaseOf(j) = "dead"
      /\ Stage(j) \notin {"completed", "dead"} =>
           PhaseOf(j) = IF Running(j) THEN "running" ELSE "waiting"
  BY <1>1, PhaseKnown
<1>4. /\ Stage(j)' = "completed" => PhaseOf(j)' = "done"
      /\ Stage(j)' = "dead" => PhaseOf(j)' = "dead"
      /\ Stage(j)' \notin {"completed", "dead"} =>
           PhaseOf(j)' = IF Running(j)' THEN "running" ELSE "waiting"
  BY <1>1, PhaseKnownNext
<1>5. RunsCounted(j)
  BY DEF AllRunsCounted
<1>6. CASE Begins(j)
  <2>1. starts[j] < n
    BY <1>5, <1>6 DEF RunsCounted, Begins, Status
  <2>2. PhaseOf(j) = "waiting" /\ PhaseOf(j)' = "running"
    BY <1>3, <1>4, <1>6 DEF Begins, Status
  <2> QED
    BY <1>2, <1>6, <2>1, <2>2 DEF Begins, Moves
<1>7. CASE Succeeds(j)
  <2>1. PhaseOf(j) = "running" /\ PhaseOf(j)' = "done"
    BY <1>3, <1>4, <1>7 DEF Succeeds, Status
  <2> QED
    BY <1>2, <1>7, <2>1 DEF Succeeds, Moves
<1>8. CASE Errs(j) \/ Fails(j)
  <2>1. PhaseOf(j) = "running" /\ PhaseOf(j)' = "running"
    BY <1>3, <1>4, <1>8 DEF Errs, Fails, Status
  <2> QED
    BY <1>2, <1>8, <2>1 DEF Errs, Fails, SameTallies, Stays
<1>9. /\ starts[j] \in Nat /\ submitted[j].attempts \in Int
      /\ object[j].attempts \in Int /\ submitted[j].max \in Int
      /\ object[j].max = submitted[j].max
      /\ n >= submitted[j].max - submitted[j].attempts /\ n \in Nat
      /\ submitted[j].max - submitted[j].attempts > 0 =>
           n = submitted[j].max - submitted[j].attempts
      /\ ~(submitted[j].max - submitted[j].attempts > 0) => n = 1
  BY StoredNumbers
<1>10. Stage(j) = "failed" =>
         /\ object[j].attempts = submitted[j].attempts + starts[j]
         /\ starts[j] > 0 /\ starts[j] <= n
  BY <1>5, <1>9 DEF RunsCounted
<1> HIDE DEF n
<1>11. CASE Retries(j)
  <2>1. starts[j] < n
    BY <1>9, <1>10, <1>11 DEF Retries, Status, AttemptsLeft
  <2>2. PhaseOf(j) = "running" /\ PhaseOf(j)' = "waiting"
    BY <1>3, <1>4, <1>11 DEF Retries, Status
  <2> QED
    BY <1>2, <1>11, <2>1, <2>2 DEF Retries, SameTallies, Moves
<1>12. CASE Buries(j)
  <2>1. starts[j] = n
    BY <1>9, <1>10, <1>12 DEF Buries, Status, AttemptsLeft
  <2>2. PhaseOf(j) = "running" /\ PhaseOf(j)' = "dead"
    BY <1>3, <1>4, <1>12 DEF Buries, Status
  <2> QED
    BY <1>2, <1>12, <2>1, <2>2 DEF Buries, SameTallies, Moves
<1> QED
  BY <1>6, <1>7, <1>8, <1>11, <1>12 DEF Advances

\* Every step is one of JobLifecycle, or none that it sees.
LEMMA MemoryLifecycleStep ==
  ASSUME MemoryTypes, PlacesKnown, StagesTrue, AllRunsCounted,
         MemoryTypes', StagesTrue', [MemoryNext]_memoryVars
  PROVE  [Lifecycle!LifecycleNext]_Lifecycle!lifecycleVars
<1>1. ASSUME NEW j \in Jobs, j \notin stored, j \notin stored'
      PROVE  Stays(j)
  BY <1>1, PhaseKnown, PhaseKnownNext DEF Stays
<1>2. ASSUME \A j \in Jobs : Stays(j)
      PROVE  UNCHANGED Lifecycle!lifecycleVars
  <2>1. /\ starts = [j \in Jobs |-> starts[j]]
        /\ starts' = [j \in Jobs |-> starts'[j]]
    BY DEF MemoryTypes, MemoryShape
  <2> QED
    BY <1>2, <2>1 DEF Lifecycle!lifecycleVars, Stays
<1>3. CASE stored' = stored /\ \A j \in stored : Untouched(j)
  BY <1>1, <1>2, <1>3, UntouchedStays
<1>4. ASSUME NEW i \in stored, stored' = stored, Advances(i),
             \A j \in stored \ {i} : Untouched(j)
      PROVE  [Lifecycle!LifecycleNext]_Lifecycle!lifecycleVars
  <2>1. i \in Jobs /\ \A j \in Jobs \ {i} : Stays(j)
    BY <1>1, <1>4, UntouchedStays DEF MemoryTypes, MemoryShape
  <2>2. Moves(i) \/ Stays(i)
    BY <1>4, AdvanceMoves
  <2>3. CASE Moves(i)
    BY <2>1, <2>3, MoveStep
  <2>4. CASE Stays(i)
    BY <1>2, <2>1, <2>4
  <2> QED
    BY <2>2, <2>3, <2>4
<1>5. ASSUME NEW i \in stored', i \notin stored
      PROVE  Lifecycle!LifecycleNext
  <2>1. i \in Jobs /\ Moves(i) /\ stored' = stored \cup {i}
    BY <1>5, ArrivalMoves, Arrival
  <2>2. \A j \in stored : Untouched(j)
    BY <1>5, LifeStep
  <2>3. \A j \in Jobs \ {i} : Stays(j)
    BY <1>1, <2>1, <2>2, UntouchedStays
  <2> QED
    BY <2>1, <2>3, MoveStep
<1>6. stored \subseteq stored'
  BY StoredStays
<1> QED
  BY <1>3, <1>4, <1>5, <1>6, LifeStep

(***************************************************************************)
(* The in-memory service implements JobLifecycle: a job is executed by one *)
(* goroutine at a time, not after its success, and dies after exactly the  *)
(* executions its retry policy allows, for any jobs, orders and number of  *)
(* goroutines, and whatever the handlers return.                           *)
(***************************************************************************)
THEOREM MemoryKeepsThePromise == MemorySpec => MemoryImplementsLifecycle
<1>1. MemoryInit => Lifecycle!LifecycleInit
  BY DEF MemoryInit, Lifecycle!LifecycleInit, PhaseOf, AllowedOf
<1>2. MemoryTypes /\ MemoryTypes' /\ PlacesKnown /\ StagesTrue
        /\ StagesTrue' /\ AllRunsCounted /\ [MemoryNext]_memoryVars
        => [Lifecycle!LifecycleNext]_Lifecycle!lifecycleVars
  BY MemoryLifecycleStep
<1> QED
  BY <1>1, <1>2, MemoryTypesHold, PlacesAlwaysKnown, StagesAlwaysTrue,
     MemoryRunsCounted, PTL
  DEF MemorySpec, MemoryImplementsLifecycle, Lifecycle!LifecycleSpec

-----------------------------------------------------------------------------
(***************************************************************************)
(* The history of a job.                                                   *)
(***************************************************************************)

\* Goroutine g has begun an execution of the job and not yet recorded it.
InWork(g, j) ==
  /\ pc[g] \in (Holding \ {"dequeued"}) \cup {"finished", "record"}
  /\ held[g] = j

\* The numbers of the attempts begun.
Begun(j) == (submitted[j].attempts + 1) .. (submitted[j].attempts + starts[j])

(***************************************************************************)
(* Each attempt begun is in the history of the job or in the record of a   *)
(* goroutine, in one of them only and there only once.                     *)
(***************************************************************************)
HistoryKept(j) ==
  /\ \A k \in DOMAIN history[j] : history[j][k].attempt \in Begun(j)
  /\ \A g \in Goroutines : InWork(g, j) => record[g].attempt \in Begun(j)
  /\ \A k, l \in DOMAIN history[j] :
       history[j][k].attempt = history[j][l].attempt => k = l
  /\ \A g, h \in Goroutines :
       InWork(g, j) /\ InWork(h, j) /\ record[g].attempt = record[h].attempt => g = h
  /\ \A g \in Goroutines : InWork(g, j) =>
       \A k \in DOMAIN history[j] : history[j][k].attempt # record[g].attempt
  /\ \A n \in Begun(j) :
       \/ \E k \in DOMAIN history[j] : history[j][k].attempt = n
       \/ \E g \in Goroutines : InWork(g, j) /\ record[g].attempt = n

AllHistoryKept ==
  /\ \A j \in stored : HistoryKept(j)
  /\ \A j \in Jobs \ stored : history[j] = <<>>

\* The step neither begins nor records an execution of the job.
SameHistory(j) ==
  /\ history'[j] = history[j]
  /\ starts'[j] = starts[j] /\ submitted'[j] = submitted[j]
  /\ \A g \in Goroutines : /\ InWork(g, j)' <=> InWork(g, j)
                           /\ InWork(g, j) => record'[g].attempt = record[g].attempt

\* Then its records are as before.
LEMMA SameHistoryKept ==
  ASSUME NEW j, SameHistory(j), HistoryKept(j)
  PROVE  HistoryKept(j)'
<1>1. Begun(j)' = Begun(j)
  BY DEF SameHistory, Begun
<1>2. /\ history'[j] = history[j]
      /\ \A g \in Goroutines : /\ InWork(g, j)' <=> InWork(g, j)
                               /\ InWork(g, j) => record'[g].attempt = record[g].attempt
  BY DEF SameHistory
<1> QED
  BY <1>1, <1>2 DEF HistoryKept

\* MarkAsProcessing gives the execution the number after the last.
LEMMA StartHistory ==
  ASSUME MemoryTypes, PlacesKnown, AllRunsCounted, NEW g \in Goroutines,
         StartJob(g), NEW j \in stored, held[g] = j, HistoryKept(j)
  PROVE  HistoryKept(j)'
<1> DEFINE a == submitted[j].attempts
           n == starts[j]
<1>1. /\ j \in Jobs /\ n \in Nat /\ a \in Int /\ object[j].attempts \in Int
      /\ history[j] \in Seq([attempt : Int, status : {"completed", "failed"}])
  BY StoredNumbers DEF MemoryTypes, MemoryTypeOK
<1>2. object[j].attempts = a + n
  <2>0. pc[g] = "dequeued"
    BY DEF StartJob
  <2>1. Stage(j) = "pending"
    BY <2>0, StageOwned DEF StageAt, Holding
  <2> QED
    BY <1>1, <2>1 DEF AllRunsCounted, RunsCounted
<1>3. /\ pc[g] = "dequeued" /\ pc'[g] = "executing" /\ held' = held
      /\ history' = history /\ submitted' = submitted
      /\ starts'[j] = n + 1
      /\ record'[g].attempt = object[j].attempts + 1
      /\ \A h \in Goroutines \ {g} : pc'[h] = pc[h] /\ record'[h] = record[h]
  BY <1>1
  DEF StartJob, Goto, MemoryTypes, MemoryShape, HistoryRecord, storageVars,
      clientVars
<1>4. Begun(j) = (a + 1) .. (a + n) /\ Begun(j)' = (a + 1) .. (a + n + 1)
  <2>1. a + (n + 1) = a + n + 1
    BY <1>1
  <2>2. Begun(j)' = (a + 1) .. (a + (n + 1))
    BY <1>3 DEF Begun
  <2> QED
    BY <2>1, <2>2 DEF Begun
<1>5. /\ ~InWork(g, j) /\ InWork(g, j)' /\ record'[g].attempt = a + n + 1
      /\ \A h \in Goroutines \ {g} :
           (InWork(h, j)' <=> InWork(h, j)) /\ record'[h] = record[h]
  BY <1>1, <1>2, <1>3 DEF InWork, Holding
<1> HIDE DEF a, n
<1>6. /\ a + n + 1 \notin Begun(j) /\ a + n + 1 \in Begun(j)'
      /\ Begun(j) \subseteq Begun(j)'
      /\ \A k \in Begun(j)' : k \in Begun(j) \/ k = a + n + 1
  <2>1. \A c \in Int : \A m \in Nat :
          /\ c + m + 1 \notin (c + 1) .. (c + m)
          /\ c + m + 1 \in (c + 1) .. (c + m + 1)
          /\ (c + 1) .. (c + m) \subseteq (c + 1) .. (c + m + 1)
          /\ \A k \in (c + 1) .. (c + m + 1) :
               k \in (c + 1) .. (c + m) \/ k = c + m + 1
    OBVIOUS
  <2>2. a \in Int /\ n \in Nat
    BY <1>1
  <2> QED
    BY <1>4, <2>1, <2>2, Zenon
<1>7. history'[j] = history[j]
  BY <1>3
<1>8. /\ \A k \in DOMAIN history'[j] : history'[j][k].attempt \in Begun(j)'
      /\ \A h \in Goroutines : InWork(h, j)' => record'[h].attempt \in Begun(j)'
  BY <1>5, <1>6, <1>7 DEF HistoryKept
<1>9. \A k, l \in DOMAIN history'[j] :
        history'[j][k].attempt = history'[j][l].attempt => k = l
  BY <1>7 DEF HistoryKept
<1>10. \A h, i \in Goroutines :
         InWork(h, j)' /\ InWork(i, j)' /\ record'[h].attempt = record'[i].attempt
           => h = i
  BY <1>5, <1>6 DEF HistoryKept
<1>11. \A h \in Goroutines : InWork(h, j)' =>
         \A k \in DOMAIN history'[j] : history'[j][k].attempt # record'[h].attempt
  BY <1>5, <1>6, <1>7 DEF HistoryKept
<1>12. \A k \in Begun(j)' :
         \/ \E l \in DOMAIN history'[j] : history'[j][l].attempt = k
         \/ \E h \in Goroutines : InWork(h, j)' /\ record'[h].attempt = k
  BY <1>5, <1>6, <1>7 DEF HistoryKept
<1> QED
  BY <1>8, <1>9, <1>10, <1>11, <1>12 DEF HistoryKept

\* SaveJobHistory moves the number from the goroutine to the list.
LEMMA SaveHistory ==
  ASSUME MemoryTypes, NEW g \in Goroutines,
         SaveJobHistory(g), NEW j \in stored, held[g] = j, HistoryKept(j)
  PROVE  HistoryKept(j)'
<1> DEFINE H == history[j]
           new == history'[j]
           last == Len(H) + 1
<1>1. /\ j \in Jobs /\ record[g] \in HistoryRecord
      /\ record[g].status \in {"completed", "failed"}
      /\ H \in Seq([attempt : Int, status : {"completed", "failed"}])
  BY DEF MemoryTypes, MemoryTypeOK, MemoryShape, SaveJobHistory
<1>2. record[g] \in [attempt : Int, status : {"completed", "failed"}]
  BY <1>1 DEF HistoryRecord
<1>3. /\ pc[g] = "record" /\ pc'[g] = "idle"
      /\ new = Append(H, record[g])
      /\ starts' = starts /\ submitted' = submitted
      /\ \A h \in Goroutines \ {g} :
           pc'[h] = pc[h] /\ record'[h] = record[h] /\ held'[h] = held[h]
  BY <1>1
  DEF SaveJobHistory, Goto, MemoryTypes, MemoryTypeOK, MemoryShape, tallies,
      clientVars
<1>4. Begun(j)' = Begun(j)
  BY <1>3 DEF Begun
<1>5. /\ InWork(g, j) /\ ~InWork(g, j)'
      /\ \A h \in Goroutines \ {g} :
           (InWork(h, j)' <=> InWork(h, j)) /\ record'[h] = record[h]
  BY <1>3 DEF InWork, Holding
<1> HIDE DEF H, new, last
<1>6. /\ last \notin DOMAIN H /\ DOMAIN new = DOMAIN H \cup {last}
      /\ new[last] = record[g] /\ \A k \in DOMAIN H : new[k] = H[k]
  <2>1. /\ Len(H) \in Nat /\ DOMAIN H = 1 .. Len(H)
        /\ DOMAIN new = 1 .. (Len(H) + 1)
        /\ new[Len(H) + 1] = record[g] /\ \A k \in DOMAIN H : new[k] = H[k]
    BY <1>1, <1>2, <1>3
  <2> QED
    BY <2>1 DEF last
<1>7. /\ \A k \in DOMAIN H : H[k].attempt \in Begun(j)
      /\ \A h \in Goroutines : InWork(h, j) => record[h].attempt \in Begun(j)
      /\ \A k, l \in DOMAIN H : H[k].attempt = H[l].attempt => k = l
      /\ \A h, i \in Goroutines :
           InWork(h, j) /\ InWork(i, j) /\ record[h].attempt = record[i].attempt
             => h = i
      /\ \A h \in Goroutines : InWork(h, j) =>
           \A k \in DOMAIN H : H[k].attempt # record[h].attempt
      /\ \A n \in Begun(j) :
           \/ \E k \in DOMAIN H : H[k].attempt = n
           \/ \E h \in Goroutines : InWork(h, j) /\ record[h].attempt = n
  BY DEF HistoryKept, H
<1>8. /\ \A k \in DOMAIN new : new[k].attempt \in Begun(j)
      /\ \A h \in Goroutines : InWork(h, j)' => record'[h].attempt \in Begun(j)
  BY <1>5, <1>6, <1>7
<1>9. \A k, l \in DOMAIN new : new[k].attempt = new[l].attempt => k = l
  BY <1>5, <1>6, <1>7
<1>10. \A h, i \in Goroutines :
         InWork(h, j)' /\ InWork(i, j)' /\ record'[h].attempt = record'[i].attempt
           => h = i
  BY <1>5, <1>7
<1>11. \A h \in Goroutines : InWork(h, j)' =>
         \A k \in DOMAIN new : new[k].attempt # record'[h].attempt
  BY <1>5, <1>6, <1>7
<1>12. \A n \in Begun(j) :
         \/ \E k \in DOMAIN new : new[k].attempt = n
         \/ \E h \in Goroutines : InWork(h, j)' /\ record'[h].attempt = n
  BY <1>5, <1>6, <1>7
<1> QED
  BY <1>4, <1>8, <1>9, <1>10, <1>11, <1>12 DEF HistoryKept, new

\* The other steps of a goroutine keep the number in its record.
LEMMA OtherHistory ==
  ASSUME MemoryTypes, NEW g \in Goroutines, ProcessJobs(g), NEW j \in stored,
         (StartJob(g) \/ SaveJobHistory(g)) => held[g] # j
  PROVE  SameHistory(j)
<1>1. \A h \in Goroutines : h # g => pc'[h] = pc[h] /\ held'[h] = held[h]
  BY OtherGoroutines
<1>2. j \in Jobs
  BY DEF MemoryTypes, MemoryShape
<1>3. CASE StartJob(g)
  <2>1. /\ pc[g] = "dequeued" /\ held' = held
        /\ \A h \in Goroutines : h # g => record'[h] = record[h]
        /\ history' = history /\ submitted' = submitted /\ starts'[j] = starts[j]
    BY <1>2, <1>3 DEF StartJob, MemoryTypes, MemoryShape, storageVars, clientVars
  <2> QED
    BY <1>1, <1>3, <2>1 DEF SameHistory, InWork, Holding
<1>4. CASE SaveJobHistory(g)
  <2>1. /\ pc[g] = "record" /\ pc'[g] = "idle"
        /\ \A h \in Goroutines : h # g => record'[h] = record[h]
        /\ history'[j] = history[j] /\ submitted' = submitted /\ starts' = starts
    BY <1>2, <1>4
    DEF SaveJobHistory, Goto, MemoryTypes, MemoryTypeOK, MemoryShape, tallies,
        clientVars
  <2> QED
    BY <1>1, <1>4, <2>1 DEF SameHistory, InWork, Holding
<1>5. CASE ProcessNextJob(g)
  <2>1. /\ pc[g] = "idle" /\ pc'[g] = "dequeued"
        /\ UNCHANGED <<record, history, submitted, starts>>
    BY <1>5
    DEF ProcessNextJob, Goto, MemoryTypes, MemoryShape, tallies, clientVars,
        storageVars
  <2> QED
    BY <1>1, <2>1 DEF SameHistory, InWork, Holding
<1>6. CASE Marks(g)
  <2>1. UNCHANGED <<held, history, submitted, starts>>
    BY <1>6, MarkEffect
  <2>2. /\ pc[g] \in {"succeeded", "erred", "failed"}
        /\ pc'[g] \in {"finished", "failed", "retrying", "burying"}
        /\ \/ record' = record
           \/ record' = [record EXCEPT ![g].status = "completed"]
           \/ record' = [record EXCEPT ![g].status = "failed"]
    BY <1>6, MarkEffect
  <2>3. \A h \in Goroutines : record'[h].attempt = record[h].attempt
    BY <2>2 DEF MemoryTypes, MemoryShape, HistoryRecord
  <2> HIDE DEF Marks
  <2> QED
    BY <1>1, <2>1, <2>2, <2>3 DEF SameHistory, InWork, Holding
<1>7. CASE \/ HandlerSucceeds(g) \/ HandlerFails(g)
           \/ RetryJob(g) \/ BuryJob(g) \/ UpdateJob(g)
  <2>1. /\ pc[g] \in (Holding \ {"dequeued"}) \cup {"finished"}
        /\ pc'[g] \in {"succeeded", "erred", "finished", "record"}
        /\ UNCHANGED <<held, record, history, submitted, starts>>
    BY <1>7
    DEF HandlerSucceeds, HandlerFails, RetryJob, BuryJob, UpdateJob, Goto,
        Holding, MemoryTypes, MemoryShape, tallies, clientVars, storageVars
  <2> QED
    BY <1>1, <2>1 DEF SameHistory, InWork, Holding
<1> QED
  BY <1>3, <1>4, <1>5, <1>6, <1>7 DEF ProcessJobs, Marks

\* A job that is not in storage has no history, nor has one that comes in,
\* and no goroutine works on it.
LEMMA FreshHistory ==
  ASSUME MemoryTypes, PlacesKnown, [MemoryNext]_memoryVars,
         NEW j \in Jobs, j \notin stored, history[j] = <<>>
  PROVE  /\ history'[j] = <<>>
         /\ j \in stored' => \A g \in Goroutines : ~InWork(g, j)'
<1>1. CASE UNCHANGED <<history, pc, held>>
  <2>1. \A g \in Goroutines : ~InWork(g, j)
    BY HeldJob DEF InWork, Holding
  <2> QED
    BY <1>1, <2>1 DEF InWork
<1>2. ASSUME NEW g \in Goroutines, ProcessJobs(g)
      PROVE  history'[j] = <<>> /\ j \notin stored'
  <2>1. stored' = stored
    BY <1>2, GoroutineStep
  <2>2. CASE SaveJobHistory(g)
    <3>1. held[g] \in stored
      BY <2>2, HeldJob DEF SaveJobHistory
    <3> QED
      BY <2>1, <2>2, <3>1 DEF SaveJobHistory, MemoryTypes, MemoryTypeOK
  <2>3. CASE ~SaveJobHistory(g)
    BY <1>2, <2>1, <2>3
    DEF ProcessJobs, ProcessNextJob, StartJob, HandlerSucceeds, HandlerFails,
        HandleJobSuccess, HandleJobFailure, MarkRetry, RetryJob, MarkDead,
        BuryJob, Mark, UpdateJob, storageVars
  <2> QED
    BY <2>2, <2>3
<1>3. \/ UNCHANGED <<history, pc, held>>
      \/ \E g \in Goroutines : ProcessJobs(g)
  BY DEF MemoryNext, Request, ScheduleJob, SaveJob, Reply, EnqueueJob,
         ProcessDelayedJobs, TimePasses, memoryVars, storageVars, workerVars
<1> QED
  BY <1>1, <1>2, <1>3

\* No step loses or repeats a number.
LEMMA HistoryPreserved ==
  ASSUME MemoryTypes, MemoryTypes', PlacesKnown, AllRunsCounted, AllHistoryKept,
         [MemoryNext]_memoryVars
  PROVE  AllHistoryKept'
<1>0. ASSUME NEW j \in Jobs, j \notin stored
      PROVE  /\ history'[j] = <<>>
             /\ j \in stored' => \A g \in Goroutines : ~InWork(g, j)'
  BY <1>0, FreshHistory DEF AllHistoryKept
<1>s. \A j \in Jobs \ stored' : j \notin stored
  BY StoredStays
<1> SUFFICES ASSUME NEW j \in stored'
             PROVE  HistoryKept(j)'
  BY <1>0, <1>s DEF AllHistoryKept
<1>1. CASE j \notin stored
  <2>1. /\ j \in Jobs /\ starts'[j] = 0 /\ submitted'[j] \in Job
    BY <1>1, Arrival
  <2>2. Begun(j)' = {}
    BY <2>1 DEF Begun, Job
  <2>3. history'[j] = <<>>
    BY <1>0, <1>1, <2>1
  <2>4. \A g \in Goroutines : ~InWork(g, j)'
    BY <1>0, <1>1, <2>1
  <2> QED
    BY <2>2, <2>3, <2>4 DEF HistoryKept
<1>2. CASE j \in stored
  <2>1. HistoryKept(j)
    BY <1>2 DEF AllHistoryKept
  <2>2. CASE UNCHANGED memoryVars
    <3>1. UNCHANGED <<history, starts, submitted, record, pc, held>>
      BY <2>2 DEF memoryVars, storageVars, workerVars, clientVars, tallies
    <3>2. SameHistory(j)
      BY <3>1 DEF SameHistory, InWork
    <3> QED
      BY <2>1, <3>2, SameHistoryKept
  <2>3. CASE Request \/ Reply \/ ProcessDelayedJobs \/ TimePasses
    <3>1. UNCHANGED <<history, starts, record, pc, held>>
      BY <2>3
      DEF Request, ScheduleJob, SaveJob, Reply, EnqueueJob, ProcessDelayedJobs,
          TimePasses, storageVars, workerVars, tallies
    <3>2. submitted'[j] = submitted[j]
      BY <1>2, <2>3, SchedulerStep DEF Untouched, SamePlan
    <3>3. SameHistory(j)
      BY <3>1, <3>2 DEF SameHistory, InWork
    <3> QED
      BY <2>1, <3>3, SameHistoryKept
  <2>4. ASSUME NEW g \in Goroutines, ProcessJobs(g)
        PROVE  HistoryKept(j)'
    <3>1. CASE (StartJob(g) \/ SaveJobHistory(g)) => held[g] # j
      BY <1>2, <2>1, <2>4, <3>1, OtherHistory, SameHistoryKept
    <3>2. CASE StartJob(g) /\ held[g] = j
      BY <1>2, <2>1, <3>2, StartHistory
    <3>3. CASE SaveJobHistory(g) /\ held[g] = j
      BY <1>2, <2>1, <3>3, SaveHistory
    <3> QED
      BY <3>1, <3>2, <3>3
  <2> QED
    BY <2>2, <2>3, <2>4 DEF MemoryNext
<1> QED
  BY <1>1, <1>2

\* What the history of a job comes to that no goroutine has.
LEMMA HistoryCounted ==
  ASSUME MemoryTypes, NEW j \in stored, HistoryKept(j),
         \A g \in Goroutines : held[g] # j
  PROVE  /\ Len(history[j]) = starts[j]
         /\ {h.attempt : h \in Range(history[j])} = Begun(j)
<1> DEFINE a == submitted[j].attempts
           n == starts[j]
           H == history[j]
           number == [k \in DOMAIN H |-> H[k].attempt - a]
<1>1. /\ n \in Nat /\ a \in Int
      /\ H \in Seq([attempt : Int, status : {"completed", "failed"}])
  BY StoredNumbers DEF MemoryTypes, MemoryTypeOK
<1>2. Begun(j) = (a + 1) .. (a + n)
  BY DEF Begun
<1>3. /\ \A k \in DOMAIN H : H[k].attempt \in Begun(j)
      /\ \A k, l \in DOMAIN H : H[k].attempt = H[l].attempt => k = l
      /\ \A m \in Begun(j) : \E k \in DOMAIN H : H[k].attempt = m
  BY DEF HistoryKept, InWork
<1> HIDE DEF a, n, H
<1>4. Len(H) \in Nat /\ DOMAIN H = 1 .. Len(H)
  BY <1>1
<1>5. \A k \in DOMAIN H : H[k].attempt \in Int /\ H[k].attempt - a \in 1 .. n
  BY <1>1, <1>2, <1>3
<1>6. number \in Injection(DOMAIN H, 1 .. n)
  <2>1. \A k, l \in DOMAIN H :
          H[k].attempt - a = H[l].attempt - a => H[k].attempt = H[l].attempt
    BY <1>1, <1>5
  <2>2. \A k, l \in DOMAIN H : number[k] = number[l] => k = l
    BY <1>3, <2>1
  <2>3. number \in [DOMAIN H -> 1 .. n]
    BY <1>5
  <2> HIDE DEF number
  <2> QED
    BY <2>2, <2>3 DEF Injection, IsInjective
<1>7. number \in Surjection(DOMAIN H, 1 .. n)
  <2>1. ASSUME NEW m \in 1 .. n
        PROVE  \E k \in DOMAIN H : number[k] = m
    <3>1. a + m \in Begun(j)
      BY <1>1, <1>2
    <3>2. PICK k \in DOMAIN H : H[k].attempt = a + m
      BY <1>3, <3>1
    <3> QED
      BY <1>1, <3>2
  <2> QED
    BY <1>5, <2>1 DEF Surjection
<1>8. Len(H) = n
  <2>0. \A m \in Nat : IsFiniteSet(1 .. m) /\ Cardinality(1 .. m) = m
    BY FS_Interval
  <2>1. IsFiniteSet(1 .. n) /\ Cardinality(1 .. n) = n
    BY <1>1, <2>0
  <2>2. Cardinality(1 .. Len(H)) = Len(H)
    BY <1>4, <2>0
  <2> HIDE DEF number
  <2> QED
    BY <1>4, <1>6, <1>7, <2>1, <2>2, FS_Injection
<1>9. {h.attempt : h \in Range(H)} = Begun(j)
  <2>1. \A h : h \in Range(H) <=> \E k \in DOMAIN H : H[k] = h
    BY Zenon DEF Range
  <2>2. \A h \in Range(H) : h.attempt \in Begun(j)
    BY <1>3, <2>1
  <2>3. \A m \in Begun(j) : \E h \in Range(H) : h.attempt = m
    BY <1>3, <2>1
  <2> QED
    BY <2>2, <2>3, Zenon
<1> QED
  BY <1>8, <1>9 DEF n, H

(***************************************************************************)
(* In the in-memory service a job no goroutine works on has one history    *)
(* record for each execution, numbered in a row, in any interleaving of    *)
(* goroutines that save records of the same job: the last two steps of an  *)
(* attempt may come after the next one has begun or even ended.            *)
(***************************************************************************)
THEOREM MemoryHistoryIsComplete == MemorySpec => []MemoryHistoryComplete
<1>1. MemoryInit => AllHistoryKept
  BY DEF MemoryInit, AllHistoryKept
<1>2. MemoryTypes /\ MemoryTypes' /\ PlacesKnown /\ AllRunsCounted
        /\ AllHistoryKept /\ [MemoryNext]_memoryVars => AllHistoryKept'
  BY HistoryPreserved
<1>3. MemoryTypes /\ AllHistoryKept => MemoryHistoryComplete
  BY HistoryCounted DEF AllHistoryKept, MemoryHistoryComplete, Begun
<1> QED
  BY <1>1, <1>2, <1>3, MemoryTypesHold, PlacesAlwaysKnown, MemoryRunsCounted, PTL
  DEF MemorySpec

-----------------------------------------------------------------------------
(***************************************************************************)
(* The statistics.                                                         *)
(***************************************************************************)

\* Goroutine g stands at this step with the job.
Stands(g, j, step) == pc[g] = step /\ held[g] = j

HasPlace(j) ==
  /\ object[j].status \in {"pending", "scheduled", "processing", "failed",
                           "completed", "dead"}
  /\ object[j].status = "pending" =>
       \/ j \in inflight
       \/ Queued(j)
       \/ \E g \in Goroutines : Stands(g, j, "dequeued")
  /\ object[j].status = "scheduled" =>
       \/ j \in inflight \/ j \in delayed
       \/ \E g \in Goroutines : Stands(g, j, "retrying")
  /\ object[j].status = "processing" =>
       \E g \in Goroutines : \/ Stands(g, j, "executing")
                             \/ Stands(g, j, "succeeded")
                             \/ Stands(g, j, "erred")
  /\ object[j].status = "failed" => \E g \in Goroutines : Stands(g, j, "failed")

AllHavePlaces == \A j \in stored : HasPlace(j)

\* A job that a step does not touch keeps its place.
LEMMA KeepsPlace ==
  ASSUME NEW j, HasPlace(j), object'[j] = object[j],
         j \in inflight => j \in inflight', j \in delayed => j \in delayed',
         Queued(j) => Queued(j)',
         \A g \in Goroutines : \A step \in Holding :
           Stands(g, j, step) => Stands(g, j, step)'
  PROVE  HasPlace(j)'
BY DEF HasPlace, Holding

\* Taking the first id off a queue leaves the others in it.
LEMMA TailKeeps ==
  ASSUME MemoryTypes, NEW p \in QueueKeys, queues[p] # <<>>,
         queues' = [queues EXCEPT ![p] = Tail(@)],
         NEW j, j # Head(queues[p]), Queued(j)
  PROVE  Queued(j)'
<1>1. queues \in [QueueKeys -> Seq(jobStorage)]
  BY DEF MemoryTypes, MemoryTypeOK
<1>2. \A q \in QueueKeys : q # p => queues'[q] = queues[q]
  BY <1>1
<1>3. /\ queues'[p] = Tail(queues[p]) /\ Len(queues[p]) \in Nat
      /\ Len(queues[p]) > 0
      /\ DOMAIN queues[p] = 1 .. Len(queues[p])
      /\ DOMAIN queues'[p] = 1 .. (Len(queues[p]) - 1)
      /\ \A k \in DOMAIN queues'[p] : queues'[p][k] = queues[p][k + 1]
      /\ Head(queues[p]) = queues[p][1]
  BY <1>1
<1>q. PICK q \in QueueKeys : \E i \in DOMAIN queues[q] : queues[q][i] = j
  BY DEF Queued
<1>4. PICK i \in DOMAIN queues[q] : queues[q][i] = j
  BY <1>q
<1>5. CASE q # p
  BY <1>2, <1>4, <1>5 DEF Queued
<1>6. CASE q = p
  <2>1. i # 1 /\ i - 1 \in DOMAIN queues'[p] /\ queues'[p][i - 1] = j
    BY <1>3, <1>4, <1>6
  <2> QED
    BY <2>1 DEF Queued
<1> QED
  BY <1>5, <1>6

\* ProcessDelayedJobs leaves out none of the jobs that are due, and drops
\* none that is queued.
LEMMA ReadyKeeps ==
  ASSUME MemoryTypes, ProcessDelayedJobs, NEW j \in stored,
         Queued(j) \/ j \in due
  PROVE  Queued(j)'
<1>1. queues \in [QueueKeys -> Seq(jobStorage)]
  BY DEF MemoryTypes, MemoryTypeOK
<1>2. IsFiniteSet(due)
  BY FS_Subset DEF MemoryTypes, MemoryTypeOK, MemoryShape
<1>3. PICK ready \in ReadyOrders :
        queues' = [p \in QueueKeys |-> queues[p] \o ready[p]]
  BY DEF ProcessDelayedJobs
<1>4. ASSUME NEW p \in QueueKeys
      PROVE  /\ queues'[p] = queues[p] \o ready[p]
             /\ queues[p] \in Seq(jobStorage) /\ ready[p] \in Seq(jobStorage)
  <2>1. ready[p] \in Seq(DueAt(p))
    BY <1>2, ReadyLists
  <2>2. ready[p] \in Seq(jobStorage)
    BY <2>1, SeqWider DEF MemoryTypes, MemoryTypeOK, DueAt
  <2> QED
    BY <1>1, <1>3, <2>2
<1>5. \A s, t \in Seq(jobStorage) :
        /\ \A i \in DOMAIN s : i \in DOMAIN (s \o t) /\ (s \o t)[i] = s[i]
        /\ \A i \in DOMAIN t : /\ Len(s) + i \in DOMAIN (s \o t)
                               /\ (s \o t)[Len(s) + i] = t[i]
  OBVIOUS
<1>6. CASE Queued(j)
  <2>q. PICK q \in QueueKeys : \E i \in DOMAIN queues[q] : queues[q][i] = j
    BY <1>6 DEF Queued
  <2>1. PICK i \in DOMAIN queues[q] : queues[q][i] = j
    BY <2>q
  <2>2. i \in DOMAIN queues'[q] /\ queues'[q][i] = j
    <3>1. /\ i \in DOMAIN (queues[q] \o ready[q])
          /\ (queues[q] \o ready[q])[i] = queues[q][i]
      BY <1>4, <1>5, <2>1, Zenon
    <3> QED
      BY <1>4, <2>1, <3>1, Zenon
  <2> QED
    BY <2>2 DEF Queued
<1>7. CASE j \in due
  <2>1. PICK p \in QueueKeys : j \in DueAt(p)
    BY <1>7 DEF DueAt, MemoryTypes, MemoryShape, Alike
  <2> DEFINE n == Cardinality(DueAt(p))
  <2>2. IsFiniteSet(DueAt(p)) /\ n \in Nat
    BY <1>2, FS_Subset, FS_CardinalityType DEF DueAt
  <2>3. ready[p] \in SetToSeqs(DueAt(p))
    BY DEF ReadyOrders
  <2>4. /\ ready[p] \in [1 .. n -> DueAt(p)]
        /\ \A i, k \in 1 .. n : i # k => ready[p][i] # ready[p][k]
    BY <2>3 DEF SetToSeqs
  <2>5. ready[p] \in Injection(1 .. n, DueAt(p))
    BY <2>4 DEF Injection, IsInjective
  <2>6. Cardinality(1 .. n) = n
    BY <2>2, FS_Interval
  <2>7. ready[p] \in Surjection(1 .. n, DueAt(p))
    BY <2>2, <2>5, <2>6, FS_Injection
  <2>8. PICK i \in DOMAIN ready[p] : ready[p][i] = j
    BY <2>1, <2>4, <2>7 DEF Surjection
  <2>9. Len(queues[p]) + i \in DOMAIN queues'[p] /\ queues'[p][Len(queues[p]) + i] = j
    <3>1. /\ Len(queues[p]) + i \in DOMAIN (queues[p] \o ready[p])
          /\ (queues[p] \o ready[p])[Len(queues[p]) + i] = ready[p][i]
      BY <1>4, <1>5, <2>8, Zenon
    <3> QED
      BY <1>4, <2>8, <3>1, Zenon
  <2> QED
    BY <2>9 DEF Queued
<1> QED
  BY <1>6, <1>7

\* Requests, the delayed-job loop and the clock leave every job somewhere.
LEMMA SchedulerLosesNone ==
  ASSUME MemoryTypes, PlacesKnown, AllHavePlaces,
         Request \/ Reply \/ ProcessDelayedJobs \/ TimePasses
  PROVE  AllHavePlaces'
<1>0. \A g, j, step : Stands(g, j, step)' <=> Stands(g, j, step)
  BY DEF Request, Reply, ScheduleJob, EnqueueJob, ProcessDelayedJobs,
         TimePasses, workerVars, Stands
<1>a. \A j \in stored : HasPlace(j) /\ j \in Jobs
  BY DEF AllHavePlaces, MemoryTypes, MemoryShape
<1>1. ASSUME NEW i \in Jobs, NEW order \in Orders, ScheduleJob(i, order)
      PROVE  AllHavePlaces'
  <2> DEFINE job == NewJob(i, order.request)
  <2>1. job.status \in {"pending", "scheduled"}
    BY NewJobType
  <2> HIDE DEF job
  <2>2. /\ submitted[i] = NoJob /\ object' = [object EXCEPT ![i] = job]
        /\ stored' = stored \cup {i} /\ inflight' = inflight \cup {i}
        /\ queues' = queues /\ delayed' = delayed
    BY <1>1 DEF ScheduleJob, SaveJob, queueVars, job
  <2>3. object'[i] = job /\ \A j \in Jobs : j # i => object'[j] = object[j]
    BY <2>2 DEF MemoryTypes, MemoryTypeOK
  <2>4. \A j : Queued(j)' <=> Queued(j)
    BY <2>2 DEF Queued
  <2>5. ASSUME NEW j \in stored, j # i
        PROVE  HasPlace(j)'
    BY <1>0, <1>a, <2>2, <2>3, <2>4, <2>5, KeepsPlace
  <2>6. HasPlace(i)'
    BY <2>1, <2>2, <2>3 DEF HasPlace
  <2> QED
    BY <2>2, <2>5, <2>6 DEF AllHavePlaces
<1>2. ASSUME NEW i \in inflight, EnqueueJob(i)
      PROVE  AllHavePlaces'
  <2>1. /\ i \in stored /\ object[i].priority \in QueueKeys
        /\ object[i].status \in {"pending", "scheduled"}
    BY <1>2
    DEF PlacesKnown, PlaceKnown, MemoryTypes, MemoryTypeOK, MemoryShape, Alike
  <2>2. inflight' = inflight \ {i} /\ object' = object /\ stored' = stored
    BY <1>2 DEF EnqueueJob, storageVars
  <2>3. \/ /\ object[i].status = "scheduled" /\ queues' = queues
           /\ delayed' = delayed \cup {i}
        \/ /\ object[i].status = "pending" /\ delayed' = delayed
           /\ queues' = [queues EXCEPT ![object[i].priority] = Append(@, i)]
    BY <1>2, <2>1 DEF EnqueueJob, Enqueue, EnqueueDelayed
  <2>4. CASE queues' = queues /\ delayed' = delayed \cup {i}
             /\ object[i].status = "scheduled"
    <3>1. \A j : Queued(j)' <=> Queued(j)
      BY <2>4 DEF Queued
    <3>2. \A j \in stored : j # i => HasPlace(j)'
      BY <1>0, <1>a, <2>2, <2>4, <3>1, KeepsPlace
    <3>3. HasPlace(i)'
      BY <2>2, <2>4 DEF HasPlace
    <3> QED
      BY <2>2, <3>2, <3>3 DEF AllHavePlaces
  <2>5. CASE /\ object[i].status = "pending" /\ delayed' = delayed
             /\ queues' = [queues EXCEPT ![object[i].priority] = Append(@, i)]
    <3>1. \A j : Queued(j)' <=> Queued(j) \/ j = i
      BY <2>1, <2>5, QueueAppend
    <3>2. \A j \in stored : j # i => HasPlace(j)'
      BY <1>0, <1>a, <2>2, <2>5, <3>1, KeepsPlace
    <3>3. HasPlace(i)'
      BY <2>2, <2>5, <3>1 DEF HasPlace
    <3> QED
      BY <2>2, <3>2, <3>3 DEF AllHavePlaces
  <2> QED
    BY <2>3, <2>4, <2>5
<1>3. CASE ProcessDelayedJobs
  <2>1. /\ delayed' = delayed \ due /\ stored' = stored /\ inflight' = inflight
        /\ object' = [j \in Jobs |-> IF j \in due
                                       THEN [object[j] EXCEPT !.status = "pending"]
                                       ELSE object[j]]
    BY <1>3 DEF ProcessDelayedJobs, storageVars
  <2>2. ASSUME NEW j \in stored, j \notin due
        PROVE  HasPlace(j)'
    <3>1. Queued(j) => Queued(j)'
      BY <1>3, ReadyKeeps
    <3>2. object'[j] = object[j]
      BY <1>a, <2>1, <2>2
    <3> QED
      BY <1>0, <1>a, <2>1, <2>2, <3>1, <3>2, KeepsPlace
  <2>3. ASSUME NEW j \in stored, j \in due
        PROVE  HasPlace(j)'
    <3>1. Queued(j)'
      BY <1>3, <2>3, ReadyKeeps
    <3>2. object[j] \in Job
      BY DEF MemoryTypes, MemoryShape, Alike
    <3>3. object'[j].status = "pending"
      BY <1>a, <2>1, <2>3, <3>2 DEF Job
    <3> QED
      BY <3>1, <3>3 DEF HasPlace
  <2> QED
    BY <2>1, <2>2, <2>3 DEF AllHavePlaces
<1>4. CASE TimePasses
  <2>1. UNCHANGED <<object, stored, inflight, delayed, queues>>
    BY <1>4 DEF TimePasses, storageVars
  <2>2. \A j : Queued(j)' <=> Queued(j)
    BY <2>1 DEF Queued
  <2>3. \A j \in stored : HasPlace(j)'
    BY <1>0, <1>a, <2>1, <2>2, KeepsPlace
  <2> QED
    BY <2>1, <2>3 DEF AllHavePlaces
<1> QED
  BY <1>1, <1>2, <1>3, <1>4 DEF Request, Reply

\* A goroutine takes the job it dequeues, and passes on the one it has.
LEMMA GoroutineLosesNone ==
  ASSUME MemoryTypes, PlacesKnown, AllHavePlaces, NEW g \in Goroutines,
         ProcessJobs(g)
  PROVE  AllHavePlaces'
<1>1. \A h \in Goroutines : h # g => pc'[h] = pc[h] /\ held'[h] = held[h]
  BY OtherGoroutines
<1>2. stored' = stored /\ inflight' = inflight
  BY DEF ProcessJobs, ProcessNextJob, StartJob, HandlerSucceeds, HandlerFails,
         HandleJobSuccess, HandleJobFailure, MarkRetry, RetryJob, MarkDead,
         BuryJob, Mark, UpdateJob, SaveJobHistory, storageVars
<1>a. \A j \in stored : HasPlace(j) /\ j \in Jobs
  BY DEF AllHavePlaces, MemoryTypes, MemoryShape
<1>3. CASE ProcessNextJob(g)
  <2>1. PICK p \in Priorities, i \in Jobs : /\ Dequeue(p, i)
                                            /\ held' = [held EXCEPT ![g] = i]
    BY <1>3 DEF ProcessNextJob
  <2>2. /\ p \in QueueKeys /\ queues[p] # <<>> /\ i = Head(queues[p])
        /\ queues' = [queues EXCEPT ![p] = Tail(@)]
        /\ delayed' = delayed
    BY <2>1 DEF Dequeue, QueueKeys
  <2>o. object' = object
    BY <1>3 DEF ProcessNextJob
  <2>3. pc[g] = "idle" /\ pc'[g] = "dequeued" /\ held'[g] = i
    BY <1>3, <2>1 DEF ProcessNextJob, Goto, MemoryTypes, MemoryShape
  <2>4. ASSUME NEW j \in stored, j # i
        PROVE  HasPlace(j)'
    <3>1. Queued(j) => Queued(j)'
      BY <2>2, <2>4, TailKeeps
    <3>2. \A h \in Goroutines : \A step \in Holding :
            Stands(h, j, step) => Stands(h, j, step)'
      BY <1>1, <2>3 DEF Stands, Holding
    <3> QED
      BY <1>2, <1>a, <2>2, <2>o, <3>1, <3>2, KeepsPlace
  <2>5. ASSUME i \in stored
        PROVE  HasPlace(i)'
    <3>1. Queued(i) /\ PlaceKnown(i)
      BY <2>2, <2>5, QueueTail DEF PlacesKnown
    <3>2. object'[i].status = "pending"
      BY <2>o, <3>1 DEF PlaceKnown
    <3>3. Stands(g, i, "dequeued")'
      BY <2>3 DEF Stands
    <3> QED
      BY <3>2, <3>3 DEF HasPlace
  <2> QED
    BY <1>2, <2>4, <2>5 DEF AllHavePlaces
<1>4. CASE UpdateJob(g) \/ SaveJobHistory(g)
  <2>1. /\ pc[g] \in {"finished", "record"}
        /\ UNCHANGED <<object, queues, delayed>>
    BY <1>4 DEF UpdateJob, SaveJobHistory, queueVars
  <2>2. \A j : Queued(j)' <=> Queued(j)
    BY <2>1 DEF Queued
  <2>3. \A j : \A h \in Goroutines :
          \A step \in Holding : Stands(h, j, step) => Stands(h, j, step)'
    BY <1>1, <2>1 DEF Stands, Holding
  <2>4. \A j \in stored : HasPlace(j)'
    BY <1>2, <1>a, <2>1, <2>2, <2>3, KeepsPlace
  <2> QED
    BY <1>2, <2>4 DEF AllHavePlaces
<1>5. CASE OwnerStep(g)
  <2>1. /\ pc[g] \in Holding
        /\ held' = held /\ queues' = queues
        /\ \A j : j # held[g] => (j \in delayed' <=> j \in delayed)
        /\ \A j \in Jobs : j # held[g] => object'[j] = object[j]
    BY <1>5, OwnerEffect
  <2>2. PICK i \in stored : /\ i = held[g] /\ i \in Jobs /\ object[i] \in Job
                            /\ StatusFits(pc[g], object[i])
    BY <2>1, OwnedAlone
  <2> HIDE DEF OwnerStep
  <2>3. \A j : Queued(j)' <=> Queued(j)
    BY <2>1 DEF Queued
  <2>4. ASSUME NEW j \in stored, j # i
        PROVE  HasPlace(j)'
    <3>1. \A h \in Goroutines : \A step \in Holding :
            Stands(h, j, step) => Stands(h, j, step)'
      BY <1>1, <2>1, <2>2, <2>4 DEF Stands
    <3>2. object'[j] = object[j] /\ (j \in delayed' <=> j \in delayed)
      BY <1>a, <2>1, <2>2, <2>4
    <3> QED
      BY <1>2, <1>a, <2>3, <2>4, <3>1, <3>2, KeepsPlace
  <2>5. HasPlace(i)'
    <3>1. CASE StartJob(g)
      <4>1. starts[i] \in Nat /\ starts[i] + 1 \in Nat
        BY <2>2 DEF MemoryTypes, MemoryShape
      <4>2. MarkAsProcessing(object[i], starts[i] + 1).status = "processing"
        BY <2>2, <4>1, MarkFields
      <4>3. object'[i].status = "processing" /\ pc'[g] = "executing"
        BY <2>2, <3>1, <4>2
        DEF StartJob, Goto, MemoryTypes, MemoryTypeOK, MemoryShape
      <4>4. Stands(g, i, "executing")'
        BY <2>1, <2>2, <4>3 DEF Stands
      <4> QED
        BY <4>3, <4>4 DEF HasPlace
    <3>2. CASE HandlerSucceeds(g) \/ HandlerFails(g)
      <4>1. /\ pc[g] = "executing" /\ object' = object
            /\ pc'[g] \in {"succeeded", "erred"}
        BY <3>2 DEF HandlerSucceeds, HandlerFails, Goto, MemoryTypes, MemoryShape
      <4>2. object'[i].status = "processing"
        BY <2>2, <4>1 DEF StatusFits
      <4>3. Stands(g, i, "succeeded")' \/ Stands(g, i, "erred")'
        BY <2>1, <2>2, <4>1 DEF Stands
      <4> QED
        BY <4>2, <4>3 DEF HasPlace
    <3>3. CASE Marks(g)
      <4>1. \/ object'[i].status = "completed"
            \/ object'[i].status = "failed" /\ pc'[g] = "failed"
            \/ object'[i].status = "scheduled" /\ pc'[g] = "retrying"
            \/ object'[i].status = "dead"
        BY <2>2, <3>3, MarkEffect
      <4>2. \A step : pc'[g] = step => Stands(g, i, step)'
        BY <2>1, <2>2 DEF Stands
      <4> HIDE DEF Marks
      <4> QED
        BY <4>1, <4>2 DEF HasPlace
    <3>4. CASE RetryJob(g)
      <4>1. object'[i].status = "scheduled" /\ i \in delayed'
        BY <2>2, <3>4 DEF RetryJob, EnqueueDelayed, StatusFits
      <4> QED
        BY <4>1 DEF HasPlace
    <3>5. CASE BuryJob(g)
      <4>1. object'[i].status = "dead"
        BY <2>2, <3>5 DEF BuryJob, StatusFits
      <4> QED
        BY <4>1 DEF HasPlace
    <3> QED
      BY <1>5, <3>1, <3>2, <3>3, <3>4, <3>5 DEF OwnerStep
  <2> QED
    BY <1>2, <2>4, <2>5 DEF AllHavePlaces
<1> QED
  BY <1>3, <1>4, <1>5 DEF ProcessJobs, OwnerStep, Marks

\* No job is on the dead letter list twice.
DeadOnce ==
  \A i, k \in DOMAIN deadLetter : deadLetter[i] = deadLetter[k] => i = k

\* A job is buried at the stage "failed", where no dead letter is.
LEMMA DeadOncePreserved ==
  ASSUME MemoryTypes, PlacesKnown, StagesTrue, DeadOnce,
         [MemoryNext]_memoryVars
  PROVE  DeadOnce'
<1>1. CASE deadLetter' = deadLetter
  BY <1>1 DEF DeadOnce
<1>2. ASSUME NEW g \in Goroutines, BuryJob(g)
      PROVE  DeadOnce'
  <2>1. pc[g] = "burying" /\ deadLetter' = Append(deadLetter, held[g])
    BY <1>2 DEF BuryJob, MoveToDeadLetter
  <2>2. PICK i \in stored : i = held[g] /\ Stage(i) = "failed"
    BY <2>1, OwnedAlone, StageOwned DEF StageAt, Holding
  <2>3. ~Buried(i)
    BY <2>2 DEF StagesTrue
  <2>4. \A k \in DOMAIN deadLetter : deadLetter[k] # i
    BY <2>3, Zenon DEF Buried, Range
  <2>5. deadLetter \in Seq(jobStorage) /\ i \in jobStorage
    BY <2>1, <2>2, HeldJob DEF MemoryTypes, MemoryTypeOK
  <2>6. /\ Len(deadLetter) \in Nat /\ DOMAIN deadLetter = 1 .. Len(deadLetter)
        /\ DOMAIN deadLetter' = 1 .. (Len(deadLetter) + 1)
        /\ \A k \in DOMAIN deadLetter : deadLetter'[k] = deadLetter[k]
        /\ deadLetter'[Len(deadLetter) + 1] = i
    BY <2>1, <2>2, <2>5
  <2> QED
    BY <2>4, <2>6 DEF DeadOnce
<1>3. CASE ~ \E g \in Goroutines : BuryJob(g)
  <2>1. deadLetter' = deadLetter
    BY <1>3
    DEF MemoryNext, Request, ScheduleJob, Reply, EnqueueJob, Enqueue,
        EnqueueDelayed, ProcessDelayedJobs, TimePasses, ProcessJobs,
        ProcessNextJob, Dequeue, StartJob, HandlerSucceeds, HandlerFails,
        HandleJobSuccess, HandleJobFailure, MarkRetry, RetryJob, MarkDead,
        Mark, UpdateJob, SaveJobHistory, memoryVars, queueVars
  <2> QED
    BY <1>1, <2>1
<1> QED
  BY <1>2, <1>3

\* Where the jobs at rest are.
QueuedJobs == {j \in stored : Queued(j)}
BuriedJobs == {j \in stored : Buried(j)}

LEMMA RestMembers ==
  ASSUME NEW j
  PROVE  /\ j \in QueuedJobs <=> j \in stored /\ Queued(j)
         /\ j \in BuriedJobs <=> j \in stored /\ Buried(j)
         /\ j \in AtRest <=> j \in stored /\ ~Succeeded(j) /\ ~InHand(j)
BY Zenon DEF QueuedJobs, BuriedJobs, AtRest

\* The jobs at rest are those in the queues, those in delayedJobs and the
\* dead letters, and no job is in two of these places.
LEMMA RestSplit ==
  ASSUME MemoryTypes, PlacesKnown, StagesTrue, AllHavePlaces
  PROVE  /\ AtRest = (QueuedJobs \cup delayed) \cup BuriedJobs
         /\ QueuedJobs \cap delayed = {}
         /\ (QueuedJobs \cup delayed) \cap BuriedJobs = {}
<1>1. delayed \subseteq jobStorage /\ jobStorage \subseteq stored
  BY DEF MemoryTypes, MemoryTypeOK
<1>2. ASSUME NEW j \in stored
      PROVE  /\ Queued(j) => j \notin delayed
             /\ Buried(j) => ~Queued(j) /\ j \notin delayed
             /\ ~Succeeded(j) /\ ~InHand(j) <=>
                  Queued(j) \/ j \in delayed \/ Buried(j)
  <2>1. done[j] \in Nat /\ lost[j] \in Nat
    BY DEF MemoryTypes, MemoryShape
  <2>2. Succeeded(j) <=> Stage(j) = "completed"
    BY <2>1 DEF Succeeded, StagesTrue
  <2>3. Buried(j) <=> Stage(j) = "dead"
    BY DEF StagesTrue
  <2>4. PlaceKnown(j) /\ HasPlace(j)
    BY DEF PlacesKnown, AllHavePlaces
  <2>5. /\ Queued(j) => object[j].status = "pending" /\ j \in jobStorage
        /\ j \in delayed => object[j].status = "scheduled" /\ j \in jobStorage
        /\ j \in inflight => /\ object[j].status \in {"pending", "scheduled"}
                             /\ j \notin jobStorage
    <3>1. Queued(j) => j \in jobStorage
      BY DEF Queued, MemoryTypes, MemoryTypeOK
    <3> QED
      BY <1>1, <2>4, <3>1 DEF PlaceKnown
  <2>6. ASSUME NEW g \in Goroutines, Owns(g, j)
        PROVE  /\ ~Queued(j) /\ j \notin delayed /\ j \notin inflight
               /\ Stage(j) # "dead"
    <3>1. pc[g] \in Holding /\ held[g] = j
      BY <2>6 DEF Owns
    <3> QED
      BY <3>1, OwnedAlone, StageOwned DEF StageAt
  <2>7. ASSUME \A g \in Goroutines : ~Owns(g, j)
        PROVE  Stage(j) = object[j].status
    BY <2>7, StageFree
  <2>8. ~Succeeded(j) /\ ~InHand(j) => Queued(j) \/ j \in delayed \/ Buried(j)
    <3> SUFFICES ASSUME ~Succeeded(j), ~InHand(j)
                 PROVE  Queued(j) \/ j \in delayed \/ Buried(j)
      OBVIOUS
    <3>1. ~At(j, "succeeded") /\ ~At(j, "retrying") /\ ~At(j, "burying")
      BY <2>2 DEF Stage, InHand, At
    <3>2. Stage(j) = object[j].status
      BY <3>1 DEF Stage
    <3>3. \A g \in Goroutines : ~Owns(g, j)
      BY <3>1 DEF Owns, At, InHand, Holding
    <3>4. \A g \in Goroutines : \A step \in Holding : ~Stands(g, j, step)
      BY <3>3 DEF Owns, Stands
    <3> QED
      BY <2>2, <2>3, <2>4, <3>2, <3>4 DEF HasPlace, InHand, Holding
  <2>9. InHand(j) =>
          j \in inflight \/ \E g \in Goroutines : Owns(g, j)
    BY DEF InHand, Owns, Holding
  <2> QED
    BY <2>2, <2>3, <2>5, <2>6, <2>7, <2>8, <2>9
<1>3. \A j : j \in AtRest <=> j \in (QueuedJobs \cup delayed) \cup BuriedJobs
  BY <1>1, <1>2, RestMembers
<1>4. \A j : ~(j \in QueuedJobs /\ j \in delayed)
  BY <1>2, RestMembers
<1>5. \A j : ~(j \in QueuedJobs \cup delayed /\ j \in BuriedJobs)
  BY <1>1, <1>2, RestMembers
<1> QED
  BY <1>3, <1>4, <1>5

\* Each entry of the active counts is a position of a queue, and each
\* position has a job of its own: there are as many of one as of the other.
LEMMA ActiveCount ==
  ASSUME MemoryTypes, PlacesKnown, IsFiniteSet(stored)
  PROVE  Cardinality(ActiveEntries(GetQueueStats)) = Cardinality(QueuedJobs)
<1> DEFINE E == ActiveEntries(GetQueueStats)
           f == [e \in E |-> queues[e[1]][e[2]]]
<1>1. \A p \in QueueKeys : /\ queues[p] \in Seq(jobStorage)
                           /\ DOMAIN queues[p] = 1 .. Len(queues[p])
                           /\ GetQueueStats.active[p] = Len(queues[p])
  BY DEF MemoryTypes, MemoryTypeOK, GetQueueStats
<1>2. \A e : e \in E <=> \E p \in QueueKeys : e \in {p} \X (1 .. GetQueueStats.active[p])
  BY Zenon DEF ActiveEntries
<1>3. \A e : e \in E <=>
        /\ e = <<e[1], e[2]>> /\ e[1] \in QueueKeys
        /\ e[2] \in DOMAIN queues[e[1]]
  <2> SUFFICES ASSUME NEW e
               PROVE  e \in E <=> /\ e = <<e[1], e[2]>> /\ e[1] \in QueueKeys
                                  /\ e[2] \in DOMAIN queues[e[1]]
    OBVIOUS
  <2>1. \A p : \A D : e \in {p} \X D <=> e = <<e[1], e[2]>> /\ e[1] = p /\ e[2] \in D
    OBVIOUS
  <2>2. e \in E <=> \E p \in QueueKeys : /\ e = <<e[1], e[2]>> /\ e[1] = p
                                         /\ e[2] \in DOMAIN queues[p]
    BY <1>1, <1>2, <2>1
  <2> HIDE DEF E
  <2> QED
    BY <2>2
<1> HIDE DEF E
<1>4. \A e \in E : f[e] \in QueuedJobs
  <2> SUFFICES ASSUME NEW e \in E PROVE f[e] \in QueuedJobs
    OBVIOUS
  <2>1. e[1] \in QueueKeys /\ e[2] \in DOMAIN queues[e[1]]
    BY <1>3
  <2>2. f[e] = queues[e[1]][e[2]] /\ f[e] \in jobStorage
    BY <1>1, <2>1
  <2>3. Queued(f[e]) /\ f[e] \in stored
    BY <2>1, <2>2 DEF Queued, MemoryTypes, MemoryTypeOK
  <2> QED
    BY <2>3, RestMembers
<1>5. ASSUME NEW d \in E, NEW e \in E, f[d] = f[e]
      PROVE  d = e
  <2>1. QueuedOnce(f[d])
    BY <1>4, RestMembers DEF PlacesKnown, PlaceKnown
  <2>2. /\ d[1] \in QueueKeys /\ d[2] \in DOMAIN queues[d[1]]
        /\ e[1] \in QueueKeys /\ e[2] \in DOMAIN queues[e[1]]
        /\ d = <<d[1], d[2]>> /\ e = <<e[1], e[2]>>
    BY <1>3
  <2>3. queues[d[1]][d[2]] = f[d] /\ queues[e[1]][e[2]] = f[d]
    BY <1>5
  <2>4. d[1] = e[1] /\ d[2] = e[2]
    BY <2>1, <2>2, <2>3 DEF QueuedOnce
  <2> QED
    BY <2>2, <2>4
<1>6. ASSUME NEW j \in QueuedJobs
      PROVE  \E e \in E : f[e] = j
  <2>1. PICK p \in QueueKeys : \E i \in DOMAIN queues[p] : queues[p][i] = j
    BY RestMembers DEF Queued
  <2>2. PICK i \in DOMAIN queues[p] : queues[p][i] = j
    BY <2>1
  <2>3. <<p, i>> \in E /\ f[<<p, i>>] = j
    BY <1>3, <2>2
  <2> QED
    BY <2>3
<1>7. f \in [E -> QueuedJobs] /\ DOMAIN f = E
  BY <1>4
<1> HIDE DEF f
<1>8. f \in Injection(E, QueuedJobs)
  BY <1>5, <1>7 DEF Injection, IsInjective
<1>9. f \in Surjection(E, QueuedJobs)
  BY <1>6, <1>7 DEF Surjection
<1>10. IsFiniteSet(QueuedJobs)
  BY FS_Subset DEF QueuedJobs
<1> QED
  BY <1>8, <1>9, <1>10, FS_Injection DEF E

\* The dead letter list is as long as it has jobs.
LEMMA DeadCount ==
  ASSUME MemoryTypes, DeadOnce, IsFiniteSet(stored)
  PROVE  Len(deadLetter) = Cardinality(BuriedJobs) /\ Len(deadLetter) \in Nat
<1>1. /\ deadLetter \in Seq(jobStorage) /\ Len(deadLetter) \in Nat
      /\ DOMAIN deadLetter = 1 .. Len(deadLetter)
      /\ jobStorage \subseteq stored
  BY DEF MemoryTypes, MemoryTypeOK
<1> DEFINE D == 1 .. Len(deadLetter)
<1>2. \A j : Buried(j) <=> \E i \in D : deadLetter[i] = j
  BY <1>1, Zenon DEF Buried, Range
<1>3. \A i \in D : deadLetter[i] \in BuriedJobs
  <2>1. \A i \in D : deadLetter[i] \in stored
    BY <1>1
  <2> QED
    BY <1>2, <2>1, RestMembers
<1>4. deadLetter \in [D -> BuriedJobs]
  <2>1. deadLetter \in [D -> jobStorage]
    BY <1>1
  <2> HIDE DEF D
  <2> QED
    BY <1>3, <2>1
<1>5. deadLetter \in Injection(D, BuriedJobs)
  BY <1>1, <1>4 DEF Injection, IsInjective, DeadOnce
<1>6. \A j \in BuriedJobs : \E i \in D : deadLetter[i] = j
  BY <1>2, RestMembers
<1>7. deadLetter \in Surjection(D, BuriedJobs)
  BY <1>4, <1>6 DEF Surjection
<1>8. IsFiniteSet(BuriedJobs)
  BY FS_Subset DEF BuriedJobs
<1>9. Cardinality(D) = Cardinality(BuriedJobs)
  BY <1>5, <1>7, <1>8, FS_Injection
<1>10. \A n \in Nat : Cardinality(1 .. n) = n
  BY FS_Interval
<1> QED
  BY <1>1, <1>9, <1>10

\* What counts each job at rest once is exact.
LEMMA StatsCounted ==
  ASSUME MemoryTypes, PlacesKnown, StagesTrue, AllHavePlaces, DeadOnce,
         IsFiniteSet(stored)
  PROVE  MemoryStatsExact
<1>1. /\ AtRest = (QueuedJobs \cup delayed) \cup BuriedJobs
      /\ QueuedJobs \cap delayed = {}
      /\ (QueuedJobs \cup delayed) \cap BuriedJobs = {}
  BY RestSplit
<1>2. IsFiniteSet(QueuedJobs) /\ IsFiniteSet(BuriedJobs) /\ IsFiniteSet(delayed)
  BY FS_Subset DEF QueuedJobs, BuriedJobs, MemoryTypes, MemoryShape
<1>3. \A S, T : IsFiniteSet(S) /\ IsFiniteSet(T) /\ S \cap T = {} =>
        /\ IsFiniteSet(S \cup T)
        /\ Cardinality(S \cup T) = Cardinality(S) + Cardinality(T)
  <2> SUFFICES ASSUME NEW S, NEW T, IsFiniteSet(S), IsFiniteSet(T),
                      S \cap T = {}
               PROVE  /\ IsFiniteSet(S \cup T)
                      /\ Cardinality(S \cup T) = Cardinality(S) + Cardinality(T)
    OBVIOUS
  <2>1. Cardinality(S) \in Nat /\ Cardinality(T) \in Nat
    BY FS_CardinalityType
  <2>2. Cardinality(S \cap T) = 0
    BY FS_EmptySet
  <2>3. /\ IsFiniteSet(S \cup T)
        /\ Cardinality(S \cup T) = Cardinality(S) + Cardinality(T) - Cardinality(S \cap T)
    BY FS_Union
  <2> QED
    BY <2>1, <2>2, <2>3
<1>4. /\ IsFiniteSet(QueuedJobs \cup delayed)
      /\ Cardinality(QueuedJobs \cup delayed)
           = Cardinality(QueuedJobs) + Cardinality(delayed)
  BY <1>1, <1>2, <1>3
<1>5. Cardinality(AtRest)
        = Cardinality(QueuedJobs \cup delayed) + Cardinality(BuriedJobs)
  BY <1>1, <1>2, <1>3, <1>4
<1>6. GetQueueStats.delayed = Cardinality(delayed)
      /\ GetQueueStats.dead = Len(deadLetter)
  BY DEF GetQueueStats
<1> QED
  BY <1>4, <1>5, <1>6, ActiveCount, DeadCount DEF MemoryStatsExact

(***************************************************************************)
(* At every moment the answer of the in-memory GetQueueStats counts every  *)
(* job that is neither carried out nor in the hands of a request or of a   *)
(* goroutine, and counts it once, although jobs go round through queues,   *)
(* delayedJobs and the dead letter list that nothing keeps apart but the   *)
(* order of the steps that move them.                                      *)
(***************************************************************************)
THEOREM MemoryStatsAreExact == MemorySpec => []MemoryStatsExact
<1>1. MemoryInit => AllHavePlaces /\ DeadOnce /\ IsFiniteSet(stored)
  BY FS_EmptySet DEF MemoryInit, AllHavePlaces, DeadOnce
<1>2. MemoryTypes /\ PlacesKnown /\ AllHavePlaces /\ [MemoryNext]_memoryVars
        => AllHavePlaces'
  <2> SUFFICES ASSUME MemoryTypes, PlacesKnown, AllHavePlaces,
                      [MemoryNext]_memoryVars
               PROVE  AllHavePlaces'
    OBVIOUS
  <2>1. CASE UNCHANGED memoryVars
    BY <2>1
    DEF AllHavePlaces, HasPlace, Queued, Stands, memoryVars, storageVars,
        queueVars, workerVars
  <2>2. CASE MemoryNext
    BY <2>2, SchedulerLosesNone, GoroutineLosesNone DEF MemoryNext
  <2> QED
    BY <2>1, <2>2
<1>3. MemoryTypes /\ IsFiniteSet(stored) /\ [MemoryNext]_memoryVars
        => IsFiniteSet(stored)'
  <2> SUFFICES ASSUME MemoryTypes, IsFiniteSet(stored), [MemoryNext]_memoryVars
               PROVE  IsFiniteSet(stored')
    OBVIOUS
  <2>1. CASE stored' \subseteq stored
    BY <2>1, FS_Subset
  <2>2. ASSUME NEW j \in stored', j \notin stored
        PROVE  IsFiniteSet(stored')
    <3>1. stored' = stored \cup {j}
      BY <2>2, Arrival
    <3> QED
      BY <3>1, FS_AddElement
  <2> QED
    BY <2>1, <2>2
<1>4. MemoryTypes /\ PlacesKnown /\ StagesTrue /\ DeadOnce
        /\ [MemoryNext]_memoryVars => DeadOnce'
  BY DeadOncePreserved
<1>5. MemoryTypes /\ PlacesKnown /\ StagesTrue /\ AllHavePlaces /\ DeadOnce
        /\ IsFiniteSet(stored) => MemoryStatsExact
  BY StatsCounted
<1> QED
  BY <1>1, <1>2, <1>3, <1>4, <1>5, MemoryTypesHold, PlacesAlwaysKnown,
     StagesAlwaysTrue, PTL
  DEF MemorySpec
==============================================================================
