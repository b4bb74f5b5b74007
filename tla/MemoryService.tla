---------------------------- MODULE MemoryService ----------------------------
(***************************************************************************)
(* The services on the in-memory adapters, MemoryQueue (queue/memory.go)   *)
(* and MemoryStorage (storage/memory.go), in one process: requests, the    *)
(* delayed-job loop and job goroutines.                                    *)
(*                                                                         *)
(* Both adapters keep pointers.  From SaveJob on, the storage's map, the   *)
(* queue's jobStorage and the goroutine that works on a job share one Job, *)
(* here object[j]; queues hold identifiers.  Each method holds its         *)
(* adapter's mutex from beginning to end, so it is one step.  No lock      *)
(* guards the Job itself: a reader that has it from GetJob sees each write *)
(* of its status before the call that follows, so the return of a handler, *)
(* the write and the call are a step each.  (The calls that only put the   *)
(* pointer where it is already need none: UpdateJob in StartJob.)  The     *)
(* adapters ignore the context and never fail, except for a job or worker  *)
(* that is not there.                                                      *)
(***************************************************************************)
EXTENDS JobHandlers, SequencesExt

CONSTANTS
  Orders,      \* what clients may send: a request and its payload
  Goroutines,  \* processJobs goroutines
  MaxLost      \* bound: errors that come from a call carried out, for a job

Requests == {o.request : o \in Orders}

ASSUME OrdersAssumption == Requests \subseteq ScheduleJobRequest
ASSUME MaxLostAssumption == MaxLost \in Nat

VARIABLES
  payload,     \* job id -> its payload, which no step changes
  object,      \* job id -> the Job everybody points to, or NoJob
  stored,      \* ids in MemoryStorage.jobs
  history,     \* job id -> MemoryStorage.history
  queues,      \* priority -> MemoryQueue.queues
  jobStorage,  \* ids in MemoryQueue.jobStorage
  delayed,     \* ids in MemoryQueue.delayedJobs
  due,         \* ids in delayedJobs whose time has come
  deadLetter,  \* MemoryQueue.deadLetter
  inflight,    \* ids ScheduleJob has saved and not yet enqueued
  pc,          \* goroutine -> where it stands in ProcessNextJob
  held,        \* goroutine -> id of the job it works on
  record,      \* goroutine -> the history record it builds
  (* History variables. *)
  submitted,   \* job id -> the job as ScheduleJob built it
  starts,      \* job id -> number of MarkAsProcessing calls
  done,        \* job id -> how often its service has carried it out
  lost         \* job id -> how often it has, and returned an error

storageVars == <<stored, history>>
queueVars   == <<queues, jobStorage, delayed, due, deadLetter>>
workerVars  == <<pc, held, record>>
clientVars  == <<payload, submitted>>
tallies     == <<starts, done, lost>>
memoryVars  == <<object, storageVars, queueVars, inflight, workerVars,
                 clientVars, tallies>>

\* A priority is a key of the map as it is, named or not.
QueueKeys ==
  Priorities \cup {NewJob(j, req).priority : j \in Jobs, req \in Requests}

NoRecord == [attempt |-> 0, status |-> "none"]

MemoryInit ==
  /\ payload = [j \in Jobs |-> Malformed]
  /\ object = [j \in Jobs |-> NoJob]
  /\ stored = {}
  /\ history = [j \in Jobs |-> <<>>]
  /\ queues = [p \in QueueKeys |-> <<>>]
  /\ jobStorage = {}
  /\ delayed = {}
  /\ due = {}
  /\ deadLetter = <<>>
  /\ inflight = {}
  /\ pc = [g \in Goroutines |-> "idle"]
  /\ held = [g \in Goroutines |-> NoJob]
  /\ record = [g \in Goroutines |-> NoRecord]
  /\ submitted = [j \in Jobs |-> NoJob]
  /\ starts = [j \in Jobs |-> 0]
  /\ done = [j \in Jobs |-> 0]
  /\ lost = [j \in Jobs |-> 0]

-----------------------------------------------------------------------------
(* MemoryQueue *)

Enqueue(j) ==
  /\ jobStorage' = jobStorage \cup {j}
  /\ queues' = [queues EXCEPT ![object[j].priority] = Append(@, j)]
  /\ UNCHANGED <<delayed, due, deadLetter>>

EnqueueDelayed(j) ==
  /\ jobStorage' = jobStorage \cup {j}
  /\ delayed' = delayed \cup {j}
  /\ UNCHANGED <<queues, due, deadLetter>>

MoveToDeadLetter(j) ==
  /\ deadLetter' = Append(deadLetter, j)
  /\ UNCHANGED <<queues, jobStorage, delayed, due>>

\* The first list in the order asked for that has an entry loses it.  (An
\* entry without a job in jobStorage would be dropped; Enqueue leaves none.)
Dequeue(p, j) ==
  /\ \E i \in DOMAIN DequeueOrder :
       /\ p = DequeueOrder[i]
       /\ \A k \in 1 .. (i - 1) : queues[DequeueOrder[k]] = <<>>
  /\ queues[p] # <<>>
  /\ j = Head(queues[p])
  /\ queues' = [queues EXCEPT ![p] = Tail(@)]
  /\ UNCHANGED <<jobStorage, delayed, due, deadLetter>>

\* The jobs that are due, priority by priority, in whatever order the map
\* yields them.
DueAt(p) == {j \in due : object[j].priority = p}

ReadyOrders ==
  {ready \in [QueueKeys -> UNION {SetToSeqs(DueAt(p)) : p \in QueueKeys}] :
     \A p \in QueueKeys : ready[p] \in SetToSeqs(DueAt(p))}

\* Mutant: the entry stays in delayedJobs.
ProcessDelayedJobsKept ==
  /\ due # {}
  /\ \E ready \in ReadyOrders :
       queues' = [p \in QueueKeys |-> queues[p] \o ready[p]]
  /\ object' = [j \in Jobs |-> IF j \in due
                                 THEN [object[j] EXCEPT !.status = "pending"]
                                 ELSE object[j]]
  /\ UNCHANGED <<delayed, due, jobStorage, deadLetter, storageVars, inflight,
                 workerVars, clientVars, tallies>>

\* Every job that is due goes to the end of its queue, under one lock.
ProcessDelayedJobs ==
  /\ due # {}
  /\ \E ready \in ReadyOrders :
       queues' = [p \in QueueKeys |-> queues[p] \o ready[p]]
  /\ object' = [j \in Jobs |-> IF j \in due
                                 THEN [object[j] EXCEPT !.status = "pending"]
                                 ELSE object[j]]
  /\ delayed' = delayed \ due
  /\ due' = {}
  /\ UNCHANGED <<jobStorage, deadLetter, storageVars, inflight, workerVars,
                 clientVars, tallies>>

\* The lengths under one read lock.
GetQueueStats == [active  |-> [p \in QueueKeys |-> Len(queues[p])],
                  delayed |-> Cardinality(delayed),
                  dead    |-> Len(deadLetter)]

\* The clock reaches the time of a delayed job.
TimePasses ==
  /\ \E j \in delayed \ due : due' = due \cup {j}
  /\ UNCHANGED <<object, storageVars, queues, jobStorage, delayed, deadLetter,
                 inflight, workerVars, clientVars, tallies>>

-----------------------------------------------------------------------------
(* MemoryStorage (UpdateJob and SaveJobHistory end a run, below) *)

SaveJob(j, job) ==
  /\ object' = [object EXCEPT ![j] = job]
  /\ stored' = stored \cup {j}
  /\ UNCHANGED history

-----------------------------------------------------------------------------
(* SchedulerService *)

ScheduleJob(j, order) ==
  /\ submitted[j] = NoJob
  /\ submitted' = [submitted EXCEPT ![j] = NewJob(j, order.request)]
  /\ payload' = [payload EXCEPT ![j] = order.payload]
  /\ SaveJob(j, NewJob(j, order.request))
  /\ inflight' = inflight \cup {j}
  /\ UNCHANGED <<queueVars, workerVars, tallies>>

EnqueueJob(j) ==
  /\ j \in inflight
  /\ inflight' = inflight \ {j}
  /\ IF object[j].status = "scheduled" THEN EnqueueDelayed(j) ELSE Enqueue(j)
  /\ UNCHANGED <<object, storageVars, workerVars, clientVars, tallies>>

-----------------------------------------------------------------------------
(* ProcessorService *)

Goto(g, step) == pc' = [pc EXCEPT ![g] = step]

ProcessNextJob(g) ==
  /\ pc[g] = "idle"
  /\ \E p \in Priorities, j \in Jobs :
       /\ Dequeue(p, j)
       /\ held' = [held EXCEPT ![g] = j]
  /\ Goto(g, "dequeued")
  /\ UNCHANGED <<object, storageVars, inflight, record, clientVars, tallies>>

\* MarkAsProcessing and UpdateJob, which finds the id in the map or drops
\* the job.
StartJob(g) ==
  LET j == held[g] IN
  /\ pc[g] = "dequeued"
  /\ starts' = [starts EXCEPT ![j] = @ + 1]
  /\ object' = [object EXCEPT ![j] = MarkAsProcessing(@, starts[j] + 1)]
  /\ record' = [record EXCEPT ![g] = [attempt |-> object[j].attempts + 1,
                                      status  |-> "processing"]]
  /\ Goto(g, IF j \in stored THEN "executing" ELSE "idle")
  /\ UNCHANGED <<storageVars, queueVars, inflight, held, clientVars, done,
                 lost>>

\* The handler returns nil: its service has carried out the job.
HandlerSucceeds(g) ==
  LET j == held[g] IN
  /\ pc[g] = "executing"
  /\ "ok" \in ExecuteJob(object[j].type, payload[j])
  /\ done' = [done EXCEPT ![j] = @ + 1]
  /\ Goto(g, "succeeded")
  /\ UNCHANGED <<object, storageVars, queueVars, inflight, held, record,
                 clientVars, starts, lost>>

\* What an error may hide: nothing, or a job carried out.
Hidden(j) ==
  \/ UNCHANGED <<done, lost>>
  \/ /\ "unacked" \in ExecuteJob(object[j].type, payload[j])
     /\ lost[j] < MaxLost
     /\ done' = [done EXCEPT ![j] = @ + 1]
     /\ lost' = [lost EXCEPT ![j] = @ + 1]

\* executeJob returns an error.
HandlerFails(g) ==
  /\ pc[g] = "executing"
  /\ Hidden(held[g])
  /\ Goto(g, "erred")
  /\ UNCHANGED <<object, storageVars, queueVars, inflight, held, record,
                 clientVars, starts>>

\* A write to the Job that everybody points to, under no lock.
Mark(g, job, step) ==
  /\ object' = [object EXCEPT ![held[g]] = job]
  /\ Goto(g, step)
  /\ UNCHANGED <<storageVars, queueVars, inflight, held, clientVars, tallies>>

HandleJobSuccess(g) ==
  /\ pc[g] = "succeeded"
  /\ Mark(g, MarkAsCompleted(object[held[g]]), "finished")
  /\ record' = [record EXCEPT ![g].status = "completed"]

\* Mutant: the record keeps the status ProcessJob gave it.
HandleJobFailureRecordLeft(g) ==
  /\ pc[g] = "erred"
  /\ Mark(g, MarkAsFailed(object[held[g]]), "failed")
  /\ UNCHANGED record

HandleJobFailure(g) ==
  /\ pc[g] = "erred"
  /\ Mark(g, MarkAsFailed(object[held[g]]), "failed")
  /\ record' = [record EXCEPT ![g].status = "failed"]

MarkRetry(g) ==
  /\ pc[g] = "failed"
  /\ CanRetry(object[held[g]])
  /\ Mark(g, MarkForRetry(object[held[g]]), "retrying")
  /\ UNCHANGED record

\* From EnqueueDelayed on, others may work on the same Job.
RetryJob(g) ==
  /\ pc[g] = "retrying"
  /\ EnqueueDelayed(held[g])
  /\ Goto(g, "finished")
  /\ UNCHANGED <<object, storageVars, inflight, held, record, clientVars,
                 tallies>>

\* Mutant: the job keeps the status MarkAsFailed gave it.
MarkDeadForgotten(g) ==
  /\ pc[g] = "failed"
  /\ ~CanRetry(object[held[g]])
  /\ Mark(g, object[held[g]], "burying")
  /\ UNCHANGED record

MarkDead(g) ==
  /\ pc[g] = "failed"
  /\ ~CanRetry(object[held[g]])
  /\ Mark(g, MarkAsDead(object[held[g]]), "burying")
  /\ UNCHANGED record

BuryJob(g) ==
  /\ pc[g] = "burying"
  /\ MoveToDeadLetter(held[g])
  /\ Goto(g, "finished")
  /\ UNCHANGED <<object, storageVars, inflight, held, record, clientVars,
                 tallies>>

\* Mutant: UpdateJob takes a copy and writes the status the run ended with.
UpdateJobCopied(g) ==
  /\ pc[g] = "finished"
  /\ object' = [object EXCEPT ![held[g]].status =
                  IF record[g].status = "completed" THEN "completed"
                  ELSE IF held[g] \in Range(deadLetter) THEN "dead"
                  ELSE "scheduled"]
  /\ Goto(g, "record")
  /\ UNCHANGED <<storageVars, queueVars, inflight, held, record, clientVars,
                 tallies>>

\* The last UpdateJob of handleJobSuccess or handleJobFailure puts the pointer
\* where it is already (and sets UpdatedAt).
UpdateJob(g) ==
  /\ pc[g] = "finished"
  /\ Goto(g, "record")
  /\ UNCHANGED <<object, storageVars, queueVars, inflight, held, record,
                 clientVars, tallies>>

\* Mutant: the map keeps one record per job.
SaveJobHistoryLast(g) ==
  /\ pc[g] = "record"
  /\ history' = [history EXCEPT ![held[g]] = <<record[g]>>]
  /\ Goto(g, "idle")
  /\ held' = [held EXCEPT ![g] = NoJob]
  /\ record' = [record EXCEPT ![g] = NoRecord]
  /\ UNCHANGED <<object, stored, queueVars, inflight, clientVars, tallies>>

SaveJobHistory(g) ==
  /\ pc[g] = "record"
  /\ history' = [history EXCEPT ![held[g]] = Append(@, record[g])]
  /\ Goto(g, "idle")
  /\ held' = [held EXCEPT ![g] = NoJob]
  /\ record' = [record EXCEPT ![g] = NoRecord]
  /\ UNCHANGED <<object, stored, queueVars, inflight, clientVars, tallies>>

-----------------------------------------------------------------------------
Request == \E j \in Jobs, order \in Orders : ScheduleJob(j, order)

Reply == \E j \in inflight : EnqueueJob(j)

ProcessJobs(g) ==
  \/ ProcessNextJob(g)
  \/ StartJob(g)
  \/ HandlerSucceeds(g)
  \/ HandlerFails(g)
  \/ HandleJobSuccess(g)
  \/ HandleJobFailure(g)
  \/ MarkRetry(g)
  \/ RetryJob(g)
  \/ MarkDead(g)
  \/ BuryJob(g)
  \/ UpdateJob(g)
  \/ SaveJobHistory(g)

MemoryNext ==
  \/ Request
  \/ Reply
  \/ ProcessDelayedJobs
  \/ TimePasses
  \/ \E g \in Goroutines : ProcessJobs(g)

MemorySpec == MemoryInit /\ [][MemoryNext]_memoryVars

\* Requests are answered, the loops go round, handlers return, time passes.
MemoryFairSpec ==
  /\ MemorySpec
  /\ WF_memoryVars(Reply)
  /\ WF_memoryVars(ProcessDelayedJobs)
  /\ WF_memoryVars(TimePasses)
  /\ \A g \in Goroutines : WF_memoryVars(ProcessJobs(g))

-----------------------------------------------------------------------------
(* Properties *)

\* Types: a Job may be reached through an id wherever an id is kept.
MemoryTypeOK ==
  /\ object \in [Jobs -> Job \cup {NoJob}]
  /\ \A j \in Jobs : (object[j] # NoJob) = (j \in stored)
  /\ history \in [Jobs -> Seq([attempt : Int, status : {"completed", "failed"}])]
  /\ queues \in [QueueKeys -> Seq(jobStorage)]
  /\ due \subseteq delayed /\ delayed \subseteq jobStorage
  /\ deadLetter \in Seq(jobStorage)
  /\ jobStorage \subseteq stored /\ inflight \subseteq stored
  /\ \A g \in Goroutines : IF pc[g] = "idle" THEN held[g] = NoJob
                                             ELSE held[g] \in jobStorage

\* The handler has returned nil.
Succeeded(j) == done[j] > lost[j]

Settled(j) == Succeeded(j) \/ j \in Range(deadLetter)

\* A goroutine is at this step with the job.
At(j, step) == \E g \in Goroutines : pc[g] = step /\ held[g] = j

(***************************************************************************)
(* What a reader of the shared Job may conclude from its status, also      *)
(* while goroutines of earlier attempts have still to make their last      *)
(* UpdateJob.  It is completed if and only if its handler has returned nil *)
(* and the goroutine has got on to MarkAsCompleted, and dead if and only   *)
(* if it is a dead letter or a goroutine is about to make it one.  And no  *)
(* retry repeats a success the processor knows of: the service has carried *)
(* out the job once for every error that hid it, and at most once more.    *)
(***************************************************************************)
SharedStatusTrue ==
  \A j \in stored :
    /\ object[j].status = "completed" <=> Succeeded(j) /\ ~At(j, "succeeded")
    /\ object[j].status = "dead" <=>
         j \in Range(deadLetter) \/ At(j, "burying")
    /\ done[j] <= lost[j] + 1

(***************************************************************************)
(* What a reader has seen to be over stays over: no goroutine of an        *)
(* earlier attempt and no pass of the delayed-job loop writes another      *)
(* status to a completed or dead job.  (With PostgreSQL a late UpdateJob   *)
(* of an earlier attempt does: there each attempt has a Job of its own.)   *)
(***************************************************************************)
FinalStatusStays ==
  [][\A j \in stored : object[j].status \in {"completed", "dead"} =>
       object'[j].status = object[j].status]_memoryVars

\* A job no goroutine works on has one history record for each execution,
\* under numbers without a gap, whatever order they were saved in.
MemoryHistoryComplete ==
  \A j \in stored : (\A g \in Goroutines : held[g] # j) =>
    /\ Len(history[j]) = starts[j]
    /\ {h.attempt : h \in Range(history[j])} =
         (submitted[j].attempts + 1) .. (submitted[j].attempts + starts[j])

\* The job is in the hands of a request or of a goroutine.
InHand(j) ==
  \/ j \in inflight
  \/ \E g \in Goroutines :
       /\ pc[g] \in {"dequeued", "executing", "erred", "failed", "retrying",
                    "burying"}
       /\ held[g] = j

\* The jobs that wait in a queue, for their time or for good.
AtRest == {j \in stored : ~Succeeded(j) /\ ~InHand(j)}

\* One entry for each job counted as active: as many as the sum of the counts.
ActiveEntries(stats) == UNION {{p} \X (1 .. stats.active[p]) : p \in QueueKeys}

(***************************************************************************)
(* The statistics account for every job: each one that is neither carried  *)
(* out nor in anybody's hands is counted, and counted once, at every       *)
(* moment, although ids go round through lists that nothing keeps apart.   *)
(***************************************************************************)
MemoryStatsExact ==
  Cardinality(ActiveEntries(GetQueueStats))
    + GetQueueStats.delayed + GetQueueStats.dead = Cardinality(AtRest)

-----------------------------------------------------------------------------
(* The life of a job *)

Running(j) ==
  \E g \in Goroutines :
    pc[g] \in {"executing", "erred", "failed", "retrying", "burying"}
    /\ held[g] = j

\* Where the job is in its life; the first condition that holds decides.
PhaseOf(j) ==
  IF object[j] = NoJob                 THEN "new"
  ELSE IF Succeeded(j)                 THEN "done"
  ELSE IF j \in Range(deadLetter)      THEN "dead"
  ELSE IF Running(j)                   THEN "running"
  ELSE "waiting"

\* The executions the job's retry policy allows, once it is in storage.
AllowedOf(j) == IF object[j] = NoJob THEN 0 ELSE Allowed(submitted[j])

\* The numbers of executions that what clients may ask for comes to.
BudgetsOf(j) == {Allowed(NewJob(j, req)) : req \in Requests}

Lifecycle == INSTANCE JobLifecycle WITH
  Budgets <- UNION {BudgetsOf(j) : j \in Jobs},
  phase   <- [j \in Jobs |-> PhaseOf(j)],
  runs    <- starts,
  allowed <- [j \in Jobs |-> AllowedOf(j)]

(***************************************************************************)
(* The in-memory adapters give a job the same life as Redis and PostgreSQL *)
(* do: ProcessDelayedJobs moves it in one step and a map has one entry per *)
(* job, so there is never a second copy to run.                            *)
(***************************************************************************)
MemoryImplementsLifecycle == Lifecycle!LifecycleSpec

(***************************************************************************)
(* Every saved job of a named priority is carried out or becomes a dead    *)
(* letter in the end.  (One of another priority is filed under its number, *)
(* where no Dequeue looks; the Redis queue treats it as medium.)           *)
(***************************************************************************)
MemoryJobsSettle ==
  \A j \in Jobs :
    j \in stored /\ object[j].priority \in Priorities ~> Settled(j)
==============================================================================
