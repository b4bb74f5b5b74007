------------------------------ MODULE JobService -----------------------------
(***************************************************************************)
(* The deployed system: scheduler processes (HTTP API plus the delayed-job *)
(* loop of cmd/schedular) and worker processes (cmd/worker) that share one *)
(* PostgreSQL database and one Redis server and talk to each other through *)
(* nothing else.                                                           *)
(*                                                                         *)
(* A step is the code between two calls to the shared stores: what a       *)
(* goroutine does to its own job in between nobody else can see.           *)
(***************************************************************************)
EXTENDS RedisQueue, PostgresStorage

CONSTANTS
  Schedulers,      \* scheduler processes
  Workers,         \* worker processes
  MaxConcurrent,   \* job goroutines of a worker process
  Requests,        \* the requests clients may send
  FaultKinds,      \* which of "call", "crash", "shutdown" may happen
  MaxFaults        \* bound on how often they happen, all kinds together

ASSUME ProcessesAssumption == Schedulers \cap Workers = {}
ASSUME MaxConcurrentAssumption == MaxConcurrent \in Nat
ASSUME RequestsAssumption == Requests \subseteq ScheduleJobRequest
ASSUME FaultsAssumption ==
  FaultKinds \subseteq {"call", "crash", "shutdown"} /\ MaxFaults \in Nat

VARIABLES
  ctx,        \* process -> state of the context its main function created
  response,   \* job id -> what the client that posted the job was told
  inflight,   \* scheduler -> jobs ScheduleJob has saved and not yet enqueued
  batch,      \* scheduler -> what is left of ProcessDelayedJobs' result set
  moving,     \* scheduler -> the message it has pushed and not yet removed
  pc,         \* goroutine -> where it stands in ProcessNextJob
  held,       \* goroutine -> the job ProcessJob works on
  attempt,    \* goroutine -> AttemptNumber of the history record it builds
  (* History variables: no action's guard reads "submitted", "effects" or *)
  (* "damage"; "starts" numbers the runs and "faults" bounds the model.   *)
  submitted,  \* job id -> the job as ScheduleJob built it
  starts,     \* job id -> number of MarkAsProcessing calls
  effects,    \* job id -> number of times its handler has succeeded
  damage,     \* job id -> what calls that failed and crashes did to the job
  faults      \* number of faults so far

schedulerVars == <<response, inflight, submitted>>
promoterVars  == <<batch, moving>>
workerVars    == <<pc, held, attempt>>
tallies       == <<starts, effects>>
vars == <<redisVars, storageVars, ctx, schedulerVars, promoterVars,
          workerVars, tallies, damage, faults>>

Processes == Schedulers \cup Workers

\* processJobs goroutines, named <workerID>-<number> in the code.
Slots == Workers \X (1 .. MaxConcurrent)

ProcessOf(slot) == slot[1]

Steps == {"idle", "dequeued", "executing", "succeeded", "failed", "requeued",
          "record"}

(***************************************************************************)
(* What a fault can do to a job: no copy of it may be left to be worked on *)
(* ("lost"), there may be one copy too many ("dup"), its row may keep an   *)
(* out-of-date status ("stale"), an execution may be missing from its      *)
(* history ("gap").                                                        *)
(***************************************************************************)
Damages == {"lost", "dup", "stale", "gap"}

TypeOK ==
  /\ RedisTypeOK
  /\ StorageTypeOK
  /\ ctx \in [Processes -> {"live", "cancelled"}]
  /\ response \in [Jobs -> {"none", "waiting", "created", "error"}]
  /\ inflight \in [Schedulers -> SUBSET Job]
  /\ batch \in [Schedulers -> SUBSET Job]
  /\ moving \in [Schedulers -> SUBSET Job]
  /\ pc \in [Slots -> Steps]
  /\ held \in [Slots -> Job \cup {NoJob}]
  /\ \A w \in Slots : pc[w] # "idle" => held[w] \in Job
  /\ attempt \in [Slots -> Int]
  /\ submitted \in [Jobs -> Job \cup {NoJob}]
  /\ starts \in [Jobs -> Nat]
  /\ effects \in [Jobs -> Nat]
  /\ damage \in [Jobs -> SUBSET Damages]
  /\ faults \in Nat

Init ==
  /\ RedisInit
  /\ StorageInit
  /\ ctx = [p \in Processes |-> "live"]
  /\ response = [j \in Jobs |-> "none"]
  /\ inflight = [s \in Schedulers |-> {}]
  /\ batch = [s \in Schedulers |-> {}]
  /\ moving = [s \in Schedulers |-> {}]
  /\ pc = [w \in Slots |-> "idle"]
  /\ held = [w \in Slots |-> NoJob]
  /\ attempt = [w \in Slots |-> 0]
  /\ submitted = [j \in Jobs |-> NoJob]
  /\ starts = [j \in Jobs |-> 0]
  /\ effects = [j \in Jobs |-> 0]
  /\ damage = [j \in Jobs |-> {}]
  /\ faults = 0

-----------------------------------------------------------------------------
(***************************************************************************)
(* Calls and faults.                                                       *)
(***************************************************************************)
Live(p) == ctx[p] = "live"

\* Something of this kind goes wrong now.
Fault(kind) ==
  /\ kind \in FaultKinds
  /\ faults < MaxFaults
  /\ faults' = faults + 1

\* What a call's outcome does to the job it is about.
Harm(out, ifFailed, ifUnacked) ==
  CASE out = "failed"   -> ifFailed
    [] out = "unacked"  -> ifUnacked
    [] out = "repeated" -> {"dup"}
    [] OTHER            -> {}

(***************************************************************************)
(* A call on behalf of job id whose context is live or not.  Both clients  *)
(* refuse to send a command under a cancelled context; a call that the     *)
(* cancellation cuts off is a fault of the call just before it.            *)
(***************************************************************************)
Call(live, id, out, ifFailed, ifUnacked) ==
  /\ \/ /\ live
        /\ out = "ok"
        /\ UNCHANGED faults
     \/ /\ live
        /\ out # "ok"
        /\ Fault("call")
     \/ /\ ~live
        /\ out = "failed"
        /\ UNCHANGED faults
  /\ damage' = [damage EXCEPT ![id] = @ \cup Harm(out, ifFailed, ifUnacked)]

-----------------------------------------------------------------------------
(***************************************************************************)
(* SchedulerService.ScheduleJob.  Its context is the HTTP request's, which *)
(* the process's shutdown does not cancel.                                 *)
(***************************************************************************)

\* Mutant: SaveJob's error is only logged.
ScheduleJobErrorIgnored(s, j, req) ==
  LET job == NewJob(j, req) IN
  /\ submitted[j] = NoJob
  /\ submitted' = [submitted EXCEPT ![j] = job]
  /\ \E out \in Outcomes :
       /\ Call(TRUE, j, out, {}, {})
       /\ SaveJob(job, out)
  /\ response' = [response EXCEPT ![j] = "waiting"]
  /\ inflight' = [inflight EXCEPT ![s] = @ \cup {job}]
  /\ UNCHANGED <<redisVars, ctx, promoterVars, workerVars, tallies>>

\* Build the job and save it: an error ends the request with status 500.
ScheduleJob(s, j, req) ==
  LET job == NewJob(j, req) IN
  /\ submitted[j] = NoJob
  /\ submitted' = [submitted EXCEPT ![j] = job]
  /\ \E out \in Outcomes :
       /\ Call(TRUE, j, out, {}, {"lost"})
       /\ SaveJob(job, out)
       /\ response' = [response EXCEPT
                         ![j] = IF out = "ok" THEN "waiting" ELSE "error"]
       /\ inflight' = IF out = "ok"
                      THEN [inflight EXCEPT ![s] = @ \cup {job}]
                      ELSE inflight
  /\ UNCHANGED <<redisVars, ctx, promoterVars, workerVars, tallies>>

\* enqueueJob, then the reply: 201, or 500 with the row left as it is.
EnqueueJob(s, job) ==
  /\ job \in inflight[s]
  /\ inflight' = [inflight EXCEPT ![s] = @ \ {job}]
  /\ \E out \in PushOutcomes :
       /\ Call(TRUE, job.id, out, {"lost"}, {})
       /\ \/ /\ job.status = "scheduled"
             /\ out # "repeated"
             /\ EnqueueDelayed(job, out)
          \/ /\ job.status # "scheduled"
             /\ Enqueue(job, out)
       /\ response' = [response EXCEPT
                         ![job.id] = IF Acknowledged(out) THEN "created"
                                                           ELSE "error"]
  /\ UNCHANGED <<storageVars, ctx, submitted, promoterVars, workerVars, tallies>>

-----------------------------------------------------------------------------
(***************************************************************************)
(* ProcessDelayedJobs, called by the ticker loop of cmd/schedular.         *)
(***************************************************************************)

\* ZRANGEBYSCORE.  An error ends the call with nothing done.
ReadRipe(s) ==
  /\ Live(s)
  /\ batch[s] = {} /\ moving[s] = {}
  /\ ripe # {}
  /\ batch' = [batch EXCEPT ![s] = ripe]
  /\ UNCHANGED <<redisVars, storageVars, ctx, schedulerVars, moving,
                 workerVars, tallies, damage, faults>>

\* Mutant: an error does not skip the message.
PushRipeErrorIgnored(s, job) ==
  /\ moving[s] = {}
  /\ job \in batch[s]
  /\ batch' = [batch EXCEPT ![s] = @ \ {job}]
  /\ \E out \in PushOutcomes :
       /\ Call(Live(s), job.id, out, {}, {"dup"})
       /\ Enqueue(job, out)
  /\ moving' = [moving EXCEPT ![s] = {job}]
  /\ UNCHANGED <<storageVars, ctx, schedulerVars, workerVars, tallies>>

\* LPUSH of one message of the result; an error skips the message.
PushRipe(s, job) ==
  /\ moving[s] = {}
  /\ job \in batch[s]
  /\ batch' = [batch EXCEPT ![s] = @ \ {job}]
  /\ \E out \in PushOutcomes :
       /\ Call(Live(s), job.id, out, {}, {"dup"})
       /\ Enqueue(job, out)
       /\ moving' = IF Acknowledged(out) THEN [moving EXCEPT ![s] = {job}]
                                    ELSE moving
  /\ UNCHANGED <<storageVars, ctx, schedulerVars, workerVars, tallies>>

\* ZREM of the message just pushed; the result is not looked at.
RemoveRipe(s, job) ==
  /\ job \in moving[s]
  /\ moving' = [moving EXCEPT ![s] = {}]
  /\ \E out \in Outcomes :
       /\ Call(Live(s), job.id, out, {"dup"}, {})
       /\ RemoveDelayed(job, out)
  /\ UNCHANGED <<storageVars, ctx, schedulerVars, batch, workerVars, tallies>>

-----------------------------------------------------------------------------
(***************************************************************************)
(* WorkerRunner.processJobs and ProcessorService, one goroutine per slot.  *)
(***************************************************************************)
Goto(w, step) == pc' = [pc EXCEPT ![w] = step]

Release(w) ==
  /\ Goto(w, "idle")
  /\ held' = [held EXCEPT ![w] = NoJob]
  /\ attempt' = [attempt EXCEPT ![w] = 0]

\* ProcessNextJob: Dequeue.  The message is gone from Redis from here on;
\* when the reply is lost it is gone altogether.  A BRPOP that fails or finds
\* nothing changes nothing: the goroutine sleeps and asks again.
ProcessNextJob(w) ==
  /\ pc[w] = "idle"
  /\ Live(ProcessOf(w))
  /\ \E i \in DOMAIN DequeueOrder :
       /\ Dequeue(i)
       /\ \/ /\ Call(TRUE, NextIn(i).id, "ok", {}, {})
             /\ Goto(w, "dequeued")
             /\ held' = [held EXCEPT ![w] = NextIn(i)]
          \/ /\ Call(TRUE, NextIn(i).id, "unacked", {}, {"lost"})
             /\ UNCHANGED <<pc, held>>
  /\ UNCHANGED <<storageVars, ctx, schedulerVars, promoterVars, attempt,
                 tallies>>

\* Mutant: the first attempt is number 0.
AttemptNumberFromZero(job) == job.attempts

\* AttemptNumber of the history record, taken before the run.
AttemptNumber(job) == job.attempts + 1

\* ProcessJob up to the handler: an error drops the job.
StartJob(w) ==
  LET run == starts[held[w].id] + 1
      job == MarkAsProcessing(held[w], run) IN
  /\ pc[w] = "dequeued"
  /\ starts' = [starts EXCEPT ![job.id] = run]
  /\ \E out \in Outcomes :
       /\ Call(Live(ProcessOf(w)), job.id, out, {"lost"}, {"lost"})
       /\ UpdateJob(job, out)
       /\ \/ /\ out = "ok"
             /\ Goto(w, "executing")
             /\ held' = [held EXCEPT ![w] = job]
             /\ attempt' = [attempt EXCEPT ![w] = AttemptNumber(job)]
          \/ /\ out # "ok"
             /\ Release(w)
  /\ UNCHANGED <<redisVars, ctx, schedulerVars, promoterVars, effects>>

\* executeJob: the handler returns nil.  Without a handler it cannot.
HandlerSucceeds(w) ==
  /\ pc[w] = "executing"
  /\ held[w].type \in HandlerTypes
  /\ effects' = [effects EXCEPT ![held[w].id] = @ + 1]
  /\ Goto(w, "succeeded")
  /\ UNCHANGED <<redisVars, storageVars, ctx, schedulerVars, promoterVars,
                 held, attempt, starts, damage, faults>>

\* executeJob: no handler for the type, or the handler returns an error.
\* handleJobFailure first marks the job as failed.
HandlerFails(w) ==
  /\ pc[w] = "executing"
  /\ held' = [held EXCEPT ![w] = MarkAsFailed(@)]
  /\ Goto(w, "failed")
  /\ UNCHANGED <<redisVars, storageVars, ctx, schedulerVars, promoterVars,
                 attempt, tallies, damage, faults>>

\* Write the job as the goroutine has it; an error is only logged.
SaveOutcome(w, job) ==
  /\ \E out \in Outcomes :
       /\ Call(Live(ProcessOf(w)), job.id, out, {"stale"}, {})
       /\ UpdateJob(job, out)
  /\ Goto(w, "record")
  /\ held' = [held EXCEPT ![w] = job]
  /\ UNCHANGED <<redisVars, ctx, schedulerVars, promoterVars, attempt, tallies>>

\* handleJobSuccess.
HandleJobSuccess(w) ==
  /\ pc[w] = "succeeded"
  /\ SaveOutcome(w, MarkAsCompleted(held[w]))

\* handleJobFailure with attempts left: the retry is queued first ...
RetryJob(w) ==
  LET job == MarkForRetry(held[w]) IN
  /\ pc[w] = "failed"
  /\ CanRetry(held[w])
  /\ \E out \in Outcomes :
       /\ Call(Live(ProcessOf(w)), job.id, out, {"lost"}, {})
       /\ EnqueueDelayed(job, out)
  /\ Goto(w, "requeued")
  /\ held' = [held EXCEPT ![w] = job]
  /\ UNCHANGED <<storageVars, ctx, schedulerVars, promoterVars, attempt, tallies>>

\* Mutant: the row is written before the push to the dead letter list.
BuryJobRowFirst(w) ==
  LET job == MarkAsDead(held[w]) IN
  /\ pc[w] = "failed"
  /\ ~CanRetry(held[w])
  /\ \E out \in Outcomes :
       /\ Call(Live(ProcessOf(w)), job.id, out, {"lost"}, {})
       /\ \/ /\ held[w].status # "dead"
             /\ UpdateJob(job, out)
             /\ UNCHANGED <<redisVars, pc>>
          \/ /\ held[w].status = "dead"
             /\ MoveToDeadLetter(job, out)
             /\ Goto(w, "requeued")
             /\ UNCHANGED storageVars
  /\ held' = [held EXCEPT ![w] = job]
  /\ UNCHANGED <<ctx, schedulerVars, promoterVars, attempt, tallies>>

\* Mutant: the retry is queued in both branches.
BuryJobAndRetry(w) ==
  LET job == MarkAsDead(held[w]) IN
  /\ pc[w] = "failed"
  /\ ~CanRetry(held[w])
  /\ deadLetter' = Append(deadLetter, job)
  /\ delayed' = delayed \cup {job}
  /\ Goto(w, "requeued")
  /\ held' = [held EXCEPT ![w] = job]
  /\ UNCHANGED <<queues, ripe, storageVars, ctx, schedulerVars, promoterVars,
                 attempt, tallies, damage, faults>>

\* handleJobFailure with none left: the job goes to the dead letter queue ...
BuryJob(w) ==
  LET job == MarkAsDead(held[w]) IN
  /\ pc[w] = "failed"
  /\ ~CanRetry(held[w])
  /\ \E out \in PushOutcomes :
       /\ Call(Live(ProcessOf(w)), job.id, out, {"lost"}, {})
       /\ MoveToDeadLetter(job, out)
  /\ Goto(w, "requeued")
  /\ held' = [held EXCEPT ![w] = job]
  /\ UNCHANGED <<storageVars, ctx, schedulerVars, promoterVars, attempt, tallies>>

\* ... and in both cases the row is written afterwards.
UpdateFailedJob(w) ==
  /\ pc[w] = "requeued"
  /\ SaveOutcome(w, held[w])

\* Mutant: handleJobFailure leaves the record's status as ProcessJob set it.
HistoryStatusLeft(job) ==
  IF job.status = "completed" THEN "completed" ELSE "processing"

\* The history record's status, which handleJobSuccess or handleJobFailure set.
HistoryStatus(job) ==
  IF job.status = "completed" THEN "completed" ELSE "failed"

\* ProcessJob's last call.
RecordHistory(w) ==
  LET job == held[w]
      entry == [run     |-> job.run,
                attempt |-> attempt[w],
                status  |-> HistoryStatus(job)] IN
  /\ pc[w] = "record"
  /\ \E out \in Outcomes :
       /\ Call(Live(ProcessOf(w)), job.id, out, {"gap"}, {})
       /\ SaveJobHistory(job.id, entry, out)
  /\ Release(w)
  /\ UNCHANGED <<redisVars, ctx, schedulerVars, promoterVars, tallies>>

-----------------------------------------------------------------------------
(***************************************************************************)
(* Shutdown and crash.  A process that has gone is taken to be started     *)
(* again at once: while it is down it does nothing, as a live one may.     *)
(***************************************************************************)

\* SIGTERM: both main functions cancel their context.
Shutdown(p) ==
  /\ Live(p)
  /\ Fault("shutdown")
  /\ ctx' = [ctx EXCEPT ![p] = "cancelled"]
  /\ UNCHANGED <<redisVars, storageVars, schedulerVars, promoterVars,
                 workerVars, tallies, damage>>

\* What the end of the process does to a job a goroutine is working on.
HarmAt(step) ==
  CASE step \in {"dequeued", "executing", "failed"} -> {"lost"}
    [] step \in {"succeeded", "requeued"}           -> {"stale", "gap"}
    [] step = "record"                              -> {"gap"}
    [] OTHER                                        -> {}

\* The goroutines of a worker process stop where they are.
EndWorker(p) ==
  LET mine == {w \in Slots : ProcessOf(w) = p} IN
  /\ damage' = [j \in Jobs |-> damage[j] \cup
                  UNION {HarmAt(pc[w]) : w \in {v \in mine : /\ pc[v] # "idle"
                                                             /\ held[v].id = j}}]
  /\ pc' = [w \in Slots |-> IF w \in mine THEN "idle" ELSE pc[w]]
  /\ held' = [w \in Slots |-> IF w \in mine THEN NoJob ELSE held[w]]
  /\ attempt' = [w \in Slots |-> IF w \in mine THEN 0 ELSE attempt[w]]
  /\ ctx' = [ctx EXCEPT ![p] = "live"]
  /\ UNCHANGED <<redisVars, storageVars, schedulerVars, promoterVars, tallies>>

\* cmd/worker's main returns right after cancel(): nobody waits for Start.
ExitWorker(p) ==
  /\ ~Live(p)
  /\ EndWorker(p)
  /\ UNCHANGED faults

CrashWorker(p) ==
  /\ Fault("crash")
  /\ EndWorker(p)

\* The goroutines of a scheduler process stop where they are.
EndScheduler(s) ==
  /\ damage' = [j \in Jobs |-> damage[j]
                  \cup (IF \E m \in inflight[s] : m.id = j THEN {"lost"} ELSE {})
                  \cup (IF \E m \in moving[s] : m.id = j THEN {"dup"} ELSE {})]
  /\ inflight' = [inflight EXCEPT ![s] = {}]
  /\ batch' = [batch EXCEPT ![s] = {}]
  /\ moving' = [moving EXCEPT ![s] = {}]
  /\ ctx' = [ctx EXCEPT ![s] = "live"]
  /\ UNCHANGED <<redisVars, storageVars, response, submitted, workerVars,
                 tallies>>

\* cmd/schedular's main waits for the delayed-job loop, and for requests in
\* progress no longer than ten seconds.
ExitScheduler(s) ==
  /\ ~Live(s)
  /\ batch[s] = {} /\ moving[s] = {}
  /\ EndScheduler(s)
  /\ UNCHANGED faults

CrashScheduler(s) ==
  /\ Fault("crash")
  /\ EndScheduler(s)

-----------------------------------------------------------------------------
\* The clock of the system moves on.
Ripen ==
  /\ \E job \in delayed : TimePasses(job)
  /\ UNCHANGED <<storageVars, ctx, schedulerVars, promoterVars, workerVars,
                 tallies, damage, faults>>

\* A score that the clock reaches without fail.
RipenInTime == Ripen /\ \A job \in ripe' \ ripe : Reachable(job)

Request == \E s \in Schedulers, j \in Jobs, req \in Requests : ScheduleJob(s, j, req)

Reply(s) == \E job \in inflight[s] : EnqueueJob(s, job)

ProcessDelayedJobs(s) ==
  \/ ReadRipe(s)
  \/ \E job \in batch[s] : PushRipe(s, job)
  \/ \E job \in moving[s] : RemoveRipe(s, job)

ProcessJobs(w) ==
  \/ ProcessNextJob(w)
  \/ StartJob(w)
  \/ HandlerSucceeds(w)
  \/ HandlerFails(w)
  \/ HandleJobSuccess(w)
  \/ RetryJob(w)
  \/ BuryJob(w)
  \/ UpdateFailedJob(w)
  \/ RecordHistory(w)

Next ==
  \/ Request
  \/ \E s \in Schedulers : \/ Reply(s)
                           \/ ProcessDelayedJobs(s)
                           \/ ExitScheduler(s)
                           \/ CrashScheduler(s)
  \/ \E w \in Slots : ProcessJobs(w)
  \/ \E p \in Workers : ExitWorker(p) \/ CrashWorker(p)
  \/ \E p \in Processes : Shutdown(p)
  \/ Ripen

Spec == Init /\ [][Next]_vars

(***************************************************************************)
(* Every loop of the program goes round again, every store answers, every  *)
(* handler returns and the clock runs, so that every score it can reach is *)
(* reached.  Nothing is assumed of clients, of faults, of the order in     *)
(* which goroutines run, of what handlers return or of retries that a      *)
(* policy puts before the range of ZRANGEBYSCORE.                          *)
(***************************************************************************)
Fairness ==
  /\ WF_vars(RipenInTime)
  /\ \A s \in Schedulers : /\ WF_vars(Reply(s))
                           /\ WF_vars(ProcessDelayedJobs(s))
                           /\ WF_vars(ExitScheduler(s))
  /\ \A w \in Slots : WF_vars(ProcessJobs(w))
  /\ \A p \in Workers : WF_vars(ExitWorker(p))

FairSpec == Spec /\ Fairness

-----------------------------------------------------------------------------
(***************************************************************************)
(* Where a job is.                                                         *)
(***************************************************************************)
Saved(j) == jobs[j] # NoJob

IsBuried(j) == \E m \in Buried : m.id = j

\* The job is done with: its handler has succeeded or it is a dead letter.
Settled(j) == effects[j] > 0 \/ IsBuried(j)

\* A goroutine at one of these steps has the only copy of its job.
Owning == {"dequeued", "executing", "failed"}

\* The requests that have the job in their hands.
RequestPlaces(j) ==
  {<<"request", s>> : s \in {s \in Schedulers : \E m \in inflight[s] : m.id = j}}

\* Its positions on the active lists.
ListPlaces(j, p) ==
  {<<"queue", p, i>> : i \in {i \in DOMAIN queues[p] : queues[p][i].id = j}}

QueuePlaces(j) == UNION {ListPlaces(j, p) : p \in Priorities}

\* A delayed message counts until some scheduler has pushed it on.
Unpushed(m) == \A s \in Schedulers : m \notin moving[s]

DelayedPlaces(j) ==
  {<<"delayed", m>> : m \in {m \in delayed : m.id = j /\ Unpushed(m)}}

\* The goroutines that are to run it or to pass it on.
SlotPlaces(j) ==
  {<<"slot", w>> : w \in {w \in Slots : pc[w] \in Owning /\ held[w].id = j}}

\* Where there is a copy of the job that somebody will work on.
Places(j) ==
  RequestPlaces(j) \cup QueuePlaces(j) \cup DelayedPlaces(j) \cup SlotPlaces(j)

\* The jobs in the hands of the scheduler processes, and of the goroutines.
SchedulerMessages ==
  UNION {inflight[s] \cup batch[s] \cup moving[s] : s \in Schedulers}

HeldMessages == {held[w] : w \in {w \in Slots : pc[w] # "idle"}}

\* All messages that are anywhere in the system.
Messages ==
  Queued \cup delayed \cup Buried \cup SchedulerMessages \cup HeldMessages

-----------------------------------------------------------------------------
(***************************************************************************)
(* Safety.                                                                 *)
(***************************************************************************)

(***************************************************************************)
(* ScheduleJob saves before it enqueues: whatever copy of a job is in a    *)
(* queue or in a goroutine's hands, and whatever history there is, the     *)
(* jobs table has the row that UpdateJob, GetJob and the foreign key of    *)
(* job_history rely on, however calls fail and processes die.              *)
(***************************************************************************)
PersistedFirst ==
  /\ \A m \in Messages : Saved(m.id)
  /\ \A j \in Jobs : history[j] # {} => Saved(j)

(***************************************************************************)
(* A saved job does not vanish: unless one of the calls or crashes that    *)
(* are known to lose it did, there is a copy somebody will work on, or the *)
(* job is done with.  In particular a failed LPUSH or ZREM of the delayed- *)
(* job loop loses nothing.                                                 *)
(***************************************************************************)
NoneForgotten ==
  \A j \in Jobs : Saved(j) /\ "lost" \notin damage[j]
                    => Places(j) # {} \/ Settled(j)

(***************************************************************************)
(* With one scheduler process there is never a second copy of a job to     *)
(* work on, nor any copy left of a job that is done with, although         *)
(* ProcessDelayedJobs pushes a message before it removes it; only a ZREM   *)
(* that did not happen or a push without an answer can break this.         *)
(***************************************************************************)
SingleCopy ==
  \A j \in Jobs : "dup" \notin damage[j] =>
    /\ \A a, b \in Places(j) : a = b
    /\ Settled(j) => Places(j) = {}

(***************************************************************************)
(* The handler of a job (an e-mail sent, a payment taken) succeeds at most *)
(* once, and a job whose handler has succeeded is no dead letter.          *)
(***************************************************************************)
HandledOnce ==
  \A j \in Jobs : "dup" \notin damage[j] =>
    effects[j] <= 1 /\ ~(effects[j] = 1 /\ IsBuried(j))

(***************************************************************************)
(* handleJobFailure and CanRetry keep to the policy the client sent: no    *)
(* job is run more often than allowed (with one scheduler process) ...     *)
(***************************************************************************)
AttemptBudget ==
  \A j \in Jobs : submitted[j] # NoJob /\ "dup" \notin damage[j]
                    => starts[j] <= Allowed(submitted[j])

(***************************************************************************)
(* ... and no job becomes a dead letter before it has been run that often, *)
(* whatever fails and however many copies of it there are.                 *)
(***************************************************************************)
NoEarlyBurial ==
  \A m \in Buried : starts[m.id] >= Allowed(submitted[m.id])

(***************************************************************************)
(* The retry ledger that NoEarlyBurial rests on.  CurrentAttempts travels  *)
(* inside the messages, so it is right only if no copy of a job, however   *)
(* many there are and wherever they went, ever counts more attempts than   *)
(* were started, and a run in progress is always one it has not yet        *)
(* counted.                                                                *)
(***************************************************************************)
AttemptsCounted ==
  /\ \A m \in Messages :
       /\ submitted[m.id] # NoJob
       /\ m.max = submitted[m.id].max
       /\ m.attempts - submitted[m.id].attempts <= starts[m.id]
  /\ \A w \in Slots :
       /\ pc[w] = "executing" =>
            held[w].attempts - submitted[held[w].id].attempts
              < starts[held[w].id]
       /\ pc[w] = "failed" => held[w].status = "failed"
       /\ pc[w] \in {"executing", "failed"} => starts[held[w].id] >= 1
  /\ \A m \in Buried : m.attempts >= m.max /\ starts[m.id] >= 1

(***************************************************************************)
(* What a terminal status in the jobs table says did happen: a "completed" *)
(* job's handler has succeeded, a "dead" job is a dead letter unless       *)
(* MoveToDeadLetter failed.                                                *)
(***************************************************************************)
TerminalRowsTrue ==
  \A j \in Jobs : Saved(j) =>
    /\ jobs[j].status = "completed" => effects[j] > 0
    /\ jobs[j].status = "dead" => IsBuried(j) \/ "lost" \in damage[j]

\* No goroutine is working on the job.
AtRest(j) == \A w \in Slots : pc[w] # "idle" => held[w].id # j

(***************************************************************************)
(* Each run of a job has a Job of its own to write back, and UPDATE writes *)
(* it over whatever is there.  Of a job that is done with and in nobody's  *)
(* hands the row is therefore not always terminal, but in one way only: it *)
(* is left "scheduled" by a run before the last, whose UpdateJob came      *)
(* late.  It is never left "pending", "processing" or "failed", nor by the *)
(* run that settled the job, unless a call or a process failed.            *)
(***************************************************************************)
SettledRowsExplained ==
  \A j \in Jobs : Settled(j) /\ AtRest(j) /\ damage[j] \subseteq {"gap"} =>
    \/ jobs[j].status \in {"completed", "dead"}
    \/ /\ jobs[j].status = "scheduled"
       /\ jobs[j].run >= 1 /\ jobs[j].run < starts[j]

(***************************************************************************)
(* The job_history of a job nobody is working on has exactly one row for   *)
(* each execution, numbered in a row from the first attempt, although      *)
(* AttemptNumber is taken before the run and the row is written last, when *)
(* the next attempt may already have been recorded.                        *)
(***************************************************************************)
HistoryComplete ==
  \A j \in Jobs : AtRest(j) /\ Saved(j) /\ damage[j] \subseteq {"stale"} =>
    /\ Cardinality(history[j]) = starts[j]
    /\ {h.attempt : h \in history[j]} =
         (submitted[j].attempts + 1) .. (submitted[j].attempts + starts[j])

(***************************************************************************)
(* Every scheduler process that read a delayed message before it was       *)
(* removed pushes it, and no process pushes it twice: of one message no    *)
(* more copies wait to be run than there are scheduler processes.          *)
(***************************************************************************)
CopiesBounded ==
  \A m \in Queued : "dup" \notin damage[m.id] =>
    Cardinality({i \in DOMAIN queues[QueueName(m.priority)] :
                   queues[QueueName(m.priority)][i] = m})
      <= Cardinality(Schedulers)

(***************************************************************************)
(* Done is done: once a job's handler has succeeded or the job is a dead   *)
(* letter, no ProcessJob starts on it again (with one scheduler process),  *)
(* whatever its row says.                                                  *)
(***************************************************************************)
NoRunAfterSettled ==
  [][\A j \in Jobs : Settled(j) /\ "dup" \notin damage[j]
                       => starts'[j] = starts[j]]_vars

-----------------------------------------------------------------------------
(***************************************************************************)
(* Claims of the repository that the code does not keep.                   *)
(***************************************************************************)

\* A job the client was told about (201 Created) is worked on or done with.
CreatedJobsSurvive ==
  \A j \in Jobs : response[j] = "created" => Places(j) # {} \/ Settled(j)

\* A job that is done with, and on which nobody works any more, has a row
\* that says so, if no call about it ever failed.
FinalStatusTracked ==
  \A j \in Jobs : Settled(j) /\ AtRest(j) /\ damage[j] = {}
                    => jobs[j].status \in {"completed", "dead"}

-----------------------------------------------------------------------------
(***************************************************************************)
(* Liveness: every job in the table is done with in the end, unless a      *)
(* fault lost it or its client's policy may give a retry a negative score, *)
(* which ProcessDelayedJobs never finds.                                   *)
(***************************************************************************)
EveryJobSettles ==
  \A j \in Jobs : Saved(j) /\ submitted[j].steady
                    ~> Settled(j) \/ "lost" \in damage[j]
==============================================================================
