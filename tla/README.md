# A TLA+ model of the job scheduler service

The service accepts jobs over HTTP, keeps them in PostgreSQL, hands them to
worker processes through Redis, retries failed ones with a delay and moves those
that have used up their attempts to a dead letter queue.  This directory models
the deployed system (what `cmd/schedular` and `cmd/worker` wire together: the
Redis queue and the PostgreSQL storage) and the same services on the in-memory
adapters, states what both promise about a job as a specification of its own,
checks all of it with TLC on small instances and proves the results that do not
depend on the instance with TLAPS.

## 1. Inventory

| Part | Source | State | Operations |
|---|---|---|---|
| Job entity | `internal/core/domain` | status, priority, retry counters | `CanRetry`, `MarkAs…`, `NextRetryAt`, `QueueName` |
| SchedulerService | `internal/core/services/schedular.go` | none of its own | `ScheduleJob` (save, then enqueue), reads |
| ProcessorService | `internal/core/services/processor.go` | the job in a goroutine's hands | `ProcessNextJob`, `ProcessJob`, `handleJobSuccess`, `handleJobFailure` |
| Redis queue | `adapters/secondary/queue/redis.go` | four lists, sorted set `delayed_jobs`, `dead_letter_queue` | `Enqueue`, `Dequeue`, `EnqueueDelayed`, `MoveToDeadLetter`, `ProcessDelayedJobs`, `GetQueueStats` |
| PostgreSQL storage | `adapters/secondary/storage/postgres.go` | tables `jobs`, `job_history`, `workers` | upserts and reads |
| Scheduler process | `cmd/schedular/main.go` | context, HTTP server, ticker loop | 30 s tick, shutdown |
| Worker process | `cmd/worker/main.go`, `adapters/primary/worker/runner.go` | context, five job goroutines, heartbeat | poll loop, shutdown |
| REST API | `adapters/primary/rest_api/handler.go` | none | `ScheduleJob`, `GetJob`, `ListJobs`, `GetQueueStats` |
| Worker registry | `RegisterWorker` … in both storages | table `workers` | register, heartbeat, deactivate |
| In-memory queue and storage | `queue/memory.go`, `storage/memory.go` | maps under a mutex, holding pointers to jobs | same ports |
| Job handlers | `pkg/handlers` | none; their services act outside | `Handle` (parse, validate, call the service) |
| Configuration | `internal/config` | environment | `LoadConfig`, of which the retry settings are read |
| Logger, metrics | mock adapters | none that is read back | |

Scheduler and worker processes share nothing but Redis and PostgreSQL.  The
scheduler writes a row and pushes a message; a worker goroutine pops a message,
writes the row, runs the handler, pushes a retry or a dead letter, writes the row
again and adds a history record.  Nothing ever reads a row to find out what to
do: the JSON text in Redis, with the attempt counter inside it, is the job.

What is hard here, and what the properties are aimed at:

* two stores and no transaction across them: every failure between a save and a
  push leaves them disagreeing (`NoneForgotten`, `PersistedFirst`,
  `TerminalRowsTrue`);
* a pop that destroys the only copy (`NoneForgotten`, `CreatedJobsSurvive`);
* a promotion of three commands, raced by a second scheduler process or cut off
  by a fault (`SingleCopy`, `HandledOnce`, `CopiesBounded`, `NoRunAfterSettled`);
* an attempt counter that travels in copies (`AttemptBudget`, `NoEarlyBurial`,
  `AttemptsCounted`, `HistoryComplete`);
* unconditional writes of one row by goroutines of two attempts
  (`FinalStatusTracked`, `SettledRowsExplained`);
* progress through all of it (`EveryJobSettles`);
* heartbeats against a timeout, with calls that take time and several processes
  under one identifier (`LiveIsActive`, `HeartbeatFresh`);
* backoff in 64-bit integers, converted from floating point, cut to seconds and
  compared with a range that begins at 0 (`BackoffExact`, `PromotedInTime`,
  `DueRetryPromoted`, `EveryRetryPromoted`);
* jobs shared by pointer between both in-memory adapters and every attempt, and
  written without a lock (`SharedStatusTrue`, `FinalStatusStays`,
  `MemoryHistoryComplete`);
* answers put together from several reads while jobs move (`ActiveCountedOnce`,
  `WalkComplete`, `WalkRepeatsNothing`);
* effects outside the system that a retry repeats (`SharedStatusTrue`).

`PROJECT.json` lists each hazard at its line.

## 2. Modules

| Module | Models |
|---|---|
| `JobDomain` | the job record, requests, defaults, status changes, the retry budget, how a call may end |
| `RedisQueue` | one operator per Redis command |
| `PostgresStorage` | the tables `jobs` and `job_history` |
| `JobService` | the processes and goroutines that use both stores: actions, specification, properties |
| `MCJobService` | values of the constants for TLC |
| `JobServiceProofs` | theorems about `JobService` for any number of schedulers |
| `SoleSchedulerProofs` | theorems about `JobService` with one scheduler process |
| `CountingProofs` | theorems about `JobService` and `QueueStats` that count: history records, copies, lengths |
| `WorkerRegistry` | the table `workers`: registration, heartbeats, deactivation of stale rows |
| `MCWorkerRegistry` | values of its constants |
| `WorkerRegistryProofs` | theorems about `WorkerRegistry` |
| `JobLifecycle` | abstract: what the service promises about a job |
| `JobServiceRefinement` | `JobService` as an implementation of `JobLifecycle` |
| `LifecycleProofs` | the proof that it is one |
| `JobHandlers` | how the run of a job may end, by its type and payload |
| `MemoryService` | the services on the in-memory adapters, with these handlers; they implement `JobLifecycle` too |
| `MemoryProofs` | theorems about `MemoryService`, that refinement included |
| `RetryBackoff` | `NextRetryAt`, the retry settings, scores and their comparison, in machine integers |
| `RetryBackoffProofs` | theorems about `RetryBackoff` |
| `QueueStats` | `GetQueueStats` beside `JobService` |
| `JobListing` | `GET /jobs`, page by page, on both storages |
| `ListingProofs` | theorems about `JobListing` |
| `MCMemoryService`, `MCRetryBackoff`, `MCQueueStats`, `MCJobListing` | values of their constants |

`JobDomain` is used by every module that has whole jobs; `QueueStats` and
`JobServiceRefinement` extend `JobService`; `MemoryService` extends `JobHandlers`
and, like `JobServiceRefinement`, instantiates `JobLifecycle`.  `RetryBackoff` and
`JobListing` each open up what `JobService` leaves to chance (when a delayed
message is ripe, what a reader sees) for one job or one client, so that their
detail does not multiply its states.

**Grain.**  A step of `JobService` is the code between two calls to a store.
`ScheduleJob` is two steps (`ScheduleJob`, `EnqueueJob`), `ProcessDelayedJobs`
three (`ReadRipe`, then `PushRipe` and `RemoveRipe` per message), and a run of a
job six: `ProcessNextJob` (BRPOP), `StartJob` (row "processing"),
`HandlerSucceeds` or `HandlerFails`, then `HandleJobSuccess`, or `RetryJob` or
`BuryJob` followed by `UpdateFailedJob`, and `RecordHistory`.  The variable `pc`
says where a goroutine stands and `held` is its copy of the job.

**Faults.**  A call may fail, be carried out without the caller learning of it,
or, for a push through go-redis, which resends a command whose reply does not
arrive, be carried out twice.  (A ZADD sent again changes nothing unless the
scheduler has promoted and removed its message in between; that second copy, the
same damage as a repeated push, is left out.)  `Call` gives every call these outcomes, at most
`MaxFaults` times together with crashes and shutdowns.  `Shutdown` is SIGTERM:
under the cancelled context every later call fails without a further fault (a
call that the cancellation cuts off is a call fault followed by the shutdown).
`ExitWorker` may follow at any time because `cmd/worker`'s `main` waits for
nobody; `ExitScheduler` waits for the delayed-job loop, and not (longer than ten
seconds) for requests.  An ended process is taken to start again at once.

**Damage.**  The history variable `damage` records, for each job, what the
faults that hit it are known to do: `lost` (no copy left), `dup` (one too many),
`stale` (a row not written), `gap` (a history record not written).  Properties
exempt a job only from the kind of damage they are about, so they say that
*nothing else* goes wrong: for instance that a failed LPUSH of the promotion loop
loses nothing, and that a failed ZREM is the only way one scheduler duplicates.
A run without faults checks them without exemption.

**Abstractions.**  Payload, metadata, error texts and time stamps are left out.
`run` stands for the nanosecond time stamp that makes the JSON of two runs of one
job differ, which matters because a sorted set holds equal texts once.  The
scores of `delayed_jobs` appear as the set `ripe` of messages that are due; a
message may become due at any time after it was added, which includes delays of
0 that a client may ask for, or never: a policy is `steady` when none of its
delays is negative or overflows, and only a `Reachable` message, a first schedule
or the retry of a steady policy, is sure to have a score that the clock reaches.  Attempt counters are unbounded integers: results
about them are for counters that stay within 63 bits.  A handler may return
success or an error at any time; a type without a handler can only fail.

**Registry.**  `WorkerRegistry` stands apart from `JobService`: nothing that
handles jobs reads the table `workers`.  Time is discrete, and taking a time
stamp, writing it and going on are steps of their own.  `Start` takes the stamp
and calls `RegisterWorker`, `Registers` is the write, `StartTicker` the ticker
that `sendHeartbeat` creates once the call has returned.  `TickerFires` makes the
call with the time of that moment; `SendHeartbeat` writes it, `HeartbeatFails`
does not.  A call may take up to `Latency`, less than a period, and a process
that ends (`Stop`, `StartFails`) may leave one on its way.  `Tick` is the clock;
tickers are punctual.  `Timeout` is the argument of `DeactivateStaleWorkers`,
whose cutoff is computed up to `Latency` before its statement runs.  Nothing in the
repository calls it: the specification lets it happen at any time and promises
nothing about whether it does.

**Life of a job.**  `JobLifecycle` has three variables: the phase of each job
(new, waiting, running, done, dead, faulted), the executions begun and the
executions its policy allows.  A job is executed by one worker at a time, never
after it is done or dead, never beyond its policy, and is dead only when the
policy is used up.  The refinement mapping of `JobServiceRefinement` reads the
phase off the history variables and the goroutines' positions, not off the rows,
which may lag behind.  `Break` lets a fault end the promise for the jobs it hits:
the mapping says "faulted" only where `damage` has `lost` or `dup`, so the
refinement also says that no other job is touched.  `MemoryService` has no faults
and no such jobs.  Both refinements are of safety; progress is checked as
`EveryJobSettles` and `MemoryJobsSettle`.

**In-memory adapters.**  Both keep pointers, so one `object[j]` stands for the
job in the storage's map, in the queue's `jobStorage` and in a goroutine's hands,
and queues hold identifiers.  Each method runs under its mutex and is one step;
for `ProcessDelayedJobs` this merges its write of the status, which only jobs in
`delayed_jobs` get, with the push and the removal under the same lock.  Every
change of status that `ProcessJob` makes through the pointer, outside any lock, is
a step of its own: `HandleJobSuccess`, `HandleJobFailure`, `MarkRetry` and
`MarkDead` come before the calls they announce, and after the service has acted
(`HandlerSucceeds`).  A reader that gets the pointer from `GetJob` reads without
the lock: `SharedStatusTrue` is about what it may find between any two steps, not
about a torn read of a field.

**Backoff.**  A job is abstracted to its policy, the times of its last attempt
and next retry and its score.  `Width` and `Second` are constants; `Wrap` is two's
complement; a power of two that does not fit is the least integer on amd64 and
the greatest on arm64, and both are tried.  `NextRetryAt` without a
`LastAttemptAt` cannot occur: `MarkAsFailed` has just set it.

**Reading.**  `QueueStats` adds one call of `GetQueueStats`, a step per command,
to `JobService`.  `JobListing` has rows with status and `created_at`, in either
storage, that come in and change while a client asks for page after page, with an
offset of what it has read; its `steady` and `moves` remember what happened to
the rows meanwhile.  A row's status may change as it does in either wiring: in
PostgreSQL a late `UpdateJob` may put any outcome over any other
(`PostgresSuccessors`); in memory a reader sees every status the pointer shows,
"failed" between two others included (`MemorySuccessors`).

**Handlers.**  `JobHandlers` says which results `executeJob` may have for a type
and the fields of a payload; `MemoryService` carries the payload along.  The
service behind a handler is external: it may fail, or do its work and return an
error all the same (at most `MaxLost` times for a job).  `JobService` leaves
payloads out and lets a handler succeed or fail as it likes.

## 3. Runs

All passing runs end with no states left to explore.  Deadlock is not checked
for `JobService` and the other modules with finitely many jobs: when all are done
and no fault is left, the service is idle, and a client's walk, like the clock of
`RetryBackoff`, ends.  It is checked for `WorkerRegistry`.

| Run | Instance | Distinct states | Shows |
|---|---|---|---|
| `service_faults` | 2 jobs, 1 scheduler, 2 workers, 1 fault | 761 205 (symmetric) | ten properties with one scheduler, and that `JobService` implements `JobLifecycle` |
| `retry_policies` | 1 job, every policy, 2 goroutines, 2 faults | 611 171 | budget, ledger, row and history at the boundaries of the policy, faults that meet, `EveryJobSettles` |
| `two_schedulers` | 1 delayed job, 2 schedulers, 1 fault | 1 020 100 (symmetric) | what survives a double promotion |
| `worker_crash` | 1 job, crash | violation | README line 39 against BRPOP |
| `double_promotion` | 1 job, 2 schedulers, no fault | violation | `ports/queue.go` line 26 and README line 59 against `ProcessDelayedJobs` |
| `stale_status` | 1 job, 2 goroutines, no fault | violation | README line 41 against `handleJobFailure` |
| `worker_registry` | 3 processes, 2 identifiers, `Timeout` exactly (`MaxMissed` + 1) periods and three latencies | 897 100 | running workers stay listed |
| `memory_service` | 2 jobs, 2 goroutines, 7 orders, 1 hidden success | 117 984 | shared status, history, statistics, life of a job and progress on the in-memory adapters |
| `backoff` | 8-bit words, 4 ticks to the second, 55 policies and configurations | 113 304 | `NextRetryAt` against its meaning, promotion in time |
| `backoff_overflow` | 8-bit words, one patient exponential policy | violation | README line 50 against the overflow in `NextRetryAt` |
| `queue_stats` | 2 jobs, 2 goroutines, 1 call at a time | 634 070 (symmetric) | no job counted as active twice |
| `job_listing` | 3 jobs, 3 filters, 3 limits, both storages | 1 456 077 (symmetric) | walks through the pages miss and repeat nothing |

**Why the bounds are enough to be interesting.**  `DefaultMaxRetries = 2` gives
first attempt, retry and dead letter.  Two jobs are needed for goroutines that
hold different jobs; two goroutines for the writes of two attempts to overlap.
One fault reaches every single point of failure of every call; two reach, for
instance, a shutdown after a lost reply.  The requests cover no policy, a policy
with one attempt left by the client's count, one with none, a type without a
handler, a priority no constant names, a policy whose delays may put a retry out of reach,
and delayed and immediate jobs.  Words of
8 bits reach overflow of the power, of the product and of the counter within a
few attempts, at both ends of the range, and four ticks to the second tell every
rounding apart.  A latency of half a period lets a registration, a heartbeat and
a late call of another process overlap at the smallest timeout the proof allows.
Three jobs and pages of one or two are the least with which a
row can be pushed across the boundary between a page read and one still to come.
Symmetry is used over jobs, workers or schedulers, which are only compared for
equality, and never with liveness.

**Fairness.**  `FairSpec` assumes weak fairness of each job goroutine, of each
scheduler's promotion loop and replies, of the exit of a process that was told to
shut down, and of the clock, for those delayed messages whose score it is sure to
reach (`RipenInTime`); `EveryJobSettles` is accordingly about jobs whose policy is
steady, and `backoff_overflow` shows what becomes of others.  The code justifies
each: both loops go round
forever, BRPOP and the stores answer or time out, handlers run under a 30-minute
context, and `main` goes on after the signal.  Nothing is assumed of clients,
faults, the results of handlers or which goroutine gets a message.
`RegistrySpec` has no fairness: without a caller of `DeactivateStaleWorkers` there
is nothing the registry must eventually do.  `MemoryFairSpec` has the loops, the
replies and the clock of `FairSpec`; `RetryFairSpec` the ticker of
`cmd/schedular` and the clock, and nothing about failures or workers.

## 4. What the checks show

With one scheduler process the design is sound up to its faults: a job has one
copy, runs within its policy, is never given up early, ends with a complete
history, and progress is guaranteed; in one sentence, it implements
`JobLifecycle`.  So do the in-memory adapters, where promotion is one step.
Four runs show statements of the documentation that do not hold:

* a worker that crashes loses the jobs it holds (`worker_crash`);
* with two scheduler processes a delayed job, and so every retry, may be carried
  out twice (`double_promotion`);
* a completed job may show the status of an earlier attempt for good, when its
  retry was faster than the write of the failed attempt's row (`stale_status`).
  With the default base delay of 30 s this takes a write that stalls that long;
  with `base_delay` 0 it takes an ordinary race;
* an exponential backoff with many attempts overflows, and a retry that lands
  before 1970 is never promoted (`backoff_overflow`): with the default base delay
  of 30 s and a policy of 30 attempts this is the 29th failure, at minus 74 years;
  other overflows only make a retry come at once.

Other limits of the code appear as conditions of properties that hold, and each
property fails without its condition:

* `CreatedJobsSurvive` fails under `FaultKinds = {"shutdown"}` as it does under a
  crash: an ordinary SIGTERM loses the jobs a worker holds, README line 47
  ("graceful shutdown") notwithstanding;
* nothing calls `DeactivateStaleWorkers`, so as deployed a worker that has ended
  stays listed for good (README line 53, "heartbeat monitoring"); the registry is
  therefore checked for what it does to running workers only;
* `EveryJobSettles` is about steady policies: a negative `base_delay`, or one that
  overflows, can give a retry a negative score, which ZRANGEBYSCORE from 0 never
  returns;
* `MemoryJobsSettle` is about named priorities: the in-memory queue files a job of
  priority 9 under 9 and never takes it, where Redis treats it as medium
  (README line 70, "seamlessly switch");
* `WalkComplete` and `WalkRepeatsNothing` need PostgreSQL or no limit: the in-memory
  storage walks a Go map anew for every page.  They also need distinct
  `created_at` (there is no second sort key), and completeness needs that no job
  leaves the filter during the walk (paging is by offset);
* `ActiveCountedOnce` is about the four lists only: a job that is taken, fails and
  is delayed while `GetQueueStats` runs is counted as active and as delayed, and
  one on its way the other way not at all.

README line 28 posts `job_type`, a key `ScheduleJobRequest` does not know: `Bind`
gives such a request the type "", which is accepted, has no handler and ends as a
dead letter.

The registry operations themselves are sound: called with a timeout of at least
`MaxMissed` + 1 periods and three latencies, `DeactivateStaleWorkers` drops no
worker that misses at most `MaxMissed` heartbeats in a row.  One latency is that
of the worker's own call, one that of another process's, which may put an older
time over a newer one, and one that of the statement, whose cutoff is computed
before it runs; with a shorter timeout a worker that missed nothing more may be
dropped.  Beyond that, a running worker is dropped until it restarts, because a
heartbeat does not make it active again.

Rows of settled jobs lag behind in one way only: `SettledRowsExplained` says that a
row that is not terminal was left "scheduled" by a run before the last.

## 5. Proofs

Every safety property a passing run checks, action property and refinement
included, is also a theorem, for every value of the constants the named
assumptions (and the hypotheses below) allow.

| Theorem | Statement |
|---|---|
| **`JobServiceProofs`** | |
| `TypeCorrect` | `Spec => []TypeOK` |
| `EveryMessageSaved` | `Spec => []PersistedFirst` |
| `LedgerCorrect` | `Spec => []AttemptsCounted` |
| `NoJobGivenUpEarly` | `Spec => []NoEarlyBurial` |
| `TerminalStatusTrue` | `Spec => []TerminalRowsTrue` |
| `NoJobForgotten` | `Spec => []NoneForgotten` |
| **`SoleSchedulerProofs`** | with `OneScheduler` |
| `JobsHaveOneCopy` | `Spec => []SingleCopy` |
| `JobsHandledOnce` | `Spec => []HandledOnce` |
| `DoneIsDone` | `Spec => NoRunAfterSettled` |
| `BudgetKept` | `Spec => []AttemptBudget` |
| **`CountingProofs`** | |
| `LateWritesExplainRows` | `Spec => []SettledRowsExplained`, with `OneScheduler` |
| `HistoryIsComplete` | `Spec => []HistoryComplete`, with `OneScheduler` |
| `MessageCopiesBounded` | `Spec => []CopiesBounded`, with finitely many schedulers |
| `StatsCountOnce` | `StatsSpec => []ActiveCountedOnce`, with `OneScheduler` |
| **`LifecycleProofs`** | with `OneScheduler` |
| `KeepsThePromise` | `Spec => ImplementsLifecycle` |
| **`MemoryProofs`** | |
| `MemoryTypeCorrect` | `MemorySpec => []MemoryTypeOK` |
| `SharedStatusHolds` | `MemorySpec => []SharedStatusTrue` |
| `MemoryFinalStatusStays` | `MemorySpec => FinalStatusStays` |
| `MemoryHistoryIsComplete` | `MemorySpec => []MemoryHistoryComplete` |
| `MemoryStatsAreExact` | `MemorySpec => []MemoryStatsExact` |
| `MemoryKeepsThePromise` | `MemorySpec => MemoryImplementsLifecycle` |
| **`ListingProofs`** | |
| `ListingTypeCorrect` | `ListingSpec => []ListingTypeOK` |
| `NoneMissed` | `ListingSpec => []WalkComplete` |
| `NoneRepeated` | `ListingSpec => []WalkRepeatsNothing` |
| **`WorkerRegistryProofs`** | |
| `RegistryTypeCorrect` | `RegistrySpec => []RegistryTypeOK` |
| `HeartbeatsFresh` | `RegistrySpec => []HeartbeatFresh` |
| `RunningWorkersListed` | `RegistrySpec => []LiveIsActive` |
| **`RetryBackoffProofs`** | |
| `BackoffTypeCorrect` | `RetrySpec => []RetryTypeOK` |
| `BackoffIsExact` | `RetrySpec => []BackoffExact` |
| `NeverPromotedEarly` | `RetrySpec => []PromotedInTime` |

**Hypotheses.**  Theorems about `JobService` hold for any sets of jobs,
schedulers, workers and requests, any number of goroutines and any faults.
`OneScheduler` (`\A s, t \in Schedulers : s = t`) is the deployment the code is
sound for: `double_promotion` is the counterexample without it, and the runs
`service_faults`, `retry_policies` and `queue_stats` check the same properties on
instances that have one scheduler.  `MessageCopiesBounded` compares with a number
of schedulers and so needs that there is one.

**`JobService`, any schedulers.**  The argument rests on frame lemmas, each a case
split over all actions.  `MessageOrigin`: a message in the next state was there
before, or is a new job whose row has just been saved, or is what a goroutine has
just made of the job it holds.  `Kept`: rows, submissions, run counts, dead letters
and damage are never taken back.  `SlotOrigin`: a goroutine changes by its own
step or is stopped.  `RowOrigin`: which steps write which status.  The `…Flow`
lemmas say where what is in one store, loop or goroutine came from.

`NoEarlyBurial` is not inductive: it speaks of dead letters, and that a dead
letter has been run often enough depends on the counter it carried through the
queues.  `AttemptsCounted` is the strengthening: every message's counter is at
most the number of runs started since submission, a run in progress is not yet
counted, the maximum is never changed, and a dead letter has used it up.  The
counter of one copy says nothing about others, which is why the result holds
with duplicates.  `TerminalRowsTrue` needs the lemma `WrittenLast`: a goroutine
about to write a terminal status has already done what it says.

`NoneForgotten` needs two facts about messages that are not its own
(`RunsInOrder`): a request's job has been neither enqueued nor answered yet
(`RequestsApart`), and the run number in a message tells two texts of one job
apart (`RunsNumbered`).  Without the second, the ZREM that ends a promotion could
remove a later retry whose JSON happens to be the same; this is where the time
stamp in the message matters.

**One scheduler.**  `SingleCopy` counts places, and a message that has been pushed
and not yet removed is in two.  `PromotionInOrder` says that what the loop has
read and not yet pushed is still in `delayed_jobs`, which only its own ZREM
shrinks; `CopiesSingle` says of every job without a doubling fault that the lists,
the unpushed part of `delayed_jobs` and the goroutines have one copy together, and
none once the job is settled.  Both are inductive together (`CopiesInOrder`), and
`SingleCopy`, `HandledOnce` and `NoRunAfterSettled` follow.  For `AttemptBudget`
the ledger must be exact and not only a bound: `CountsExact` says that the one
message still to be run carries the number of runs started (`CountsInOrder`).

`HistoryComplete` speaks of jobs at rest; `HistoryExact` adds that a run not yet in
the history is one a goroutine is in, with the number of its attempt in hand.  The
equation of numbers is then a bijection between records and runs.
`SettledRowsExplained` speaks of jobs at rest too; `RowsExact` says for every job
that the row names a run that has begun, that a row "processing" has a goroutine
which will still write it, and that a row "scheduled" is from a run that is over
and, if it was the last, has not settled the job (`RowOf`, `WorkOf`).  `CopiesBounded`
is a sum that never grows: positions of a message on its list plus schedulers that
may still push it (`PushesBounded`).  For `ActiveCountedOnce`, `ListsSorted` says
that a message keeps its job's priority and therefore its list through every
retry, and `StatsBounded` that each length read stays at most the number of jobs
of that priority, which only grows: the four sets are disjoint.

`KeepsThePromise` maps steps job by job: every step of `JobService` stutters or
moves one job by one action of `JobLifecycle` (`MoveStep`), and a fault or a crash
is a `Break` of the jobs it damages (`BreakStep`).  It uses the copies, counts and
numbers above: that a goroutine starting a job finds it waiting, that it is within
budget, that a burial comes when the budget is used up.

**In-memory adapters.**  `PlacesKnown` is the invariant everything rests on: the
status in the shared job, together with the step of the goroutine that holds it,
says who has it, and at most one has it.  As the status alone lags behind what a
goroutine has done, the argument goes by the `Stage` of a job, its status with the
steps between two writes told apart.  Every step then advances the stage of one job
or none (`LifeStep`), and the shared status (`StagesTrue`), the numbers of runs and
the refinement are case splits over the ways to advance.  `FinalStatusStays` is
directly that no step that writes a status has a completed or dead job in hand.
`MemoryStatsExact` also needs the converse, that whoever the status names does
have the job (`AllHavePlaces`), and that nothing is buried twice (`DeadOnce`): then
list positions, delayed jobs and dead letters are in bijection with the jobs at
rest.

**Listing.**  `WalkComplete` is about a walk that has ended.  The invariant of
`NoneMissed` follows it: every row that was there from the beginning has been read,
or at least as many rows come before it, newest first, as have been read
(`NothingSkipped`).  New rows only add to those before it, and a page begins where
that many have been skipped.  For `NoneRepeated`, while nothing moves, what has
been read is the beginning of the list (`ReadInOrder`).

**Registry.**  From `Period * (MaxMissed + 1) + 3 * Latency <= Timeout` and the types
of the constants.  That a row is active says nothing of when it goes stale;
`HeartbeatFresh` adds that its age is at most `Period * missed + timer` and the
`Slack` of the latencies, which depends on where the process is in its call.  A
failed heartbeat leaves the bound as it is (a period of the ticker becomes a missed
one), a late write of another process is no older than its latency
(`WritesAreFresh`), and lemma `NotYetStale` shows the bound to be within the
timeout.

**Backoff.**  For any width of the machine's integers, any length of a second, any
clock, any policies and any configuration.  `PromotedInTime` is not inductive,
because the code compares scores and not times: the strengthening `ScoreTrue` adds
that a delayed message's score is the second of its retry time.  Lemmas about
`Wrap` (it stays within the word, and is the identity there) carry the rest.
`PowersAssumption` states the two facts about powers of two that the provers do
not know; TLC evaluates it in every run of `MCRetryBackoff`.

**What proving changed.**  The refinement mappings once chose a job's phase by a
`CASE` whose guards overlapped.  TLC takes the first that holds; TLA+ leaves the
choice open, so the theorem could not be proved of it.  The mappings are
`IF`/`ELSE` chains now, and the guards of the other `CASE`s exclude each other.

**Only model-checked**: `EveryJobSettles`, `MemoryJobsSettle` and `DueRetryPromoted`, because liveness under fairness is out of the prover's
reach.  The four runs that expect a violation are counterexamples and have nothing
to prove.

## 6. Not modelled, and the plan

Not modelled:

* logger and metrics, which nothing reads back, and the ports, which declare
  interfaces;
* configuration other than the retry settings: nothing reads it (the main
  functions have their addresses, pool size and intervals as literals);
* `GetJob` and `GetJobHistory`, single reads of one row or of one job's records;
* `GetJobsByStatus`, `GetPendingJobs`, `UpdateJobStatus` and `BatchInsertJobs` of
  `postgres.go`, which nothing calls;
* the worker methods of `storage/memory.go`: they keep the same record as the
  PostgreSQL ones, but in the memory of the one process that registers itself;
* malformed messages, which cannot occur: only the service writes the lists;
* starvation of low priorities under an endless stream of urgent jobs, which
  needs infinitely many jobs;
* torn reads of a field of a job shared by pointer.

Plan: the model and its safety proofs are complete as far as this inventory goes.
What is left:

1. Shorten the longest proofs where two of them argue alike (`MemoryProofs` and
   `SoleSchedulerProofs` about places, `CountingProofs` about positions).
2. State the enabling half of the liveness arguments as invariants (whoever waits
   has somebody whose step is possible), so that only fairness is left to TLC.
