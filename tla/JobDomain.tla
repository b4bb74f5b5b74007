------------------------------ MODULE JobDomain ------------------------------
(***************************************************************************)
(* The job entity of internal/core/domain and the pure operations on it:   *)
(* priorities, the retry budget and the status changes.                    *)
(*                                                                         *)
(* Data is kept as far as the control flow or a property reads it.  The    *)
(* payload, metadata and error texts are left out.  Time stamps are left   *)
(* out except for one use: the JSON text of a job that has been worked on  *)
(* differs from that of every other run of the job, because ProcessedAt is *)
(* written with nanoseconds.  The field "run" stands for that difference:  *)
(* 0 before the first run, then the number of the run.                     *)
(***************************************************************************)
EXTENDS Integers, Sequences, FiniteSets, Functions

CONSTANTS
  Jobs,               \* job identifiers (fresh UUIDs in the code)
  JobTypes,           \* values the request's free-text "type" field may have
  HandlerTypes,       \* types that have a registered JobHandler
  DefaultMaxRetries,  \* config.DefaultMaxRetries
  NoPolicy,           \* the request brings no retry_policy
  NoJob               \* no row, or no job in a goroutine's hands

ASSUME DefaultMaxRetriesAssumption == DefaultMaxRetries \in Int
ASSUME HandlerTypesAssumption == HandlerTypes \subseteq JobTypes

-----------------------------------------------------------------------------
PriorityLow      == 1
PriorityMedium   == 2
PriorityHigh     == 3
PriorityCritical == 4

\* The lists that exist: one per named priority.
Priorities == {PriorityLow, PriorityMedium, PriorityHigh, PriorityCritical}

\* Mutant: one priority is left out of the list.
DequeueOrderNoMedium == <<PriorityCritical, PriorityHigh, PriorityLow>>

\* WorkerRunner.priorities: the order in which a worker asks for jobs.
DequeueOrder == <<PriorityCritical, PriorityHigh, PriorityMedium, PriorityLow>>

\* Mutant: String() without its default case.
QueueNameNoDefault(priority) == priority

\* Priority.String() names every value that is none of the four "medium".
QueueName(priority) ==
  IF priority \in Priorities THEN priority ELSE PriorityMedium

-----------------------------------------------------------------------------
Statuses == {"pending", "scheduled", "processing", "completed", "failed", "dead"}

Job == [id       : Jobs,
        type     : JobTypes,
        priority : Int,
        max      : Int,          \* RetryPolicy.MaxAttempts
        attempts : Int,          \* RetryPolicy.CurrentAttempts
        steady   : BOOLEAN,      \* of the other fields of RetryPolicy: see below
        status   : Statuses,
        run      : Nat]

ASSUME NoJobAssumption == NoJob \notin Job

\* What a client may send: the whole retry policy is the client's to choose,
\* current_attempts included; "future" is schedule_at lying ahead of now.  A
\* policy is steady if no delay its base_delay, max_delay and backoff_strategy
\* give leads to a time before 1970, as a negative delay or one that overflows
\* may (module RetryBackoff has the arithmetic).
RetryPolicies == [max : Int, attempts : Int, steady : BOOLEAN]

ScheduleJobRequest == [type     : JobTypes,
                       priority : Int,
                       policy   : RetryPolicies \cup {NoPolicy},
                       future   : BOOLEAN]

(***************************************************************************)
(* ShouldBindJSON: the request in a body, here a record whose fields are   *)
(* the JSON keys.  A key the request does not know is passed over, and a   *)
(* key that is missing leaves the zero value: the "required" of the struct *)
(* is under the tag validate, which gin does not read.                     *)
(***************************************************************************)
Bind(body) ==
  LET Value(key, zero) == IF key \in DOMAIN body THEN body[key] ELSE zero
  IN  [type     |-> Value("type", ""),
       priority |-> Value("priority", 0),
       policy   |-> Value("retry_policy", NoPolicy),
       future   |-> Value("schedule_at", "past") = "future"]

\* The delays of the configuration.
NewRetryPolicy == [max |-> DefaultMaxRetries, attempts |-> 0, steady |-> TRUE]

\* The job ScheduleJob builds from a request.
NewJob(id, req) ==
  LET policy == IF req.policy = NoPolicy THEN NewRetryPolicy ELSE req.policy
  IN  [id       |-> id,
       type     |-> req.type,
       priority |-> IF req.priority = 0 THEN PriorityMedium ELSE req.priority,
       max      |-> policy.max,
       attempts |-> policy.attempts,
       steady   |-> policy.steady,
       status   |-> IF req.future THEN "scheduled" ELSE "pending",
       run      |-> 0]

-----------------------------------------------------------------------------
AttemptsLeft(job) == job.max - job.attempts

\* Mutants: an attempt too many, an attempt too few.
CanRetryOnceMore(job) == AttemptsLeft(job) >= 0 /\ job.status = "failed"
CanRetryOnceLess(job) == AttemptsLeft(job) > 1 /\ job.status = "failed"

CanRetry(job) == AttemptsLeft(job) > 0 /\ job.status = "failed"

\* What CanRetry comes to over the whole life of a job: the executions its
\* policy allows, always one, then while some attempts are left.
Allowed(job) ==
  IF AttemptsLeft(job) > 1 THEN AttemptsLeft(job) ELSE 1

MarkAsProcessing(job, run) == [job EXCEPT !.status = "processing", !.run = run]

MarkAsCompleted(job) == [job EXCEPT !.status = "completed"]

\* Mutant: IncrementAttempts is called twice.
MarkAsFailedTwice(job) == [job EXCEPT !.status = "failed", !.attempts = @ + 2]

MarkAsFailed(job) == [job EXCEPT !.status = "failed", !.attempts = @ + 1]

MarkAsDead(job) == [job EXCEPT !.status = "dead"]

\* Mutant: the status is left as MarkAsFailed set it.
MarkForRetryForgotten(job) == job

\* handleJobFailure's own assignment once CanRetry holds.
MarkForRetry(job) == [job EXCEPT !.status = "scheduled"]

-----------------------------------------------------------------------------
(***************************************************************************)
(* How a call to PostgreSQL or Redis may end: it is carried out and the    *)
(* caller knows; it is not carried out and the caller gets an error; or it *)
(* is carried out and the caller gets an error all the same (the reply is  *)
(* lost, or the context ends while it is on its way).  go-redis sends a    *)
(* command again when no reply comes, so a push may be carried out twice   *)
(* and the caller told of a success.  The other commands set or delete     *)
(* something, and a second time makes no difference; the exception, left   *)
(* out, is a ZADD sent again after the scheduler has already promoted and  *)
(* removed its message, which leaves a second copy as a repeated push does.*)
(***************************************************************************)
Outcomes == {"ok", "failed", "unacked"}

PushOutcomes == Outcomes \cup {"repeated"}

Applied(out) == out # "failed"

Acknowledged(out) == out \in {"ok", "repeated"}
==============================================================================
