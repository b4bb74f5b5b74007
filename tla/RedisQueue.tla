------------------------------ MODULE RedisQueue -----------------------------
(***************************************************************************)
(* internal/adapters/secondary/queue/redis.go: QueuePort on Redis.  Each   *)
(* operator below is one Redis command, which Redis executes atomically;   *)
(* ProcessDelayedJobs is three commands and is put together from them by   *)
(* the module that owns the scheduler's loop.                              *)
(*                                                                         *)
(* A message is the JSON text of a job, here the job record itself.  The   *)
(* sorted set delayed_jobs is a set of messages: its scores only decide    *)
(* which members ZRANGEBYSCORE returns, and that is the variable "ripe".   *)
(***************************************************************************)
EXTENDS JobDomain

VARIABLES
  queues,      \* priority -> list jobs_<priority>, oldest message first
  delayed,     \* members of the sorted set delayed_jobs
  ripe,        \* members of delayed_jobs whose score lies in [0, now]
  deadLetter   \* list dead_letter_queue, oldest message first

redisVars == <<queues, delayed, ripe, deadLetter>>

RedisTypeOK ==
  /\ queues \in [Priorities -> Seq(Job)]
  /\ delayed \subseteq Job
  /\ ripe \subseteq delayed
  /\ deadLetter \in Seq(Job)

RedisInit ==
  /\ queues = [p \in Priorities |-> <<>>]
  /\ delayed = {}
  /\ ripe = {}
  /\ deadLetter = <<>>

\* The messages on the four active lists.
Queued == UNION {Range(queues[p]) : p \in Priorities}

\* The messages on the dead letter list.
Buried == Range(deadLetter)

-----------------------------------------------------------------------------
\* LPUSH: what it makes of a list.
Pushed(list, job, out) ==
  CASE out = "failed"   -> list
    [] out = "repeated" -> Append(Append(list, job), job)
    [] OTHER            -> Append(list, job)

\* LPUSH jobs_<priority>.
Enqueue(job, out) ==
  /\ queues' = [queues EXCEPT ![QueueName(job.priority)] = Pushed(@, job, out)]
  /\ UNCHANGED <<delayed, ripe, deadLetter>>

\* ZADD delayed_jobs.
EnqueueDelayed(job, out) ==
  /\ delayed' = IF Applied(out) THEN delayed \cup {job} ELSE delayed
  /\ UNCHANGED <<queues, ripe, deadLetter>>

\* LPUSH dead_letter_queue.
MoveToDeadLetter(job, out) ==
  /\ deadLetter' = Pushed(deadLetter, job, out)
  /\ UNCHANGED <<queues, delayed, ripe>>

\* List i of DequeueOrder is the first one that holds a message.
FirstNonEmpty(i) ==
  /\ queues[DequeueOrder[i]] # <<>>
  /\ \A k \in 1 .. (i - 1) : queues[DequeueOrder[k]] = <<>>

\* The message BRPOP returns from list i of DequeueOrder.
NextIn(i) == Head(queues[DequeueOrder[i]])

\* BRPOP over the lists of DequeueOrder, taking the oldest message of list i.
Dequeue(i) ==
  /\ FirstNonEmpty(i)
  /\ queues' = [queues EXCEPT ![DequeueOrder[i]] = Tail(@)]
  /\ UNCHANGED <<delayed, ripe, deadLetter>>

\* Mutant: the message stays in delayed_jobs.
RemoveDelayedForgotten(job, out) == UNCHANGED redisVars

\* ZREM delayed_jobs.
RemoveDelayed(job, out) ==
  /\ delayed' = IF Applied(out) THEN delayed \ {job} ELSE delayed
  /\ ripe' = IF Applied(out) THEN ripe \ {job} ELSE ripe
  /\ UNCHANGED <<queues, deadLetter>>

\* The score of the message is one that ZRANGEBYSCORE from 0 to now returns
\* some day: schedule_at lies ahead when the job comes in, but the time of a
\* retry may be anything if the policy is not steady.
Reachable(job) == job.run = 0 \/ job.steady

\* The clock reaches the score of a delayed message.  A retry whose policy is
\* not steady may have a score in the range, or one below 0 and never be ripe.
TimePasses(job) ==
  /\ job \in delayed \ ripe
  /\ ripe' = ripe \cup {job}
  /\ UNCHANGED <<queues, delayed, deadLetter>>
==============================================================================
