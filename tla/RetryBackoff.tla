----------------------------- MODULE RetryBackoff ----------------------------
(***************************************************************************)
(* When a failed job is run again: RetryPolicy.NextRetryAt (retry.go), the *)
(* configuration its defaults come from (config.go), and the seconds in    *)
(* which the Redis queue keeps and compares that time (redis.go).          *)
(*                                                                         *)
(* JobService lets a delayed message become ripe at any time; this module  *)
(* computes the time, for one job, in machine integers.  A tick of the     *)
(* clock is the unit of time.Duration, and 0 is the Unix epoch.            *)
(***************************************************************************)
EXTENDS Integers

CONSTANTS
  Width,          \* bits of int and time.Duration (64)
  Second,         \* ticks per second (10^9)
  Environments,   \* values the retry variables of the environment may have
  Policies,       \* retry policies clients may send
  NoNumber,       \* a variable is unset or is not a number
  DefaultRetries, DefaultBase, DefaultMax,  \* LoadConfig's literals
  Start,          \* the clock when the job is first run
  MaxNow          \* bound: the clock stops here

ASSUME WidthAssumption == Width \in Nat \ {0}

\* Arithmetic the provers do not know: what the powers of two are.
ASSUME PowersAssumption ==
  /\ \A n \in 0 .. Width : 2 ^ n \in Nat \ {0}
  /\ 2 ^ Width = 2 * 2 ^ (Width - 1)

ASSUME SecondAssumption == Second \in Nat \ {0}
ASSUME ClockAssumption == Start \in Nat /\ MaxNow \in Nat /\ Start <= MaxNow

VARIABLES
  policy,     \* RetryPolicy of the job; "attempts" is CurrentAttempts
  place,      \* where the job is
  last,       \* LastAttemptAt
  due,        \* ScheduledAt, as NextRetryAt computed it
  score,      \* score of the message in delayed_jobs
  now         \* the clock

retryVars == <<policy, place, last, due, score, now>>

-----------------------------------------------------------------------------
(* Machine integers *)

MaxWord == 2 ^ (Width - 1) - 1
MinWord == - 2 ^ (Width - 1)

Word == MinWord .. MaxWord

\* Two's complement: the result of an int or Duration operation.
Wrap(x) == ((x - MinWord) % (2 ^ Width)) + MinWord

\* time.Duration(math.Pow(2, float64(n))).  A fraction is cut off; what does
\* not fit is the least integer on amd64 and the greatest on arm64.
Pow2(n) ==
  CASE n < 0          -> {0}
    [] n >= Width - 1 -> {MinWord, MaxWord}
    [] OTHER          -> {2 ^ n}

-----------------------------------------------------------------------------
(* Configuration *)

\* getInt and getDuration fall back when there is nothing they can parse.
getInt(value, default) == IF value = NoNumber THEN default ELSE value

getDuration(value, default) == IF value = NoNumber THEN default ELSE value

\* The part of LoadConfig that domain.NewRetryPolicy reads.
LoadConfig(env) ==
  [retries |-> getInt(env.retries, DefaultRetries),
   base    |-> getDuration(env.base, DefaultBase),
   max     |-> getDuration(env.max, DefaultMax)]

NewRetryPolicy(env) ==
  LET cfg == LoadConfig(env) IN
  [retries |-> cfg.retries, attempts |-> 0, base |-> cfg.base,
   max |-> cfg.max, backoff |-> "exponential"]

-----------------------------------------------------------------------------
(* RetryPolicy *)

RetryPolicy == [retries  : Word,     \* MaxAttempts
                attempts : Word,     \* CurrentAttempts
                base     : Word,     \* BaseDelay
                max      : Word,     \* MaxDelay
                backoff  : STRING]   \* BackoffStrategy, free text

\* JSON numbers and ParseDuration yield machine integers.
ASSUME PoliciesAssumption ==
  /\ Policies \subseteq RetryPolicy
  /\ \A env \in Environments : NewRetryPolicy(env) \in RetryPolicy

AttemptsLeft(rp) == Wrap(rp.retries - rp.attempts)

IncrementAttempts(rp) == [rp EXCEPT !.attempts = Wrap(@ + 1)]

\* Mutant: the first retry waits twice the base delay.
LinearDelaysShifted(rp) ==
  CASE rp.backoff = "linear"      -> {Wrap((rp.attempts + 1) * rp.base)}
    [] rp.backoff = "exponential" -> {Wrap(f * rp.base) : f \in Pow2(rp.attempts)}
    [] OTHER                      -> {rp.base}

\* Mutant: the product is taken in floating point, which does not wrap.
DelaysInFloat(rp) ==
  CASE rp.backoff = "linear"      -> {rp.attempts * rp.base}
    [] rp.backoff = "exponential" -> {f * rp.base : f \in Pow2(rp.attempts)}
    [] OTHER                      -> {rp.base}

\* NextRetryAt's switch: the delay before it is capped.
Delays(rp) ==
  CASE rp.backoff = "linear"      -> {Wrap(rp.attempts * rp.base)}
    [] rp.backoff = "exponential" -> {Wrap(f * rp.base) : f \in Pow2(rp.attempts)}
    [] OTHER                      -> {rp.base}

Capped(delay, rp) == IF delay > rp.max THEN rp.max ELSE delay

\* LastAttemptAt.Add(delay): a time.Time reaches much further than a Duration.
NextRetryAt(rp, at) == {at + Capped(delay, rp) : delay \in Delays(rp)}

-----------------------------------------------------------------------------
(* RedisQueue *)

\* time.Time.Unix(): whole seconds, rounded down.
Unix(time) == time \div Second

\* Mutant: UnixNano() is taken for the score.
ScoreInTicks(time) == time

\* EnqueueDelayed's score.
Score(time) == Unix(time)

\* Mutant: a second is added, so that no job is promoted late.
PromotableAhead(sc, time) == 0 <= sc /\ sc <= Unix(time) + 1

\* ZRANGEBYSCORE delayed_jobs 0 <now in seconds>.
Promotable(sc, time) == 0 <= sc /\ sc <= Unix(time)

-----------------------------------------------------------------------------
RetryInit ==
  /\ \/ policy \in Policies
     \/ \E env \in Environments : policy = NewRetryPolicy(env)
  /\ place = "running"
  /\ last = Start
  /\ due = Start
  /\ score = 0
  /\ now = Start

\* handleJobFailure with attempts left: MarkAsFailed, NextRetryAt,
\* EnqueueDelayed.
Retry ==
  /\ place = "running"
  /\ policy' = IncrementAttempts(policy)
  /\ AttemptsLeft(policy') > 0
  /\ last' = now
  /\ due' \in NextRetryAt(policy', now)
  /\ score' = Score(due')
  /\ place' = "delayed"
  /\ UNCHANGED now

\* handleJobFailure with none left.
Bury ==
  /\ place = "running"
  /\ policy' = IncrementAttempts(policy)
  /\ AttemptsLeft(policy') <= 0
  /\ last' = now
  /\ place' = "dead"
  /\ UNCHANGED <<due, score, now>>

\* ProcessDelayedJobs finds the message and moves it.
Promote ==
  /\ place = "delayed"
  /\ Promotable(score, now)
  /\ place' = "queued"
  /\ UNCHANGED <<policy, last, due, score, now>>

\* A worker takes the job at any later time.
Dequeue ==
  /\ place = "queued"
  /\ place' = "running"
  /\ UNCHANGED <<policy, last, due, score, now>>

Tick ==
  /\ now < MaxNow
  /\ now' = now + 1
  /\ UNCHANGED <<policy, place, last, due, score>>

RetryNext == Retry \/ Bury \/ Promote \/ Dequeue \/ Tick

RetrySpec == RetryInit /\ [][RetryNext]_retryVars

\* The ticker of cmd/schedular calls ProcessDelayedJobs again and again, and
\* the clock runs.
RetryFairSpec ==
  /\ RetrySpec
  /\ WF_retryVars(Promote)
  /\ WF_retryVars(Tick)

-----------------------------------------------------------------------------
(* Properties *)

\* Types: attempts and delays stay machine integers; the clock is bounded.
RetryTypeOK ==
  /\ policy \in RetryPolicy
  /\ place \in {"running", "delayed", "queued", "dead"}
  /\ last \in Start .. now
  /\ due \in Int /\ score \in Int
  /\ place = "delayed" => due - last \in Word
  /\ now \in Start .. MaxNow

(***************************************************************************)
(* The backoff as the policy means it, in numbers without a limit.         *)
(***************************************************************************)
Multiplier(rp) ==
  CASE rp.backoff = "linear"      -> rp.attempts
    [] rp.backoff = "exponential" -> IF rp.attempts < 0 THEN 0 ELSE 2 ^ rp.attempts
    [] OTHER                      -> 1

InRange(rp) ==
  /\ rp.backoff = "exponential" => rp.attempts < Width - 1
  /\ Multiplier(rp) * rp.base \in Word

(***************************************************************************)
(* As long as neither the power nor the product leaves the machine's range *)
(* a retry is due exactly the documented multiple of BaseDelay, or         *)
(* MaxDelay if that is less, after the failure.                            *)
(***************************************************************************)
BackoffExact ==
  place = "delayed" /\ InRange(policy) =>
    LET exact == Multiplier(policy) * policy.base
    IN  due = last + (IF exact < policy.max THEN exact ELSE policy.max)

(***************************************************************************)
(* Seconds are rounded down on both sides of the comparison: a job gets to *)
(* the workers before its time by less than a second, whatever the clock   *)
(* says when the queue is looked at, and a negative score never does.      *)
(***************************************************************************)
PromotedInTime == place = "queued" => 0 <= due /\ due < now + Second

\* A retry that is due at a time after 1970 is promoted once the clock has
\* got there.
DueRetryPromoted ==
  place = "delayed" /\ 0 <= due /\ due <= MaxNow ~> place # "delayed"

\* Every retry is promoted once its time has come.
EveryRetryPromoted == place = "delayed" /\ due <= MaxNow ~> place # "delayed"
==============================================================================
