------------------------- MODULE RetryBackoffProofs --------------------------
(***************************************************************************)
(* What RetryBackoff promises for every width of the machine's integers,   *)
(* every length of a second, every clock and every retry policy.           *)
(***************************************************************************)
EXTENDS RetryBackoff, TLAPS

\* Two's complement stays within the word.
LEMMA WrapInWord == ASSUME NEW x \in Int PROVE Wrap(x) \in Word
<1> DEFINE h == 2 ^ (Width - 1)
<1>1. h \in Nat \ {0} /\ 2 ^ Width = 2 * h
  BY WidthAssumption, PowersAssumption
<1>2. (x + h) % (2 * h) \in 0 .. (2 * h - 1)
  BY <1>1
<1>3. Wrap(x) = ((x + h) % (2 * h)) - h
  BY <1>1 DEF Wrap, MinWord
<1>4. Word = (- h) .. (h - 1)
  BY DEF Word, MinWord, MaxWord
<1> QED
  BY <1>1, <1>2, <1>3, <1>4

\* Where nothing overflows, it is the identity.
LEMMA WrapIdentity == ASSUME NEW x \in Word PROVE Wrap(x) = x
<1> DEFINE h == 2 ^ (Width - 1)
<1>1. h \in Nat \ {0} /\ 2 ^ Width = 2 * h
  BY WidthAssumption, PowersAssumption
<1>2. x \in (- h) .. (h - 1)
  BY DEF Word, MinWord, MaxWord
<1>3. Wrap(x) = ((x + h) % (2 * h)) - h
  BY <1>1, <1>2 DEF Wrap, MinWord
<1>4. x + h \in 0 .. (2 * h - 1)
  BY <1>1, <1>2
<1>5. (x + h) % (2 * h) = x + h
  BY <1>1, <1>4
<1> QED
  BY <1>2, <1>1, <1>3, <1>5

LEMMA WordInt == Word \subseteq Int
  BY WidthAssumption, PowersAssumption DEF Word, MinWord, MaxWord

\* The float conversion yields an integer on either processor.
LEMMA Pow2Int == ASSUME NEW n \in Int PROVE Pow2(n) \subseteq Int
<1>1. MinWord \in Int /\ MaxWord \in Int
  BY WidthAssumption, PowersAssumption DEF MinWord, MaxWord
<1>2. CASE n < 0
  BY <1>2, WidthAssumption DEF Pow2
<1>3. CASE n >= Width - 1
  BY <1>1, <1>3, WidthAssumption DEF Pow2
<1>4. CASE n >= 0 /\ n < Width - 1
  <2>1. 2 ^ n \in Int
    BY <1>4, WidthAssumption, PowersAssumption
  <2> QED
    BY <1>4, <2>1, WidthAssumption DEF Pow2
<1> QED
  BY <1>2, <1>3, <1>4, WidthAssumption

\* Every delay NextRetryAt may compute is a Duration.
LEMMA DelaysInWord == ASSUME NEW rp \in RetryPolicy PROVE Delays(rp) \subseteq Word
<1>1. rp.attempts \in Int /\ rp.base \in Word /\ rp.base \in Int
  BY WordInt DEF RetryPolicy
<1>2. Wrap(rp.attempts * rp.base) \in Word
  <2>1. rp.attempts * rp.base \in Int
    BY <1>1
  <2> QED
    BY <2>1, WrapInWord
<1>3. ASSUME NEW f \in Pow2(rp.attempts) PROVE Wrap(f * rp.base) \in Word
  <2>1. f * rp.base \in Int
    BY <1>1, Pow2Int
  <2> QED
    BY <2>1, WrapInWord
<1> QED
  BY <1>1, <1>2, <1>3 DEF Delays

\* Where nothing overflows there is one delay, the one the policy means.
LEMMA DelaysExact ==
  ASSUME NEW rp \in RetryPolicy, InRange(rp)
  PROVE  Delays(rp) = {Multiplier(rp) * rp.base}
<1>1. rp.attempts \in Int /\ rp.base \in Int
  BY WordInt DEF RetryPolicy
<1>2. Wrap(Multiplier(rp) * rp.base) = Multiplier(rp) * rp.base
  BY WrapIdentity DEF InRange
<1>3. CASE rp.backoff = "linear"
  BY <1>2, <1>3 DEF Delays, Multiplier
<1>4. CASE rp.backoff = "exponential"
  <2>1. rp.attempts < Width - 1
    BY <1>4 DEF InRange
  <2>2. Pow2(rp.attempts) = {Multiplier(rp)}
    BY <1>1, <1>4, <2>1, WidthAssumption DEF Pow2, Multiplier
  <2>3. Delays(rp) = {Wrap(f * rp.base) : f \in Pow2(rp.attempts)}
    BY <1>4 DEF Delays
  <2> QED
    BY <1>2, <2>2, <2>3
<1>5. CASE rp.backoff \notin {"linear", "exponential"}
  <2>1. Multiplier(rp) = 1 /\ Delays(rp) = {rp.base}
    BY <1>5 DEF Multiplier, Delays
  <2> QED
    BY <1>1, <2>1
<1> QED
  BY <1>3, <1>4, <1>5

\* A retry is due a Duration after the failure.
LEMMA NextRetryBounded ==
  ASSUME NEW rp \in RetryPolicy, NEW at \in Int, NEW d \in NextRetryAt(rp, at)
  PROVE  d \in Int /\ d - at \in Word
<1>1. rp.max \in Word /\ rp.max \in Int
  BY WordInt DEF RetryPolicy
<1>2. PICK delay \in Delays(rp) : d = at + Capped(delay, rp)
  BY DEF NextRetryAt
<1>3. delay \in Word /\ delay \in Int
  BY DelaysInWord, WordInt
<1>4. /\ Capped(delay, rp) \in Word
      /\ Capped(delay, rp) \in Int
  BY <1>1, <1>3 DEF Capped
<1>5. d - at = Capped(delay, rp)
  BY <1>2, <1>4
<1> QED
  BY <1>1, <1>2, <1>4, <1>5

\* Counting an attempt keeps a policy a policy.
LEMMA IncrementKeepsType ==
  ASSUME NEW rp \in RetryPolicy
  PROVE  IncrementAttempts(rp) \in RetryPolicy
<1>1. Wrap(rp.attempts + 1) \in Word
  <2>1. rp.attempts \in Int
    BY WordInt DEF RetryPolicy
  <2>2. rp.attempts + 1 \in Int
    BY <2>1
  <2> QED
    BY <2>2, WrapInWord
<1> QED
  BY <1>1 DEF RetryPolicy, IncrementAttempts

-----------------------------------------------------------------------------
\* What PromotedInTime rests on: the score of a delayed message is that of
\* the time it is due.
ScoreTrue ==
  /\ place = "delayed" => score = Unix(due)
  /\ PromotedInTime

BackoffInv == RetryTypeOK /\ ScoreTrue

LEMMA UnixBounds ==
  ASSUME NEW t \in Int
  PROVE  /\ Unix(t) \in Int
         /\ Second * Unix(t) <= t
         /\ t < Second * Unix(t) + Second
<1>1. Second \in Int /\ Second > 0
  BY SecondAssumption
<1>2. /\ t \div Second \in Int
      /\ t % Second \in 0 .. (Second - 1)
      /\ t = Second * (t \div Second) + (t % Second)
  BY <1>1
<1>3. PICK q \in Int : q = t \div Second
  BY <1>2
<1>4. Second * q \in Int
  BY <1>1
<1> QED
  BY <1>1, <1>2, <1>3, <1>4 DEF Unix

\* A time whose second has come lies less than a second ahead.
LEMMA SecondsCompare ==
  ASSUME NEW t \in Int, NEW u \in Int, 0 <= Unix(t), Unix(t) <= Unix(u)
  PROVE  0 <= t /\ t < u + Second
<1>1. PICK a \in Int, b \in Int : a = Unix(t) /\ b = Unix(u)
  BY UnixBounds
<1>2. Second \in Int /\ Second > 0
  BY SecondAssumption
<1>3. Second * a <= Second * b /\ 0 <= Second * a
  BY <1>1, <1>2
<1>4. Second * a \in Int /\ Second * b \in Int
  BY <1>1, <1>2
<1>5. Second * a <= t /\ t < Second * a + Second /\ Second * b <= u
  BY <1>1, UnixBounds
<1> QED
  BY <1>2, <1>3, <1>4, <1>5

-----------------------------------------------------------------------------
LEMMA BackoffInvInit == RetryInit => BackoffInv
<1> SUFFICES ASSUME RetryInit PROVE BackoffInv
  OBVIOUS
<1>1. policy \in RetryPolicy
  BY PoliciesAssumption DEF RetryInit
<1> QED
  BY <1>1, ClockAssumption
  DEF RetryInit, BackoffInv, RetryTypeOK, ScoreTrue, PromotedInTime

LEMMA BackoffInvStep == BackoffInv /\ [RetryNext]_retryVars => BackoffInv'
<1> SUFFICES ASSUME BackoffInv, [RetryNext]_retryVars PROVE BackoffInv'
  OBVIOUS
<1> USE DEF BackoffInv
<1>1. /\ now \in Int /\ Start \in Int /\ MaxNow \in Int
      /\ Start <= now /\ now <= MaxNow
      /\ last \in Int /\ Start <= last /\ last <= now
      /\ Second \in Int /\ Second > 0
  BY ClockAssumption, SecondAssumption DEF RetryTypeOK
<1>2. CASE Retry
  <2>1. policy' \in RetryPolicy
    BY <1>2, IncrementKeepsType DEF Retry, RetryTypeOK
  <2>2. due' \in Int /\ due' - now \in Word
    BY <1>1, <1>2, <2>1, NextRetryBounded DEF Retry
  <2>3. score' \in Int /\ score' = Unix(due')
    BY <1>2, <2>2, UnixBounds DEF Retry, Score
  <2> QED
    BY <1>1, <1>2, <2>1, <2>2, <2>3
    DEF Retry, RetryTypeOK, ScoreTrue, PromotedInTime, Unix
<1>3. CASE Bury
  <2>1. policy' \in RetryPolicy
    BY <1>3, IncrementKeepsType DEF Bury, RetryTypeOK
  <2> QED
    BY <1>1, <1>3, <2>1 DEF Bury, RetryTypeOK, ScoreTrue, PromotedInTime
<1>4. CASE Promote
  <2>1. 0 <= due /\ due < now + Second
    BY <1>1, <1>4, SecondsCompare DEF Promote, Promotable, RetryTypeOK, ScoreTrue
  <2> QED
    BY <1>1, <1>4, <2>1 DEF Promote, RetryTypeOK, ScoreTrue, PromotedInTime
<1>5. CASE Dequeue
  BY <1>1, <1>5 DEF Dequeue, RetryTypeOK, ScoreTrue, PromotedInTime
<1>6. CASE Tick
  BY <1>1, <1>6 DEF Tick, RetryTypeOK, ScoreTrue, PromotedInTime, Unix
<1>7. CASE UNCHANGED retryVars
  BY <1>7 DEF retryVars, RetryTypeOK, ScoreTrue, PromotedInTime, Unix
<1> QED
  BY <1>2, <1>3, <1>4, <1>5, <1>6, <1>7 DEF RetryNext

LEMMA BackoffExactStep ==
  BackoffInv /\ BackoffExact /\ [RetryNext]_retryVars => BackoffExact'
<1> SUFFICES ASSUME BackoffInv, BackoffExact, [RetryNext]_retryVars,
                    place' = "delayed", InRange(policy)'
             PROVE  LET exact == Multiplier(policy') * policy'.base
                    IN  due' = last' + (IF exact < policy'.max THEN exact
                                                               ELSE policy'.max)
  BY DEF BackoffExact
<1> DEFINE exact == Multiplier(policy') * policy'.base
<1>1. CASE Retry
  <2>1. policy' \in RetryPolicy /\ policy'.max \in Int
    BY <1>1, IncrementKeepsType, WordInt
    DEF Retry, BackoffInv, RetryTypeOK, RetryPolicy
  <2>2. InRange(policy')
    BY DEF InRange, Multiplier
  <2>3. Delays(policy') = {exact} /\ exact \in Int
    BY <2>1, <2>2, DelaysExact, WordInt DEF InRange
  <2>4. due' = now + Capped(exact, policy') /\ last' = now
    BY <1>1, <2>3 DEF Retry, NextRetryAt
  <2>5. Capped(exact, policy') = IF exact < policy'.max THEN exact
                                                        ELSE policy'.max
    BY <2>1, <2>3 DEF Capped
  <2> QED
    BY <2>4, <2>5
<1>2. CASE UNCHANGED <<policy, place, last, due>>
  BY <1>2 DEF BackoffExact, InRange, Multiplier
<1> QED
  BY <1>1, <1>2 DEF RetryNext, Bury, Promote, Dequeue, Tick, retryVars

LEMMA BackoffInvariant == RetrySpec => []BackoffInv
  BY BackoffInvInit, BackoffInvStep, PTL DEF RetrySpec

\* Attempts, delays and the clock keep their types: overflow wraps around, it
\* never leaves the machine's integers.
THEOREM BackoffTypeCorrect == RetrySpec => []RetryTypeOK
<1>1. BackoffInv => RetryTypeOK
  BY DEF BackoffInv
<1> QED
  BY <1>1, BackoffInvariant, PTL

\* Without overflow a retry is due exactly when its policy says.
THEOREM BackoffIsExact == RetrySpec => []BackoffExact
<1>1. RetryInit => BackoffExact
  BY DEF RetryInit, BackoffExact
<1> QED
  BY <1>1, BackoffInvariant, BackoffExactStep, PTL DEF RetrySpec

\* ProcessDelayedJobs hands no job to the workers a second or more before it
\* is due, for every resolution of the clock.
THEOREM NeverPromotedEarly == RetrySpec => []PromotedInTime
<1>1. BackoffInv => PromotedInTime
  BY DEF BackoffInv, ScoreTrue, PromotedInTime
<1> QED
  BY <1>1, BackoffInvariant, PTL
==============================================================================
