------------------------- MODULE SoleSchedulerProofs -------------------------
(***************************************************************************)
(* Proofs about JobService with one scheduler process and any number of    *)
(* jobs, workers, goroutines and faults: a job has one copy at a time, so  *)
(* it is run within its budget, succeeds once and rests when it is done.   *)
(***************************************************************************)
EXTENDS JobServiceProofs

\* No two scheduler processes share the stores.
OneScheduler == \A s, t \in Schedulers : s = t

-----------------------------------------------------------------------------
(***************************************************************************)
(* The delayed-job loop of a scheduler that is alone.                      *)
(***************************************************************************)

(***************************************************************************)
(* What is left of the result set is still in delayed_jobs, and the one    *)
(* message that has been pushed and not yet removed is not in it any more. *)
(***************************************************************************)
PromotionInOrder ==
  \A s \in Schedulers :
    /\ batch[s] \subseteq delayed
    /\ moving[s] \cap batch[s] = {}
    /\ \A m, n \in moving[s] : m = n

\* Nobody but the loop itself removes what the loop has read.
LEMMA PromotionPreserved ==
  ASSUME OneScheduler, TypeOK, PromotionInOrder, [Next]_vars
  PROVE  PromotionInOrder'
<1> SUFFICES ASSUME NEW s \in Schedulers
             PROVE  /\ batch'[s] \subseteq delayed'
                    /\ moving'[s] \cap batch'[s] = {}
                    /\ \A m, n \in moving'[s] : m = n
  BY DEF PromotionInOrder
<1>p. /\ batch[s] \subseteq delayed
      /\ moving[s] \cap batch[s] = {}
      /\ \A m, n \in moving[s] : m = n
  BY DEF PromotionInOrder
<1>1. ASSUME NEW job \in moving[s], RemoveRipe(s, job)
      PROVE  /\ batch'[s] \subseteq delayed'
             /\ moving'[s] = {}
  BY <1>1, <1>p DEF RemoveRipe, RemoveDelayed, TypeOK
<1>2. ASSUME \A job \in moving[s] : ~RemoveRipe(s, job)
      PROVE  delayed \subseteq delayed'
  <2>1. CASE delayed' = delayed
    BY <2>1
  <2>2. CASE \E t \in Schedulers : \E job \in inflight[t] : EnqueueJob(t, job)
    BY <2>2 DEF EnqueueJob, Enqueue, EnqueueDelayed
  <2>3. CASE \E w \in Slots : RetryJob(w)
    BY <2>3 DEF RetryJob, EnqueueDelayed
  <2> QED
    BY <1>2, <2>1, <2>2, <2>3, DelayedChange DEF OneScheduler
<1>3. CASE ReadRipe(s)
  <2>1. batch'[s] = ripe /\ moving' = moving /\ moving[s] = {} /\ delayed' = delayed
    BY <1>3 DEF ReadRipe, TypeOK, redisVars
  <2> QED
    BY <2>1 DEF TypeOK, RedisTypeOK
<1>4. ASSUME NEW job \in batch[s], PushRipe(s, job)
      PROVE  /\ batch'[s] \subseteq delayed'
             /\ moving'[s] \cap batch'[s] = {}
             /\ \A m, n \in moving'[s] : m = n
  <2>1. /\ batch'[s] = batch[s] \ {job}
        /\ moving'[s] = {job} \/ moving'[s] = {}
        /\ delayed' = delayed
    BY <1>4 DEF PushRipe, Enqueue, TypeOK
  <2> QED
    BY <2>1, <1>p
<1>5. CASE EndScheduler(s)
  BY <1>5 DEF EndScheduler, TypeOK
<1>6. CASE UNCHANGED <<batch, moving>>
  BY <1>1, <1>2, <1>6, <1>p
<1> QED
  BY <1>1, <1>3, <1>4, <1>5, <1>6, <1>p, PromoterChange DEF OneScheduler

-----------------------------------------------------------------------------
(***************************************************************************)
(* The copies of a job.                                                    *)
(***************************************************************************)
InRequest(j) == \E s \in Schedulers : \E m \in inflight[s] : m.id = j

OnList(j) == \E m \in Queued : m.id = j

\* Message m of the job waits in delayed_jobs and nobody has pushed it yet.
Delays(m, j) == m \in delayed /\ m.id = j /\ Unpushed(m)

\* Goroutine w has the job and is to run it or to pass it on.
Owns(w, j) == pc[w] \in Owning /\ held[w].id = j

\* The active lists hold the job at one position at most.
ListOnce(j) ==
  \A p, q \in Priorities : \A i \in DOMAIN queues[p], k \in DOMAIN queues[q] :
    queues[p][i].id = j /\ queues[q][k].id = j => p = q /\ i = k

(***************************************************************************)
(* The job is on one list, in delayed_jobs or with one goroutine, and      *)
(* nowhere once it is done with.                                           *)
(***************************************************************************)
OneCopy(j) ==
  /\ ListOnce(j)
  /\ \A m, n : Delays(m, j) /\ Delays(n, j) => m = n
  /\ \A v, w \in Slots : Owns(v, j) /\ Owns(w, j) => v = w
  /\ OnList(j) => /\ \A m : ~Delays(m, j)
                  /\ \A w \in Slots : ~Owns(w, j)
  /\ \A m : Delays(m, j) => \A w \in Slots : ~Owns(w, j)
  /\ Settled(j) => ~HasCopy(j)

\* The job has a copy when one of these holds.
LEMMA CopyKinds ==
  ASSUME NEW j
  PROVE  HasCopy(j) <=> \/ InRequest(j)
                        \/ OnList(j)
                        \/ \E m : Delays(m, j)
                        \/ \E w \in Slots : Owns(w, j)
BY DEF HasCopy, InRequest, OnList, Delays, Owns

\* Where a push puts its message.
LEMMA PushedAt ==
  ASSUME NEW list \in Seq(Job), NEW job \in Job, NEW out,
         NEW i \in DOMAIN Pushed(list, job, out)
  PROVE  \/ i \in DOMAIN list /\ Pushed(list, job, out)[i] = list[i]
         \/ /\ Pushed(list, job, out)[i] = job
            /\ out # "repeated" => i = Len(list) + 1
<1>1. ASSUME NEW seq \in Seq(Job), NEW k \in DOMAIN Append(seq, job)
      PROVE  \/ k \in DOMAIN seq /\ Append(seq, job)[k] = seq[k]
             \/ k = Len(seq) + 1 /\ Append(seq, job)[k] = job
  BY <1>1
<1>2. Append(list, job) \in Seq(Job)
  OBVIOUS
<1> QED
  BY <1>1, <1>2 DEF Pushed

\* A push of another job, or of one that is on no list, keeps the lists right.
LEMMA EnqueueOnce ==
  ASSUME RedisTypeOK, NEW job \in Job, NEW out, Enqueue(job, out), NEW j,
         ListOnce(j), job.id = j => ~OnList(j) /\ out # "repeated"
  PROVE  /\ ListOnce(j)'
         /\ OnList(j)' => OnList(j) \/ job.id = j
<1>1. ASSUME NEW p \in Priorities, NEW i \in DOMAIN queues'[p]
      PROVE  \/ i \in DOMAIN queues[p] /\ queues'[p][i] = queues[p][i]
             \/ /\ queues'[p][i] = job
                /\ p = QueueName(job.priority)
                /\ out # "repeated" => i = Len(queues[p]) + 1
  <2>1. queues[p] \in Seq(Job)
    BY DEF RedisTypeOK
  <2>2. IF p = QueueName(job.priority)
        THEN queues'[p] = Pushed(queues[p], job, out)
        ELSE queues'[p] = queues[p]
    BY DEF Enqueue, RedisTypeOK
  <2> QED
    BY <1>1, <2>1, <2>2, PushedAt
<1>2. ASSUME NEW p \in Priorities, NEW i \in DOMAIN queues[p], queues[p][i].id = j
      PROVE  OnList(j)
  BY <1>2 DEF OnList, Queued, Range
<1>3. ListOnce(j)'
  <2> SUFFICES ASSUME NEW p \in Priorities, NEW q \in Priorities,
                      NEW i \in DOMAIN queues'[p], NEW k \in DOMAIN queues'[q],
                      queues'[p][i].id = j, queues'[q][k].id = j
               PROVE  p = q /\ i = k
    BY DEF ListOnce
  <2>1. CASE job.id = j
    BY <1>1, <1>2, <2>1
  <2>2. CASE job.id # j
    BY <1>1, <2>2 DEF ListOnce
  <2> QED
    BY <2>1, <2>2
<1>4. OnList(j)' => OnList(j) \/ job.id = j
  BY EnqueueMessages DEF OnList
<1> QED
  BY <1>3, <1>4

\* BRPOP keeps the lists right and takes the one copy it takes altogether.
LEMMA DequeueOnce ==
  ASSUME RedisTypeOK, NEW i \in DOMAIN DequeueOrder, Dequeue(i), NEW j,
         ListOnce(j)
  PROVE  /\ ListOnce(j)'
         /\ OnList(j)' => OnList(j)
         /\ NextIn(i).id = j => OnList(j) /\ ~OnList(j)'
<1> DEFINE o == DequeueOrder[i]
<1>1. o \in Priorities
  BY DequeueOrderType
<1>2. queues[o] \in Seq(Job) /\ queues[o] # <<>> /\ NextIn(i) = Head(queues[o])
  BY <1>1 DEF RedisTypeOK, Dequeue, FirstNonEmpty, NextIn
<1>3. /\ queues'[o] = Tail(queues[o])
      /\ \A p \in Priorities : p # o => queues'[p] = queues[p]
  BY <1>1 DEF Dequeue, RedisTypeOK
<1> HIDE DEF o
<1>4. /\ 1 \in DOMAIN queues[o] /\ queues[o][1] = NextIn(i)
      /\ \A k \in DOMAIN queues'[o] : /\ k \in Nat /\ k >= 1
                                      /\ k + 1 \in DOMAIN queues[o]
                                      /\ queues'[o][k] = queues[o][k + 1]
  BY <1>2, <1>3
<1>5. ListOnce(j)'
  <2> SUFFICES ASSUME NEW p \in Priorities, NEW q \in Priorities,
                      NEW k \in DOMAIN queues'[p], NEW l \in DOMAIN queues'[q],
                      queues'[p][k].id = j, queues'[q][l].id = j
               PROVE  p = q /\ k = l
    BY DEF ListOnce
  <2>1. CASE p = o /\ q = o
    <3>1. k + 1 = l + 1 /\ k \in Nat /\ l \in Nat
      BY <1>1, <1>4, <2>1 DEF ListOnce
    <3> QED
      BY <2>1, <3>1
  <2>2. CASE p = o /\ q # o
    <3>1. k + 1 \in DOMAIN queues[o] /\ queues[o][k + 1].id = j
      BY <1>4, <2>2
    <3>2. l \in DOMAIN queues[q] /\ queues[q][l].id = j
      BY <1>3, <2>2
    <3>3. o = q
      BY <1>1, <3>1, <3>2 DEF ListOnce
    <3> QED
      BY <2>2, <3>3
  <2>3. CASE p # o /\ q = o
    <3>1. l + 1 \in DOMAIN queues[o] /\ queues[o][l + 1].id = j
      BY <1>4, <2>3
    <3>2. k \in DOMAIN queues[p] /\ queues[p][k].id = j
      BY <1>3, <2>3
    <3>3. o = p
      BY <1>1, <3>1, <3>2 DEF ListOnce
    <3> QED
      BY <2>3, <3>3
  <2>4. CASE p # o /\ q # o
    BY <1>3, <2>4 DEF ListOnce
  <2> QED
    BY <2>1, <2>2, <2>3, <2>4
<1>6. OnList(j)' => OnList(j)
  BY DequeueMessages DEF OnList
<1>7. ASSUME NextIn(i).id = j
      PROVE  OnList(j) /\ ~OnList(j)'
  <2>1. OnList(j)
    BY <1>7, DequeueMessages DEF OnList
  <2>2. ASSUME NEW p \in Priorities, NEW k \in DOMAIN queues'[p],
               queues'[p][k].id = j
        PROVE  FALSE
    <3>1. CASE p = o
      <4>1. k + 1 = 1 /\ k >= 1 /\ k \in Nat
        BY <1>1, <1>4, <1>7, <2>2, <3>1 DEF ListOnce
      <4> QED
        BY <4>1
    <3>2. CASE p # o
      BY <1>1, <1>3, <1>4, <1>7, <2>2, <3>2 DEF ListOnce
    <3> QED
      BY <3>1, <3>2
  <2>3. OnList(j)' => \E p \in Priorities : \E k \in DOMAIN queues'[p] :
                        queues'[p][k].id = j
    BY DEF OnList, Queued, Range
  <2> QED
    BY <2>1, <2>2, <2>3
<1> QED
  BY <1>5, <1>6, <1>7

\* A step after which there is no copy where there was none before.
LEMMA CopiesShrink ==
  ASSUME NEW j, OneCopy(j), ListOnce(j)', OnList(j)' => OnList(j),
         \A m : Delays(m, j)' => Delays(m, j),
         \A w \in Slots : Owns(w, j)' => Owns(w, j),
         Settled(j)' => ~HasCopy(j)'
  PROVE  OneCopy(j)'
BY DEF OneCopy

\* Jobs are settled by their handler's success or as dead letters only.
LEMMA SettledOrigin ==
  ASSUME TypeOK, [Next]_vars, NEW j \in Jobs, Settled(j)'
  PROVE  \/ Settled(j)
         \/ \E w \in Slots : /\ HandlerSucceeds(w) \/ BuryJob(w)
                             /\ Owns(w, j)
<1>1. CASE effects'[j] > 0 /\ ~(effects[j] > 0)
  <2>1. PICK w \in Slots : HandlerSucceeds(w)
    BY <1>1, TalliesChange
  <2>2. pc[w] = "executing" /\ held[w].id = j
    BY <1>1, <2>1 DEF HandlerSucceeds, TypeOK
  <2> QED
    BY <2>1, <2>2 DEF Owns, Owning
<1>2. ASSUME NEW m \in Buried', m.id = j, m \notin Buried
      PROVE  \E w \in Slots : BuryJob(w) /\ Owns(w, j)
  <2>1. PICK w \in Slots : BuryJob(w) /\ m = MarkAsDead(held[w])
    BY <1>2, BuriedOrigin
  <2>2. pc[w] = "failed" /\ held[w] \in Job
    BY <2>1 DEF BuryJob, TypeOK
  <2>3. held[w].id = j
    BY <1>2, <2>1, <2>2, MarkTypes
  <2> QED
    BY <2>1, <2>2, <2>3 DEF Owns, Owning
<1> QED
  BY <1>1, <1>2 DEF Settled, IsBuried

\* The goroutine that has the job has its only copy.
LEMMA OwnedAlone ==
  ASSUME RequestsApart, NEW j, OneCopy(j), NEW w \in Slots, Owns(w, j)
  PROVE  /\ ~InRequest(j) /\ ~OnList(j) /\ ~Settled(j)
         /\ \A m : ~Delays(m, j)
         /\ \A v \in Slots : Owns(v, j) => v = w
<1>1. held[w] \in Released
  BY ReleasedMembers DEF Owns, Owning
<1>2. ~InRequest(j)
  BY <1>1 DEF RequestsApart, InRequest, Owns
<1> QED
  BY <1>2, CopyKinds DEF OneCopy

\* A request that has the job has its only copy.
LEMMA RequestedAlone ==
  ASSUME RequestsApart, NEW j, OneCopy(j), InRequest(j)
  PROVE  /\ ~OnList(j) /\ ~Settled(j)
         /\ \A m : ~Delays(m, j)
         /\ \A w \in Slots : ~Owns(w, j)
<1>1. response[j] = "waiting"
  BY DEF RequestsApart, InRequest
<1>2. \A m \in Released : m.id # j
  BY <1>1 DEF RequestsApart
<1>3. /\ \A m \in Queued : m \in Released
      /\ \A m \in delayed : m \in Released
      /\ \A w \in Slots : pc[w] \in Owning => held[w] \in Released
  BY ReleasedMembers DEF Owning
<1> QED
  BY <1>2, <1>3, CopyKinds DEF OneCopy, OnList, Delays, Owns

\* A job that is on a list or delayed is with no request.
LEMMA ReleasedAlone ==
  ASSUME RequestsApart, NEW j, OneCopy(j), OnList(j) \/ \E m : Delays(m, j)
  PROVE  ~InRequest(j) /\ ~Settled(j)
BY RequestedAlone, CopyKinds DEF OneCopy

\* Steps of requests and of the delayed-job loop make no second copy.
LEMMA SchedulerKeepsOneCopy ==
  ASSUME OneScheduler, TypeOK, AttemptsCounted, RequestsApart,
         PromotionInOrder, NEW j \in Jobs, OneCopy(j), "dup" \notin damage'[j],
         \/ \E s \in Schedulers, i \in Jobs, req \in Requests :
              ScheduleJob(s, i, req)
         \/ \E s \in Schedulers : \/ Reply(s)
                                  \/ ProcessDelayedJobs(s)
                                  \/ EndScheduler(s)
  PROVE  OneCopy(j)'
<1>t. /\ inflight \in [Schedulers -> SUBSET Job]
      /\ batch \in [Schedulers -> SUBSET Job]
      /\ moving \in [Schedulers -> SUBSET Job]
      /\ \A m \in Job : m.id \in Jobs
      /\ RedisTypeOK
  BY DEF TypeOK, Job
<1>k. HasCopy(j)' <=> \/ InRequest(j)'
                      \/ OnList(j)'
                      \/ \E m : Delays(m, j)'
                      \/ \E w \in Slots : Owns(w, j)'
  BY DEF HasCopy, InRequest, OnList, Delays, Owns
<1>o. ListOnce(j) /\ (Settled(j) => ~HasCopy(j))
  BY DEF OneCopy
<1>w. ASSUME UNCHANGED <<pc, held>>
      PROVE  \A w \in Slots : Owns(w, j)' <=> Owns(w, j)
  BY <1>w DEF Owns
<1>d. ASSUME UNCHANGED <<deadLetter, effects>>
      PROVE  Settled(j)' <=> Settled(j)
  BY <1>d DEF Settled, IsBuried, Buried
<1>q. ASSUME UNCHANGED queues
      PROVE  ListOnce(j)' /\ (OnList(j)' <=> OnList(j))
  BY <1>q, <1>o DEF ListOnce, OnList, Queued
<1>1. ASSUME NEW s \in Schedulers, NEW i \in Jobs, NEW req \in Requests,
             ScheduleJob(s, i, req)
      PROVE  OneCopy(j)'
  <2>1. UNCHANGED <<queues, delayed, moving, deadLetter, pc, held, effects>>
    BY <1>1 DEF ScheduleJob, redisVars, promoterVars, workerVars, tallies
  <2>2. \A m : Delays(m, j)' <=> Delays(m, j)
    BY <2>1 DEF Delays, Unpushed
  <2>3. CASE i # j
    <3>1. NewJob(i, req).id = i
      BY DEF NewJob
    <3>2. InRequest(j)' => InRequest(j)
      BY <1>1, <1>t, <2>3, <3>1 DEF ScheduleJob, InRequest
    <3> QED
      BY <1>d, <1>k, <1>o, <1>q, <1>w, <2>1, <2>2, <3>2, CopiesShrink, CopyKinds
  <2>4. CASE i = j
    <3>1. submitted[j] = NoJob
      BY <1>1, <2>4 DEF ScheduleJob
    <3>2. \A m \in Buried : m.id # j
      BY <3>1 DEF AttemptsCounted, Messages
    <3>3. ~Settled(j)
      BY <3>1, <3>2 DEF RequestsApart, Settled, IsBuried
    <3> QED
      BY <1>d, <1>q, <1>w, <2>1, <2>2, <3>3, CopiesShrink
  <2> QED
    BY <2>3, <2>4
<1>2. ASSUME NEW s \in Schedulers, NEW job \in inflight[s], EnqueueJob(s, job)
      PROVE  OneCopy(j)'
  <2>1. PICK out \in PushOutcomes :
          /\ Call(TRUE, job.id, out, {"lost"}, {})
          /\ \/ EnqueueDelayed(job, out)
             \/ Enqueue(job, out)
    BY <1>2 DEF EnqueueJob
  <2>2. /\ UNCHANGED <<moving, deadLetter, pc, held, effects>>
        /\ inflight' = [inflight EXCEPT ![s] = inflight[s] \ {job}]
    BY <1>2, <2>1
    DEF EnqueueJob, EnqueueDelayed, Enqueue, promoterVars, workerVars, tallies
  <2>3. InRequest(j)' => InRequest(j)
    BY <1>t, <2>2 DEF InRequest
  <2>4. job.id = j => out # "repeated"
    BY <2>1 DEF Call, Harm, TypeOK
  <2>5. job \in Job
    BY <1>t
  <2>6. job.id = j => /\ ~OnList(j) /\ ~Settled(j)
                      /\ \A m : ~Delays(m, j)
                      /\ \A w \in Slots : ~Owns(w, j)
    <3>1. job.id = j => InRequest(j)
      BY DEF InRequest
    <3> QED
      BY <3>1, RequestedAlone
  <2>7. CASE Enqueue(job, out)
    <3>1. \A m : Delays(m, j)' <=> Delays(m, j)
      BY <2>2, <2>7 DEF Enqueue, Delays, Unpushed
    <3>2. ListOnce(j)' /\ (OnList(j)' => OnList(j) \/ job.id = j)
      BY <1>o, <1>t, <2>4, <2>5, <2>6, <2>7, EnqueueOnce
    <3>3. CASE job.id = j
      BY <1>d, <1>w, <2>2, <2>6, <3>1, <3>2, <3>3 DEF OneCopy
    <3>4. CASE job.id # j
      BY <1>d, <1>k, <1>o, <1>w, <2>2, <2>3, <3>1, <3>2, <3>4, CopiesShrink,
         CopyKinds
    <3> QED
      BY <3>3, <3>4
  <2>8. CASE EnqueueDelayed(job, out)
    <3>1. \A m : Delays(m, j)' => Delays(m, j) \/ (m = job /\ job.id = j)
      BY <2>2, <2>8 DEF EnqueueDelayed, Delays, Unpushed
    <3>2. UNCHANGED queues
      BY <2>8 DEF EnqueueDelayed
    <3>3. CASE job.id = j
      BY <1>d, <1>q, <1>w, <2>2, <2>6, <3>1, <3>2, <3>3 DEF OneCopy
    <3>4. CASE job.id # j
      BY <1>d, <1>k, <1>o, <1>q, <1>w, <2>2, <2>3, <3>1, <3>2, <3>4,
         CopiesShrink, CopyKinds
    <3> QED
      BY <3>3, <3>4
  <2> QED
    BY <2>1, <2>7, <2>8
<1>3. ASSUME NEW s \in Schedulers, ReadRipe(s)
      PROVE  OneCopy(j)'
  <2>1. UNCHANGED <<inflight, queues, delayed, moving, deadLetter, pc, held,
                    effects>>
    BY <1>3 DEF ReadRipe, redisVars, schedulerVars, workerVars, tallies
  <2>2. \A m : Delays(m, j)' <=> Delays(m, j)
    BY <2>1 DEF Delays, Unpushed
  <2>3. InRequest(j)' <=> InRequest(j)
    BY <2>1 DEF InRequest
  <2> QED
    BY <1>d, <1>k, <1>o, <1>q, <1>w, <2>1, <2>2, <2>3, CopiesShrink, CopyKinds
<1>4. ASSUME NEW s \in Schedulers, NEW job \in batch[s], PushRipe(s, job)
      PROVE  OneCopy(j)'
  <2>1. PICK out \in PushOutcomes :
          /\ Call(Live(s), job.id, out, {}, {"dup"})
          /\ Enqueue(job, out)
          /\ moving' = IF Acknowledged(out) THEN [moving EXCEPT ![s] = {job}]
                                            ELSE moving
    BY <1>4 DEF PushRipe
  <2>2. /\ UNCHANGED <<inflight, delayed, deadLetter, pc, held, effects>>
        /\ moving[s] = {}
    BY <1>4, <2>1 DEF PushRipe, Enqueue, schedulerVars, workerVars, tallies
  <2>3. InRequest(j)' <=> InRequest(j)
    BY <2>2 DEF InRequest
  <2>4. \A m : Delays(m, j)' => Delays(m, j)
    <3>1. \A m : Unpushed(m)' => Unpushed(m)
      BY <1>t, <2>1, <2>2 DEF Unpushed
    <3> QED
      BY <2>2, <3>1 DEF Delays
  <2>5. job \in Job /\ job.id \in Jobs
    BY <1>t
  <2>6. job.id = j => out # "repeated" /\ out # "unacked"
    <3>1. out = "repeated" \/ out = "unacked" => "dup" \in damage'[job.id]
      BY <2>1, <2>5, CallHarm DEF Harm
    <3> QED
      BY <3>1
  <2>7. CASE out = "failed"
    <3>1. UNCHANGED queues
      BY <2>1, <2>7 DEF Enqueue, Pushed, TypeOK, RedisTypeOK
    <3> QED
      BY <1>d, <1>k, <1>o, <1>q, <1>w, <2>2, <2>3, <2>4, <3>1, CopiesShrink,
         CopyKinds
  <2>8. CASE job.id # j
    <3>1. ListOnce(j)' /\ (OnList(j)' => OnList(j))
      BY <1>o, <1>t, <2>1, <2>5, <2>8, EnqueueOnce
    <3> QED
      BY <1>d, <1>k, <1>o, <1>w, <2>2, <2>3, <2>4, <3>1, CopiesShrink, CopyKinds
  <2>9. CASE job.id = j /\ out # "failed"
    <3>1. out = "ok"
      BY <2>6, <2>9 DEF PushOutcomes, Outcomes
    <3>2. Unpushed(job)
      BY <2>2 DEF OneScheduler, Unpushed
    <3>3. Delays(job, j)
      BY <2>9, <3>2 DEF PromotionInOrder, Delays
    <3>4. /\ ~OnList(j) /\ ~InRequest(j) /\ ~Settled(j)
          /\ \A w \in Slots : ~Owns(w, j)
          /\ \A m : Delays(m, j) => m = job
      BY <3>3, ReleasedAlone DEF OneCopy
    <3>5. \A m : ~Delays(m, j)'
      <4>1. ~Unpushed(job)'
        BY <1>t, <2>1, <3>1 DEF Unpushed, Acknowledged
      <4> QED
        BY <2>4, <3>4, <4>1 DEF Delays
    <3>6. ListOnce(j)'
      BY <1>o, <1>t, <2>1, <2>5, <3>1, <3>4, EnqueueOnce
    <3> QED
      BY <1>d, <1>w, <2>2, <3>4, <3>5, <3>6 DEF OneCopy
  <2> QED
    BY <2>7, <2>8, <2>9
<1>5. ASSUME NEW s \in Schedulers, NEW job \in moving[s], RemoveRipe(s, job)
      PROVE  OneCopy(j)'
  <2>1. PICK out \in Outcomes :
          /\ Call(Live(s), job.id, out, {"dup"}, {})
          /\ RemoveDelayed(job, out)
    BY <1>5 DEF RemoveRipe
  <2>2. /\ UNCHANGED <<inflight, queues, deadLetter, pc, held, effects>>
        /\ moving' = [moving EXCEPT ![s] = {}]
    BY <1>5, <2>1
    DEF RemoveRipe, RemoveDelayed, schedulerVars, workerVars, tallies
  <2>3. InRequest(j)' <=> InRequest(j)
    BY <2>2 DEF InRequest
  <2>4. job.id \in Jobs /\ (job.id = j => out # "failed")
    <3>1. job.id \in Jobs
      BY <1>t
    <3>2. damage'[job.id] = damage[job.id] \cup Harm(out, {"dup"}, {})
      BY <2>1, <3>1, CallHarm
    <3>3. out = "failed" => "dup" \in damage'[job.id]
      BY <3>2 DEF Harm
    <3> QED
      BY <3>1, <3>3
  <2>5. \A m \in moving[s] : m = job
    BY DEF PromotionInOrder
  <2>6. ASSUME NEW m, Delays(m, j)'
        PROVE  Delays(m, j)
    <3>1. m \in delayed /\ m.id = j /\ m # job
      BY <2>1, <2>4, <2>6 DEF Delays, RemoveDelayed, Applied
    <3>2. Unpushed(m)
      BY <1>t, <2>2, <2>5, <2>6, <3>1 DEF Delays, Unpushed
    <3> QED
      BY <3>1, <3>2 DEF Delays
  <2> QED
    BY <1>d, <1>k, <1>o, <1>q, <1>w, <2>2, <2>3, <2>6, CopiesShrink, CopyKinds
<1>6. ASSUME NEW s \in Schedulers, EndScheduler(s)
      PROVE  OneCopy(j)'
  <2>1. /\ UNCHANGED <<queues, delayed, deadLetter, pc, held, effects>>
        /\ moving' = [moving EXCEPT ![s] = {}]
        /\ inflight' = [inflight EXCEPT ![s] = {}]
    BY <1>6 DEF EndScheduler, redisVars, workerVars, tallies
  <2>2. InRequest(j)' => InRequest(j)
    BY <1>t, <2>1 DEF InRequest
  <2>3. \A m \in moving[s] : m.id # j
    BY <1>6 DEF EndScheduler
  <2>4. \A m : Delays(m, j)' => Delays(m, j)
    BY <1>t, <2>1, <2>3 DEF Delays, Unpushed
  <2> QED
    BY <1>d, <1>k, <1>o, <1>q, <1>w, <2>1, <2>2, <2>4, CopiesShrink, CopyKinds
<1> QED
  BY <1>1, <1>2, <1>3, <1>4, <1>5, <1>6 DEF Reply, ProcessDelayedJobs

\* The steps of the workers make no second copy.
LEMMA WorkerKeepsOneCopy ==
  ASSUME TypeOK, RequestsApart, NEW j \in Jobs, OneCopy(j),
         \/ \E w \in Slots : ProcessJobs(w)
         \/ \E p \in Workers : EndWorker(p)
  PROVE  OneCopy(j)'
<1>k. HasCopy(j)' <=> \/ InRequest(j)'
                      \/ OnList(j)'
                      \/ \E m : Delays(m, j)'
                      \/ \E w \in Slots : Owns(w, j)'
  BY DEF HasCopy, InRequest, OnList, Delays, Owns
<1>o. ListOnce(j) /\ (Settled(j) => ~HasCopy(j))
  BY DEF OneCopy
<1>h. ASSUME NEW w \in Slots, pc[w] # "idle"
      PROVE  held[w] \in Job /\ held[w].id \in Jobs
  BY <1>h DEF TypeOK, Job
<1>m. UNCHANGED <<inflight, moving>> /\ (InRequest(j)' <=> InRequest(j))
  <2>1. UNCHANGED <<inflight, moving>>
    BY DEF ProcessJobs, ProcessNextJob, StartJob, HandlerSucceeds, HandlerFails,
           HandleJobSuccess, SaveOutcome, RetryJob, BuryJob, UpdateFailedJob,
           RecordHistory, EndWorker, schedulerVars, promoterVars
  <2> QED
    BY <2>1 DEF InRequest
<1>v. ASSUME NEW w \in Slots, ProcessJobs(w)
      PROVE  \A v \in Slots : v # w => (Owns(v, j)' <=> Owns(v, j))
  <2>1. \A v \in Slots : v # w => pc'[v] = pc[v] /\ held'[v] = held[v]
    BY <1>v
    DEF TypeOK, ProcessJobs, ProcessNextJob, StartJob, HandlerSucceeds,
        HandlerFails, HandleJobSuccess, SaveOutcome, RetryJob, BuryJob,
        UpdateFailedJob, RecordHistory, Goto, Release
  <2> QED
    BY <2>1 DEF Owns
<1>d. ASSUME UNCHANGED <<deadLetter, effects>>
      PROVE  Settled(j)' <=> Settled(j)
  BY <1>d DEF Settled, IsBuried, Buried
<1>q. ASSUME UNCHANGED queues
      PROVE  ListOnce(j)' /\ (OnList(j)' <=> OnList(j))
  BY <1>q, <1>o DEF ListOnce, OnList, Queued
<1>e. ASSUME UNCHANGED delayed
      PROVE  \A m : Delays(m, j)' <=> Delays(m, j)
  BY <1>e, <1>m DEF Delays, Unpushed
<1>f. ASSUME UNCHANGED <<queues, delayed, deadLetter, effects>>,
             \A w \in Slots : Owns(w, j)' => Owns(w, j)
      PROVE  OneCopy(j)'
  BY <1>d, <1>e, <1>f, <1>k, <1>m, <1>o, <1>q, CopiesShrink, CopyKinds
<1>1. ASSUME NEW w \in Slots, ProcessNextJob(w)
      PROVE  OneCopy(j)'
  <2>1. PICK i \in DOMAIN DequeueOrder :
          /\ Dequeue(i)
          /\ \/ /\ Goto(w, "dequeued")
                /\ held' = [held EXCEPT ![w] = NextIn(i)]
             \/ UNCHANGED <<pc, held>>
    BY <1>1 DEF ProcessNextJob
  <2>2. UNCHANGED <<delayed, deadLetter, effects>> /\ pc[w] = "idle"
    BY <1>1, <2>1 DEF ProcessNextJob, Dequeue, tallies
  <2>3. /\ ListOnce(j)'
        /\ OnList(j)' => OnList(j)
        /\ NextIn(i).id = j => OnList(j) /\ ~OnList(j)'
    BY <1>o, <2>1, DequeueOnce DEF TypeOK
  <2>4. Owns(w, j)' => NextIn(i).id = j
    BY <2>1, <2>2 DEF Owns, Owning, Goto, TypeOK
  <2>5. \A v \in Slots : v # w => (Owns(v, j)' <=> Owns(v, j))
    BY <1>1, <1>v DEF ProcessJobs
  <2>6. CASE NextIn(i).id = j
    <3>1. /\ ~Settled(j) /\ \A m : ~Delays(m, j)
          /\ \A v \in Slots : ~Owns(v, j)
      BY <2>3, <2>6, ReleasedAlone DEF OneCopy
    <3> QED
      BY <1>d, <1>e, <2>2, <2>3, <2>5, <2>6, <3>1 DEF OneCopy
  <2>7. CASE NextIn(i).id # j
    <3>1. \A v \in Slots : Owns(v, j)' => Owns(v, j)
      BY <2>4, <2>5, <2>7
    <3> QED
      BY <1>d, <1>e, <1>k, <1>m, <1>o, <2>2, <2>3, <3>1, CopiesShrink, CopyKinds
  <2> QED
    BY <2>6, <2>7
<1>2. ASSUME NEW w \in Slots, StartJob(w)
      PROVE  OneCopy(j)'
  <2>1. UNCHANGED <<queues, delayed, deadLetter, effects>>
    BY <1>2 DEF StartJob, redisVars
  <2>2. Owns(w, j)' => Owns(w, j)
    BY <1>2, StartStep DEF Owns, Owning
  <2> QED
    BY <1>2, <1>f, <1>v, <2>1, <2>2 DEF ProcessJobs
<1>3. ASSUME NEW w \in Slots, HandlerSucceeds(w)
      PROVE  OneCopy(j)'
  <2>1. /\ UNCHANGED <<queues, delayed, deadLetter>>
        /\ ~Owns(w, j)' /\ pc[w] = "executing"
        /\ effects' = [effects EXCEPT ![held[w].id] = effects[held[w].id] + 1]
    BY <1>3 DEF TypeOK, HandlerSucceeds, Goto, redisVars, Owns, Owning
  <2>2. \A v \in Slots : Owns(v, j)' => Owns(v, j)
    BY <1>3, <1>v, <2>1 DEF ProcessJobs
  <2>3. CASE held[w].id = j
    <3>1. Owns(w, j)
      BY <2>1, <2>3 DEF Owns, Owning
    <3>2. ~HasCopy(j)'
      BY <1>e, <1>k, <1>m, <1>q, <2>1, <2>2, <3>1, OwnedAlone
    <3> QED
      BY <1>e, <1>q, <2>1, <2>2, <3>2, CopiesShrink
  <2>4. CASE held[w].id # j
    <3>1. effects'[j] = effects[j]
      BY <2>1, <2>4 DEF TypeOK
    <3>2. Settled(j)' <=> Settled(j)
      BY <2>1, <3>1 DEF Settled, IsBuried, Buried
    <3> QED
      BY <1>e, <1>k, <1>m, <1>o, <1>q, <2>1, <2>2, <3>2, CopiesShrink, CopyKinds
  <2> QED
    BY <2>3, <2>4
<1>4. ASSUME NEW w \in Slots, HandlerFails(w)
      PROVE  OneCopy(j)'
  <2>1. /\ UNCHANGED <<queues, delayed, deadLetter, effects>>
        /\ pc[w] = "executing" /\ held'[w] = MarkAsFailed(held[w])
    BY <1>4 DEF TypeOK, HandlerFails, redisVars, tallies
  <2>2. held'[w].id = held[w].id
    BY <1>h, <2>1, MarkTypes
  <2>3. Owns(w, j)' => Owns(w, j)
    BY <2>1, <2>2 DEF Owns, Owning
  <2> QED
    BY <1>4, <1>f, <1>v, <2>1, <2>3 DEF ProcessJobs
<1>5. ASSUME NEW w \in Slots,
             HandleJobSuccess(w) \/ UpdateFailedJob(w) \/ RecordHistory(w)
      PROVE  OneCopy(j)'
  <2>1. /\ UNCHANGED <<queues, delayed, deadLetter, effects>>
        /\ ~Owns(w, j)'
    BY <1>5
    DEF TypeOK, HandleJobSuccess, UpdateFailedJob, SaveOutcome, RecordHistory,
        Release, Goto, redisVars, tallies, Owns, Owning
  <2> QED
    BY <1>5, <1>f, <1>v, <2>1 DEF ProcessJobs
<1>6. ASSUME NEW w \in Slots, RetryJob(w)
      PROVE  OneCopy(j)'
  <2> DEFINE job == MarkForRetry(held[w])
  <2>1. /\ UNCHANGED <<queues, deadLetter, effects>>
        /\ delayed' \subseteq delayed \cup {job}
        /\ ~Owns(w, j)' /\ pc[w] = "failed"
    BY <1>6 DEF TypeOK, RetryJob, EnqueueDelayed, Goto, tallies, Owns, Owning
  <2>2. job.id = held[w].id
    BY <1>h, <2>1, MarkTypes
  <2> HIDE DEF job
  <2>3. \A v \in Slots : Owns(v, j)' => Owns(v, j)
    BY <1>6, <1>v, <2>1 DEF ProcessJobs
  <2>4. \A m : Delays(m, j)' => Delays(m, j) \/ (m = job /\ job.id = j)
    BY <1>m, <2>1 DEF Delays, Unpushed
  <2>5. CASE held[w].id = j
    <3>1. Owns(w, j)
      BY <2>1, <2>5 DEF Owns, Owning
    <3>2. /\ ~OnList(j) /\ ~Settled(j) /\ \A m : ~Delays(m, j)
          /\ \A v \in Slots : Owns(v, j) => v = w
      BY <3>1, OwnedAlone
    <3> QED
      BY <1>d, <1>q, <2>1, <2>3, <2>4, <3>2 DEF OneCopy
  <2>6. CASE held[w].id # j
    BY <1>d, <1>k, <1>m, <1>o, <1>q, <2>1, <2>2, <2>3, <2>4, <2>6, CopiesShrink,
       CopyKinds
  <2> QED
    BY <2>5, <2>6
<1>7. ASSUME NEW w \in Slots, BuryJob(w)
      PROVE  OneCopy(j)'
  <2> DEFINE job == MarkAsDead(held[w])
  <2>1. PICK out \in PushOutcomes : MoveToDeadLetter(job, out)
    BY <1>7 DEF BuryJob
  <2>2. /\ UNCHANGED <<queues, delayed, effects>>
        /\ ~Owns(w, j)' /\ pc[w] = "failed"
    BY <1>7 DEF TypeOK, BuryJob, MoveToDeadLetter, Goto, tallies, Owns, Owning
  <2>3. job \in Job /\ job.id = held[w].id
    BY <1>h, <2>2, MarkTypes
  <2> HIDE DEF job
  <2>4. \A v \in Slots : Owns(v, j)' => Owns(v, j)
    BY <1>7, <1>v, <2>2 DEF ProcessJobs
  <2>5. CASE held[w].id = j
    <3>1. Owns(w, j)
      BY <2>2, <2>5 DEF Owns, Owning
    <3>2. ~HasCopy(j)'
      BY <1>e, <1>k, <1>m, <1>q, <2>2, <2>4, <3>1, OwnedAlone
    <3> QED
      BY <1>e, <1>q, <2>2, <2>4, <3>2, CopiesShrink
  <2>6. CASE held[w].id # j
    <3>1. Buried' \subseteq Buried \cup {job}
      BY <2>1, <2>3, RangePushed DEF TypeOK, RedisTypeOK, MoveToDeadLetter, Buried
    <3>2. Settled(j)' => Settled(j)
      BY <2>2, <2>3, <2>6, <3>1 DEF Settled, IsBuried
    <3> QED
      BY <1>e, <1>k, <1>m, <1>o, <1>q, <2>2, <2>4, <3>2, CopiesShrink, CopyKinds
  <2> QED
    BY <2>5, <2>6
<1>8. ASSUME NEW p \in Workers, EndWorker(p)
      PROVE  OneCopy(j)'
  <2>1. /\ UNCHANGED <<queues, delayed, deadLetter, effects>>
        /\ \A w \in Slots : \/ pc'[w] = "idle"
                            \/ pc'[w] = pc[w] /\ held'[w] = held[w]
    BY <1>8 DEF EndWorker, redisVars, tallies
  <2> QED
    BY <1>f, <2>1 DEF Owns, Owning
<1> QED
  BY <1>1, <1>2, <1>3, <1>4, <1>5, <1>6, <1>7, <1>8 DEF ProcessJobs

\* Every job that no fault has doubled has one copy at most.
CopiesSingle == \A j \in Jobs : "dup" \notin damage[j] => OneCopy(j)

\* Every step keeps it so.
LEMMA CopiesSinglePreserved ==
  ASSUME OneScheduler, TypeOK, AttemptsCounted, RequestsApart,
         PromotionInOrder, CopiesSingle, [Next]_vars
  PROVE  CopiesSingle'
<1> SUFFICES ASSUME NEW j \in Jobs, "dup" \notin damage'[j]
             PROVE  OneCopy(j)'
  BY DEF CopiesSingle
<1>1. OneCopy(j)
  BY Kept DEF CopiesSingle
<1>2. CASE Ripen \/ (\E p \in Processes : Shutdown(p)) \/ UNCHANGED vars
  <2>1. UNCHANGED <<inflight, queues, delayed, deadLetter, moving, pc, held,
                    effects>>
    BY <1>2
    DEF Ripen, TimePasses, Shutdown, vars, redisVars, schedulerVars,
        promoterVars, workerVars, tallies
  <2> QED
    BY <1>1, <2>1
    DEF OneCopy, ListOnce, Delays, Unpushed, Owns, OnList, Queued, Settled,
        IsBuried, Buried, HasCopy
<1> QED
  BY <1>1, <1>2, SchedulerKeepsOneCopy, WorkerKeepsOneCopy
  DEF Next, Request, ExitScheduler, CrashScheduler, ExitWorker, CrashWorker

\* In every reachable state, with one scheduler process, requests, promotion
\* and copies are in order.
THEOREM CopiesInOrder ==
  ASSUME OneScheduler
  PROVE  Spec => [](PromotionInOrder /\ CopiesSingle)
<1>1. Init => PromotionInOrder /\ CopiesSingle
  <2> SUFFICES ASSUME Init PROVE PromotionInOrder /\ CopiesSingle
    OBVIOUS
  <2>1. Queued = {} /\ Buried = {}
    BY DEF Init, RedisInit, Queued, Buried, Range
  <2>2. ASSUME NEW j \in Jobs
        PROVE  OneCopy(j)
    <3>1. ~OnList(j) /\ (\A m : ~Delays(m, j)) /\ \A w \in Slots : ~Owns(w, j)
      BY <2>1 DEF Init, RedisInit, OnList, Delays, Owns, Owning
    <3>2. ListOnce(j)
      BY DEF Init, RedisInit, ListOnce
    <3>3. ~Settled(j)
      BY <2>1 DEF Init, Settled, IsBuried
    <3> QED
      BY <3>1, <3>2, <3>3 DEF OneCopy
  <2> QED
    BY <2>2 DEF Init, PromotionInOrder, CopiesSingle
<1>2. /\ TypeOK /\ AttemptsCounted /\ RequestsApart
      /\ PromotionInOrder /\ CopiesSingle /\ [Next]_vars
      => PromotionInOrder' /\ CopiesSingle'
  BY PromotionPreserved, CopiesSinglePreserved
<1> QED
  BY <1>1, <1>2, TypeCorrect, LedgerCorrect, RunsInOrder, PTL DEF Spec

\* One copy is one place.
LEMMA PlacesOfOneCopy ==
  ASSUME RequestsApart, NEW j \in Jobs, OneCopy(j), NEW a \in Places(j),
         NEW b \in Places(j)
  PROVE  a = b
<1>1. ASSUME NEW x, x \in RequestPlaces(j)
      PROVE  \E s \in Schedulers : /\ x = <<"request", s>>
                                   /\ \E m \in inflight[s] : m.id = j
  BY <1>1, Zenon DEF RequestPlaces
<1>2. ASSUME NEW x, x \in QueuePlaces(j)
      PROVE  \E p \in Priorities : \E i \in DOMAIN queues[p] :
               x = <<"queue", p, i>> /\ queues[p][i].id = j
  <2>1. PICK p \in Priorities : x \in ListPlaces(j, p)
    BY <1>2, Zenon DEF QueuePlaces
  <2> QED
    BY <2>1, Zenon DEF ListPlaces
<1>3. ASSUME NEW x, x \in DelayedPlaces(j)
      PROVE  \E m : x = <<"delayed", m>> /\ Delays(m, j)
  BY <1>3, Zenon DEF DelayedPlaces, Delays
<1>4. ASSUME NEW x, x \in SlotPlaces(j)
      PROVE  \E w \in Slots : x = <<"slot", w>> /\ Owns(w, j)
  BY <1>4, Zenon DEF SlotPlaces, Owns
<1>5. \A x : /\ x \in RequestPlaces(j) => InRequest(j)
             /\ x \in QueuePlaces(j) => OnList(j)
             /\ x \in DelayedPlaces(j) => \E m : Delays(m, j)
             /\ x \in SlotPlaces(j) => \E w \in Slots : Owns(w, j)
  <2>1. \A p \in Priorities : \A i \in DOMAIN queues[p] :
          queues[p][i].id = j => OnList(j)
    BY DEF OnList, Queued, Range
  <2>2. \A x : x \in RequestPlaces(j) => InRequest(j)
    BY <1>1 DEF InRequest
  <2> QED
    BY <1>2, <1>3, <1>4, <2>1, <2>2
<1>6. \/ a \in RequestPlaces(j) /\ b \in RequestPlaces(j)
      \/ a \in QueuePlaces(j) /\ b \in QueuePlaces(j)
      \/ a \in DelayedPlaces(j) /\ b \in DelayedPlaces(j)
      \/ a \in SlotPlaces(j) /\ b \in SlotPlaces(j)
  <2>1. ASSUME NEW x \in Places(j)
        PROVE  \/ x \in RequestPlaces(j) \/ x \in QueuePlaces(j)
               \/ x \in DelayedPlaces(j) \/ x \in SlotPlaces(j)
    BY DEF Places
  <2>2. InRequest(j) => /\ ~OnList(j) /\ \A m : ~Delays(m, j)
                        /\ \A w \in Slots : ~Owns(w, j)
    BY RequestedAlone
  <2> QED
    BY <1>5, <2>1, <2>2 DEF OneCopy
<1>7. CASE a \in RequestPlaces(j) /\ b \in RequestPlaces(j)
  <2>1. PICK s \in Schedulers : /\ a = <<"request", s>>
                                /\ \E m \in inflight[s] : m.id = j
    BY <1>1, <1>7
  <2>2. PICK t \in Schedulers : /\ b = <<"request", t>>
                                /\ \E m \in inflight[t] : m.id = j
    BY <1>1, <1>7
  <2>3. s = t
    BY <2>1, <2>2 DEF RequestsApart
  <2> QED
    BY <2>1, <2>2, <2>3
<1>8. CASE a \in QueuePlaces(j) /\ b \in QueuePlaces(j)
  <2>1. PICK p \in Priorities : \E i \in DOMAIN queues[p] :
          a = <<"queue", p, i>> /\ queues[p][i].id = j
    BY <1>2, <1>8
  <2>2. PICK i \in DOMAIN queues[p] :
          a = <<"queue", p, i>> /\ queues[p][i].id = j
    BY <2>1
  <2>3. PICK q \in Priorities : \E k \in DOMAIN queues[q] :
          b = <<"queue", q, k>> /\ queues[q][k].id = j
    BY <1>2, <1>8
  <2>4. PICK k \in DOMAIN queues[q] :
          b = <<"queue", q, k>> /\ queues[q][k].id = j
    BY <2>3
  <2>5. p = q /\ i = k
    BY <2>2, <2>4 DEF OneCopy, ListOnce
  <2> QED
    BY <2>2, <2>4, <2>5
<1>9. CASE a \in DelayedPlaces(j) /\ b \in DelayedPlaces(j)
  <2>1. PICK m : a = <<"delayed", m>> /\ Delays(m, j)
    BY <1>3, <1>9
  <2>2. PICK n : b = <<"delayed", n>> /\ Delays(n, j)
    BY <1>3, <1>9
  <2>3. m = n
    BY <2>1, <2>2 DEF OneCopy
  <2> QED
    BY <2>1, <2>2, <2>3
<1>10. CASE a \in SlotPlaces(j) /\ b \in SlotPlaces(j)
  <2>1. PICK v \in Slots : a = <<"slot", v>> /\ Owns(v, j)
    BY <1>4, <1>10
  <2>2. PICK w \in Slots : b = <<"slot", w>> /\ Owns(w, j)
    BY <1>4, <1>10
  <2>3. v = w
    BY <2>1, <2>2 DEF OneCopy
  <2> QED
    BY <2>1, <2>2, <2>3
<1> QED
  BY <1>6, <1>7, <1>8, <1>9, <1>10

(***************************************************************************)
(* With one scheduler process a job has one copy at most, and none once it *)
(* is done with: ProcessDelayedJobs pushes before it removes, but what it  *)
(* has pushed it removes before it reads again, unless a ZREM fails, the   *)
(* answer to a push is lost or the process dies in between ("dup").        *)
(***************************************************************************)
THEOREM JobsHaveOneCopy ==
  ASSUME OneScheduler
  PROVE  Spec => []SingleCopy
<1>1. RequestsApart /\ CopiesSingle => SingleCopy
  <2> SUFFICES ASSUME RequestsApart, CopiesSingle, NEW j \in Jobs,
                      "dup" \notin damage[j]
               PROVE  /\ \A a, b \in Places(j) : a = b
                      /\ Settled(j) => Places(j) = {}
    BY DEF SingleCopy
  <2>1. OneCopy(j)
    BY DEF CopiesSingle
  <2>2. Settled(j) => Places(j) = {}
    BY <2>1, PlacesOfCopies DEF OneCopy
  <2> QED
    BY <2>1, <2>2, PlacesOfOneCopy
<1> QED
  BY <1>1, CopiesInOrder, RunsInOrder, PTL

(***************************************************************************)
(* With one scheduler process a job's handler succeeds at most once, and a *)
(* job whose handler has succeeded is never a dead letter as well: both    *)
(* happen only in the hands of the goroutine that has the only copy.       *)
(***************************************************************************)
THEOREM JobsHandledOnce ==
  ASSUME OneScheduler
  PROVE  Spec => []HandledOnce
<1>1. Init => HandledOnce
  BY DEF Init, HandledOnce
<1>2. TypeOK /\ RequestsApart /\ CopiesSingle /\ HandledOnce /\ [Next]_vars
      => HandledOnce'
  <2> SUFFICES ASSUME TypeOK, RequestsApart, CopiesSingle, HandledOnce,
                      [Next]_vars, NEW j \in Jobs, "dup" \notin damage'[j]
               PROVE  effects'[j] <= 1 /\ ~(effects'[j] = 1 /\ IsBuried(j)')
    BY DEF HandledOnce
  <2>1. /\ OneCopy(j) /\ effects[j] <= 1 /\ ~(effects[j] = 1 /\ IsBuried(j))
        /\ effects[j] \in Nat
    BY Kept DEF CopiesSingle, HandledOnce, TypeOK
  <2>2. ASSUME NEW w \in Slots, Owns(w, j)
        PROVE  effects[j] = 0 /\ ~IsBuried(j)
    BY <2>1, <2>2, OwnedAlone DEF Settled
  <2>3. ASSUME NEW w \in Slots, HandlerSucceeds(w)
        PROVE  effects'[j] <= 1 /\ ~(effects'[j] = 1 /\ IsBuried(j)')
    <3>1. /\ IsBuried(j)' <=> IsBuried(j)
          /\ pc[w] = "executing"
          /\ effects' = [effects EXCEPT ![held[w].id] = effects[held[w].id] + 1]
      BY <2>3 DEF HandlerSucceeds, redisVars, IsBuried, Buried
    <3>2. CASE held[w].id = j
      <4>1. Owns(w, j)
        BY <3>1, <3>2 DEF Owns, Owning
      <4>2. effects'[j] = effects[j] + 1
        BY <3>1, <3>2 DEF TypeOK
      <4> QED
        BY <2>2, <3>1, <4>1, <4>2
    <3>3. CASE held[w].id # j
      BY <2>1, <3>1, <3>3 DEF TypeOK
    <3> QED
      BY <3>2, <3>3
  <2>4. ASSUME \A w \in Slots : ~HandlerSucceeds(w)
        PROVE  effects'[j] <= 1 /\ ~(effects'[j] = 1 /\ IsBuried(j)')
    <3>1. effects' = effects
      BY <2>4, TalliesChange
    <3>2. ASSUME IsBuried(j)', effects[j] = 1
          PROVE  FALSE
      <4>1. Settled(j)'
        BY <3>2 DEF Settled
      <4>2. PICK m \in Buried' : m.id = j
        BY <3>2 DEF IsBuried
      <4>3. m \notin Buried
        BY <2>1, <3>2, <4>2 DEF IsBuried
      <4>4. PICK w \in Slots : BuryJob(w) /\ m = MarkAsDead(held[w])
        BY <4>2, <4>3, BuriedOrigin
      <4>5. pc[w] = "failed" /\ held[w] \in Job
        BY <4>4 DEF BuryJob, TypeOK
      <4>6. Owns(w, j)
        BY <4>2, <4>4, <4>5, MarkTypes DEF Owns, Owning
      <4> QED
        BY <2>2, <3>2, <4>6
    <3> QED
      BY <2>1, <3>1, <3>2
  <2> QED
    BY <2>3, <2>4
<1> QED
  BY <1>1, <1>2, TypeCorrect, RunsInOrder, CopiesInOrder, PTL DEF Spec

(***************************************************************************)
(* With one scheduler process no ProcessJob starts on a job that is done   *)
(* with: whoever is about to start it has its only copy.                   *)
(***************************************************************************)
THEOREM DoneIsDone ==
  ASSUME OneScheduler
  PROVE  Spec => NoRunAfterSettled
<1>1. TypeOK /\ RequestsApart /\ CopiesSingle /\ [Next]_vars
      => [\A j \in Jobs : Settled(j) /\ "dup" \notin damage[j]
                            => starts'[j] = starts[j]]_vars
  <2> SUFFICES ASSUME TypeOK, RequestsApart, CopiesSingle, [Next]_vars,
                      NEW j \in Jobs, Settled(j), "dup" \notin damage[j]
               PROVE  starts'[j] = starts[j]
    OBVIOUS
  <2>1. ASSUME NEW w \in Slots, StartJob(w)
        PROVE  starts'[j] = starts[j]
    <3>1. /\ pc[w] = "dequeued"
          /\ starts' = [starts EXCEPT ![held[w].id] = starts[held[w].id] + 1]
      BY <2>1, StartStep
    <3>2. ~Owns(w, j)
      BY OwnedAlone DEF CopiesSingle
    <3>3. held[w].id # j
      BY <3>1, <3>2 DEF Owns, Owning
    <3> QED
      BY <3>1, <3>3 DEF TypeOK
  <2> QED
    BY <2>1, TalliesChange
<1> QED
  BY <1>1, TypeCorrect, RunsInOrder, CopiesInOrder, PTL
  DEF Spec, NoRunAfterSettled

-----------------------------------------------------------------------------
(***************************************************************************)
(* The retry budget.                                                       *)
(***************************************************************************)

\* A message of a job that is to be run: all runs are counted in it, and
\* there is one left.
Due(m) ==
  /\ m.attempts - submitted[m.id].attempts = starts[m.id]
  /\ starts[m.id] = 0 \/ m.attempts < m.max

\* The message is one copy of the job that waits to be run.
ToRun(m) ==
  \/ \E s \in Schedulers : m \in inflight[s]
  \/ m \in Queued
  \/ m \in delayed /\ Unpushed(m)
  \/ \E w \in Slots : pc[w] = "dequeued" /\ m = held[w]

(***************************************************************************)
(* The count inside a job that no fault has doubled is exact, at every     *)
(* step of its way: AttemptsCounted with equalities.                       *)
(***************************************************************************)
CountsExact ==
  \A j \in Jobs : "dup" \notin damage[j] =>
    /\ submitted[j] = NoJob => starts[j] = 0
    /\ \A m : ToRun(m) /\ m.id = j => Due(m)
    /\ \A w \in Slots : held[w].id = j =>
         /\ pc[w] = "executing" =>
              held[w].attempts - submitted[j].attempts + 1 = starts[j]
         /\ pc[w] = "failed" =>
              held[w].attempts - submitted[j].attempts = starts[j]

\* What has been pushed counts as delayed again only where it is a duplicate.
LEMMA UnpushedAgain ==
  ASSUME OneScheduler, TypeOK, PromotionInOrder, [Next]_vars, NEW m \in delayed',
         m \in Job, "dup" \notin damage'[m.id], Unpushed(m)'
  PROVE  Unpushed(m)
<1>t. /\ moving \in [Schedulers -> SUBSET Job]
      /\ \A s \in Schedulers : batch[s] \subseteq Job
      /\ \A job \in Job : job.id \in Jobs
  BY DEF TypeOK, Job
<1>1. CASE UNCHANGED <<batch, moving>>
  BY <1>1 DEF Unpushed
<1>2. ASSUME NEW s \in Schedulers, ReadRipe(s)
      PROVE  Unpushed(m)
  BY <1>2 DEF ReadRipe, Unpushed
<1>3. ASSUME NEW s \in Schedulers, NEW job \in batch[s], PushRipe(s, job)
      PROVE  Unpushed(m)
  <2>1. moving[s] = {} /\ \A u \in Schedulers : u # s => moving'[u] = moving[u]
    BY <1>3, <1>t DEF PushRipe
  <2> QED
    BY <2>1 DEF Unpushed
<1>4. ASSUME NEW s \in Schedulers, NEW job \in moving[s], RemoveRipe(s, job)
      PROVE  Unpushed(m)
  <2>1. PICK out \in Outcomes : /\ Call(Live(s), job.id, out, {"dup"}, {})
                                /\ RemoveDelayed(job, out)
    BY <1>4 DEF RemoveRipe
  <2>2. \A n \in moving[s] : n = job
    BY DEF PromotionInOrder
  <2>3. m # job
    <3>1. CASE out = "failed"
      <4>1. job.id \in Jobs
        BY <1>t
      <4>2. damage'[job.id] = damage[job.id] \cup Harm(out, {"dup"}, {})
        BY <2>1, <4>1, CallHarm
      <4> QED
        BY <3>1, <4>2 DEF Harm
    <3>2. CASE out # "failed"
      BY <2>1, <3>2 DEF RemoveDelayed, Applied
    <3> QED
      BY <3>1, <3>2
  <2> QED
    BY <2>2, <2>3 DEF OneScheduler, Unpushed
<1>5. ASSUME NEW s \in Schedulers, EndScheduler(s)
      PROVE  Unpushed(m)
  <2>1. m.id \in Jobs
    BY <1>t
  <2>2. \A n \in moving[s] : n.id # m.id
    BY <1>5, <2>1 DEF EndScheduler
  <2> QED
    BY <2>2 DEF OneScheduler, Unpushed
<1> QED
  BY <1>1, <1>2, <1>3, <1>4, <1>5, PromoterChange

\* What waits to be run did so before, is a new job or a retry.
LEMMA ToRunFlow ==
  ASSUME OneScheduler, TypeOK, PromotionInOrder, [Next]_vars, NEW m, ToRun(m)',
         "dup" \notin damage'[m.id]
  PROVE  \/ ToRun(m)
         \/ \E s \in Schedulers, j \in Jobs, req \in Requests :
              ScheduleJob(s, j, req) /\ m = NewJob(j, req)
         \/ \E w \in Slots : RetryJob(w) /\ m = MarkForRetry(held[w])
<1>1. ASSUME NEW s \in Schedulers, m \in inflight'[s]
      PROVE  \/ ToRun(m)
             \/ \E j \in Jobs, req \in Requests :
                  ScheduleJob(s, j, req) /\ m = NewJob(j, req)
  BY <1>1, RequestFlow DEF ToRun
<1>2. CASE m \in Queued'
  <2>1. ASSUME NEW s \in Schedulers, m \in batch[s], PushRipe(s, m)
        PROVE  ToRun(m)
    <3>1. m \in delayed /\ moving[s] = {}
      BY <2>1 DEF PromotionInOrder, PushRipe
    <3> QED
      BY <3>1 DEF ToRun, OneScheduler, Unpushed
  <2> QED
    BY <1>2, <2>1, QueueFlow DEF ToRun
<1>3. CASE m \in delayed' /\ Unpushed(m)'
  <2>1. ASSUME m \in delayed
        PROVE  ToRun(m)
    <3>1. m \in Job
      BY <2>1 DEF TypeOK, RedisTypeOK
    <3> QED
      BY <1>3, <2>1, <3>1, UnpushedAgain DEF ToRun
  <2> QED
    BY <1>3, <2>1, DelayedFlow DEF ToRun
<1>4. ASSUME NEW w \in Slots, pc'[w] = "dequeued", m = held'[w]
      PROVE  ToRun(m)
  <2>1. CASE pc'[w] = pc[w] /\ held'[w] = held[w]
    BY <1>4, <2>1 DEF ToRun
  <2>2. CASE ProcessJobs(w)
    <3>1. ProcessNextJob(w)
      BY <1>4, <2>2
      DEF TypeOK, ProcessJobs, StartJob, HandlerSucceeds, HandlerFails,
          HandleJobSuccess, SaveOutcome, RetryJob, BuryJob, UpdateFailedJob,
          RecordHistory, Goto, Release
    <3>2. pc[w] = "idle"
      BY <3>1 DEF ProcessNextJob
    <3> QED
      BY <1>4, <3>2, HeldFlow DEF ToRun
  <2> QED
    BY <1>4, <2>1, <2>2, SlotOrigin
<1> QED
  BY <1>1, <1>2, <1>3, <1>4 DEF ToRun

\* A run of a job begins in the hands of the goroutine that has it.
LEMMA StartOrigin ==
  ASSUME TypeOK, [Next]_vars, NEW j \in Jobs, starts'[j] # starts[j]
  PROVE  \E w \in Slots : /\ StartJob(w) /\ pc[w] = "dequeued" /\ Owns(w, j)
                          /\ starts'[j] = starts[j] + 1
<1>1. PICK w \in Slots : StartJob(w)
  BY TalliesChange
<1>2. /\ pc[w] = "dequeued"
      /\ starts' = [starts EXCEPT ![held[w].id] = starts[held[w].id] + 1]
  BY <1>1, StartStep
<1>3. held[w].id = j
  BY <1>2 DEF TypeOK
<1> QED
  BY <1>1, <1>2, <1>3 DEF TypeOK, Owns, Owning

\* Messages that wait to be run are jobs.
LEMMA ToRunMessages ==
  ASSUME TypeOK, NEW m, ToRun(m)
  PROVE  m \in Messages /\ m \in Job /\ m.id \in Jobs
<1>1. m \in Messages
  <2>1. ASSUME NEW s \in Schedulers, m \in inflight[s]
        PROVE  m \in Messages
    BY <2>1, ReleasedMembers
  <2>2. CASE m \in Queued \/ m \in delayed
    BY <2>2 DEF Messages
  <2>3. ASSUME NEW w \in Slots, pc[w] = "dequeued", m = held[w]
        PROVE  m \in Messages
    <3>1. m \in Released
      BY <2>3, ReleasedMembers
    <3> QED
      BY <3>1, ReleasedMembers
  <2> QED
    BY <2>1, <2>2, <2>3 DEF ToRun
<1> QED
  BY <1>1, MessageType

\* Every step keeps the counts exact.
LEMMA CountsExactPreserved ==
  ASSUME OneScheduler, TypeOK, AttemptsCounted, RequestsApart,
         PromotionInOrder, CopiesSingle, CountsExact, [Next]_vars
  PROVE  CountsExact'
<1> SUFFICES ASSUME NEW j \in Jobs, "dup" \notin damage'[j]
             PROVE  /\ submitted'[j] = NoJob => starts'[j] = 0
                    /\ \A m : ToRun(m)' /\ m.id = j => Due(m)'
                    /\ \A w \in Slots : held'[w].id = j =>
                         /\ pc'[w] = "executing" =>
                              held'[w].attempts - submitted'[j].attempts + 1
                                = starts'[j]
                         /\ pc'[w] = "failed" =>
                              held'[w].attempts - submitted'[j].attempts
                                = starts'[j]
  BY DEF CountsExact
<1>j. /\ "dup" \notin damage[j] /\ OneCopy(j)
      /\ submitted[j] # NoJob => submitted'[j] = submitted[j]
      /\ starts[j] \in Nat
  BY Kept DEF CopiesSingle, TypeOK
<1>c. /\ submitted[j] = NoJob => starts[j] = 0
      /\ \A m : ToRun(m) /\ m.id = j => Due(m)
      /\ \A w \in Slots : held[w].id = j =>
           /\ pc[w] = "executing" =>
                held[w].attempts - submitted[j].attempts + 1 = starts[j]
           /\ pc[w] = "failed" =>
                held[w].attempts - submitted[j].attempts = starts[j]
  BY <1>j DEF CountsExact
<1>h. ASSUME NEW w \in Slots, pc[w] # "idle"
      PROVE  /\ held[w] \in Job /\ held[w] \in Messages
             /\ submitted[held[w].id] # NoJob
             /\ held[w].max = submitted[held[w].id].max
  <2>1. held[w] \in Released
    BY <1>h, ReleasedMembers
  <2>2. held[w] \in Messages
    BY <2>1, ReleasedMembers
  <2> QED
    BY <1>h, <2>2 DEF AttemptsCounted, TypeOK
<1>i. submitted[j] # NoJob => submitted[j].attempts \in Int
  BY DEF TypeOK, Job
<1>1. submitted'[j] = NoJob => starts'[j] = 0
  <2>1. ASSUME starts'[j] # starts[j]
        PROVE  submitted[j] # NoJob
    <3>1. PICK w \in Slots : pc[w] = "dequeued" /\ Owns(w, j)
      BY <2>1, StartOrigin
    <3> QED
      BY <3>1, <1>h DEF Owns
  <2> QED
    BY <2>1, <1>c, <1>j
<1>2. ASSUME NEW m, ToRun(m)', m.id = j
      PROVE  Due(m)'
  <2>1. starts'[j] = starts[j]
    <3>1. SUFFICES ASSUME starts'[j] # starts[j]
                   PROVE  FALSE
      OBVIOUS
    <3>2. PICK w \in Slots : StartJob(w) /\ pc[w] = "dequeued" /\ Owns(w, j)
      BY <3>1, StartOrigin
    <3>3. /\ ~InRequest(j) /\ ~OnList(j) /\ \A n : ~Delays(n, j)
          /\ \A v \in Slots : Owns(v, j) => v = w
      BY <1>j, <3>2, OwnedAlone
    <3>4. /\ UNCHANGED <<inflight, queues, delayed, moving>>
          /\ pc'[w] # "dequeued"
          /\ \A v \in Slots : v # w => pc'[v] = pc[v] /\ held'[v] = held[v]
      BY <3>2
      DEF TypeOK, StartJob, Goto, Release, redisVars, schedulerVars, promoterVars
    <3>5. \A v \in Slots : ~(pc'[v] = "dequeued" /\ m = held'[v])
      BY <1>2, <3>3, <3>4 DEF Owns, Owning
    <3>6. /\ \A s \in Schedulers : m \notin inflight'[s]
          /\ m \notin Queued'
          /\ ~(m \in delayed' /\ Unpushed(m)')
      BY <1>2, <3>3, <3>4 DEF InRequest, OnList, Queued, Delays, Unpushed
    <3> QED
      BY <1>2, <3>5, <3>6 DEF ToRun
  <2>2. CASE ToRun(m)
    <3>1. submitted[j] # NoJob
      BY <1>2, <2>2, ToRunMessages DEF AttemptsCounted
    <3> QED
      BY <1>2, <1>c, <1>j, <2>1, <2>2, <3>1 DEF Due
  <2>3. ASSUME NEW s \in Schedulers, NEW i \in Jobs, NEW req \in Requests,
               ScheduleJob(s, i, req), m = NewJob(i, req)
        PROVE  Due(m)'
    <3>1. i = j
      BY <1>2, <2>3 DEF NewJob
    <3>2. submitted[j] = NoJob /\ submitted'[j] = m
      BY <2>3, <3>1 DEF ScheduleJob, TypeOK
    <3>3. m.attempts \in Int
      BY <2>3, NewJobType DEF Job
    <3>4. m.attempts - m.attempts = 0
      BY <3>3
    <3> QED
      BY <1>2, <1>c, <2>1, <3>2, <3>4 DEF Due
  <2>4. ASSUME NEW w \in Slots, RetryJob(w), m = MarkForRetry(held[w])
        PROVE  Due(m)'
    <3>1. pc[w] = "failed" /\ CanRetry(held[w]) /\ held[w] \in Job
      BY <2>4, <1>h DEF RetryJob
    <3>2. /\ m.id = held[w].id /\ m.attempts = held[w].attempts
          /\ m.max = held[w].max /\ held[w].attempts \in Int
          /\ held[w].max \in Int
      <4>1. 1 \in Nat
        OBVIOUS
      <4> QED
        BY <2>4, <3>1, <4>1, MarkTypes, MarkAttempts DEF Job
    <3>3. m.attempts < m.max
      BY <3>1, <3>2 DEF CanRetry, AttemptsLeft
    <3>4. /\ held[w].attempts - submitted[j].attempts = starts[j]
          /\ submitted'[j] = submitted[j]
      BY <1>2, <1>c, <1>h, <1>j, <3>1, <3>2
    <3> QED
      BY <1>2, <2>1, <3>2, <3>3, <3>4 DEF Due
  <2> QED
    BY <1>2, <2>2, <2>3, <2>4, ToRunFlow
<1>3. ASSUME NEW w \in Slots, held'[w].id = j, pc'[w] = "executing"
      PROVE  held'[w].attempts - submitted'[j].attempts + 1 = starts'[j]
  <2>1. CASE StartJob(w)
    <3>1. /\ pc[w] = "dequeued" /\ held[w].id = j
          /\ held'[w].attempts = held[w].attempts
          /\ starts'[j] = starts[j] + 1
      BY <1>3, <2>1, StartStep DEF TypeOK
    <3>2. Due(held[w]) /\ submitted'[j] = submitted[j]
      BY <1>c, <1>h, <1>j, <3>1 DEF ToRun
    <3> QED
      BY <3>1, <3>2 DEF Due
  <2>2. CASE pc'[w] = pc[w] /\ held'[w] = held[w]
    <3>1. Owns(w, j)
      BY <1>3, <2>2 DEF Owns, Owning
    <3>2. starts'[j] = starts[j]
      BY <1>3, <1>j, <2>2, <3>1, StartOrigin, OwnedAlone
    <3> QED
      BY <1>3, <1>c, <1>h, <1>j, <2>2, <3>2
  <2>3. CASE ProcessJobs(w) /\ ~StartJob(w)
    BY <1>3, <2>3
    DEF TypeOK, ProcessJobs, ProcessNextJob, HandlerSucceeds, HandlerFails,
        HandleJobSuccess, SaveOutcome, RetryJob, BuryJob, UpdateFailedJob,
        RecordHistory, Goto, Release
  <2> QED
    BY <1>3, <2>1, <2>2, <2>3, SlotOrigin
<1>4. ASSUME NEW w \in Slots, held'[w].id = j, pc'[w] = "failed"
      PROVE  held'[w].attempts - submitted'[j].attempts = starts'[j]
  <2>1. CASE HandlerFails(w)
    <3>1. /\ pc[w] = "executing" /\ held'[w] = MarkAsFailed(held[w])
          /\ starts' = starts
      BY <2>1 DEF TypeOK, HandlerFails, tallies
    <3>2. /\ held'[w].attempts = held[w].attempts + 1
          /\ held[w].id = j /\ held[w].attempts \in Int
      <4>1. 1 \in Nat
        OBVIOUS
      <4> QED
        BY <1>4, <1>h, <3>1, <4>1, MarkTypes, MarkAttempts DEF Job
    <3>3. /\ held[w].attempts - submitted[j].attempts + 1 = starts[j]
          /\ submitted'[j] = submitted[j] /\ submitted[j].attempts \in Int
      BY <1>c, <1>h, <1>i, <1>j, <3>1, <3>2
    <3> QED
      BY <3>1, <3>2, <3>3
  <2>2. CASE pc'[w] = pc[w] /\ held'[w] = held[w]
    <3>1. Owns(w, j)
      BY <1>4, <2>2 DEF Owns, Owning
    <3>2. starts'[j] = starts[j]
      BY <1>4, <1>j, <2>2, <3>1, StartOrigin, OwnedAlone
    <3> QED
      BY <1>4, <1>c, <1>h, <1>j, <2>2, <3>2
  <2>3. CASE ProcessJobs(w) /\ ~HandlerFails(w)
    BY <1>4, <2>3
    DEF TypeOK, ProcessJobs, ProcessNextJob, HandlerSucceeds, StartJob,
        HandleJobSuccess, SaveOutcome, RetryJob, BuryJob, UpdateFailedJob,
        RecordHistory, Goto, Release
  <2> QED
    BY <1>4, <2>1, <2>2, <2>3, SlotOrigin
<1> QED
  BY <1>1, <1>2, <1>3, <1>4

\* In every reachable state, with one scheduler process, counts are exact.
THEOREM CountsInOrder ==
  ASSUME OneScheduler
  PROVE  Spec => []CountsExact
<1>1. Init => CountsExact
  <2> SUFFICES ASSUME Init PROVE CountsExact
    OBVIOUS
  <2>1. Queued = {}
    BY DEF Init, RedisInit, Queued, Range
  <2> QED
    BY <2>1 DEF Init, RedisInit, CountsExact, ToRun
<1>2. /\ TypeOK /\ AttemptsCounted /\ RequestsApart /\ PromotionInOrder
      /\ CopiesSingle /\ CountsExact /\ [Next]_vars
      => CountsExact'
  BY CountsExactPreserved
<1> QED
  BY <1>1, <1>2, TypeCorrect, LedgerCorrect, RunsInOrder, CopiesInOrder, PTL
  DEF Spec

(***************************************************************************)
(* With one scheduler process no job is run more often than its policy     *)
(* allows, through any calls that fail and any processes that die: the     *)
(* count that travels inside the job's only copy is exact, so CanRetry     *)
(* lets a job run again only while it has an attempt left.                 *)
(***************************************************************************)
THEOREM BudgetKept ==
  ASSUME OneScheduler
  PROVE  Spec => []AttemptBudget
<1>1. Init => AttemptBudget
  BY DEF Init, AttemptBudget
<1>2. TypeOK /\ AttemptsCounted /\ CountsExact /\ AttemptBudget /\ [Next]_vars
      => AttemptBudget'
  <2> SUFFICES ASSUME TypeOK, AttemptsCounted, CountsExact, AttemptBudget,
                      [Next]_vars, NEW j \in Jobs, submitted'[j] # NoJob,
                      "dup" \notin damage'[j]
               PROVE  starts'[j] <= Allowed(submitted'[j])
    BY DEF AttemptBudget
  <2>1. /\ "dup" \notin damage[j]
        /\ submitted[j] # NoJob => submitted'[j] = submitted[j]
        /\ starts[j] \in Nat
        /\ submitted'[j] \in Job
    BY Kept, TypesPreserved DEF TypeOK
  <2>2. submitted'[j].max \in Int /\ submitted'[j].attempts \in Int
    BY <2>1 DEF Job
  <2>3. CASE starts'[j] = starts[j]
    <3>1. CASE submitted[j] = NoJob
      <4>1. starts[j] = 0
        BY <2>1, <3>1 DEF CountsExact
      <4> QED
        BY <2>2, <2>3, <4>1 DEF Allowed, AttemptsLeft
    <3>2. CASE submitted[j] # NoJob
      BY <2>1, <2>3, <3>2 DEF AttemptBudget
    <3> QED
      BY <3>1, <3>2
  <2>4. CASE starts'[j] # starts[j]
    <3>1. PICK w \in Slots : /\ pc[w] = "dequeued" /\ Owns(w, j)
                             /\ starts'[j] = starts[j] + 1
      BY <2>4, StartOrigin
    <3>2. ToRun(held[w]) /\ held[w].id = j
      BY <3>1 DEF ToRun, Owns
    <3>3. Due(held[w]) /\ held[w] \in Messages /\ held[w] \in Job
      BY <2>1, <3>2, ToRunMessages DEF CountsExact
    <3>4. submitted'[j] = submitted[j] /\ held[w].max = submitted[j].max
      BY <2>1, <3>2, <3>3 DEF AttemptsCounted
    <3>5. held[w].attempts \in Int
      BY <3>3 DEF Job
    <3>6. /\ held[w].attempts - submitted[j].attempts = starts[j]
          /\ starts[j] = 0 \/ held[w].attempts < held[w].max
      BY <3>2, <3>3 DEF Due
    <3>7. starts[j] = 0 \/ starts[j] + 1 <= AttemptsLeft(submitted'[j])
      BY <2>1, <2>2, <3>4, <3>5, <3>6 DEF AttemptsLeft
    <3>8. AttemptsLeft(submitted'[j]) \in Int
      BY <2>2 DEF AttemptsLeft
    <3> QED
      BY <2>1, <3>1, <3>7, <3>8 DEF Allowed
  <2> QED
    BY <2>3, <2>4
<1> QED
  BY <1>1, <1>2, TypeCorrect, LedgerCorrect, CountsInOrder, PTL DEF Spec
==============================================================================
