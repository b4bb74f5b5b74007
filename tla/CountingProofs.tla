---------------------------- MODULE CountingProofs ---------------------------
(***************************************************************************)
(* Proofs about JobService that count things: the rows of a job's history, *)
(* the run that its row is from, the copies of one message and the answers *)
(* of GET /queues/stats.                                                   *)
(***************************************************************************)
EXTENDS SoleSchedulerProofs, QueueStats, FiniteSetTheorems

-----------------------------------------------------------------------------
(***************************************************************************)
(* The history of a job.                                                   *)
(***************************************************************************)

\* Goroutine w is in run r of the job.
Runs(w, j, r) == pc[w] \in InRun /\ held[w].id = j /\ held[w].run = r

(***************************************************************************)
(* Each run of the job that has begun is in its history, once and under    *)
(* the number of its attempt, or a goroutine is in it and has that number. *)
(***************************************************************************)
HistoryOf(j) ==
  /\ \A h \in history[j] : h.run >= 1 /\ h.attempt = submitted[j].attempts + h.run
  /\ \A g, h \in history[j] : g.run = h.run => g = h
  /\ \A w \in Slots : pc[w] \in InRun /\ held[w].id = j =>
       held[w].run >= 1 /\ attempt[w] = submitted[j].attempts + held[w].run
  /\ \A r \in 1 .. starts[j] : \/ \E h \in history[j] : h.run = r
                               \/ \E w \in Slots : Runs(w, j, r)

\* So it is for every job of which no fault has taken a copy or a record.
HistoryExact ==
  \A j \in Jobs : Saved(j) /\ damage[j] \subseteq {"stale"} => HistoryOf(j)

\* History rows are never deleted, and come from ProcessJob's last call.
LEMMA HistoryFlow ==
  ASSUME TypeOK, [Next]_vars, NEW j \in Jobs
  PROVE  /\ history[j] \subseteq history'[j]
         /\ \A h \in history'[j] : h \notin history[j] =>
              \E w \in Slots : /\ RecordHistory(w) /\ pc[w] = "record"
                               /\ held[w].id = j
                               /\ h = [run     |-> held[w].run,
                                       attempt |-> attempt[w],
                                       status  |-> HistoryStatus(held[w])]
<1>1. CASE history' = history
  BY <1>1
<1>2. ASSUME NEW w \in Slots, RecordHistory(w)
      PROVE  /\ history[j] \subseteq history'[j]
             /\ \A h \in history'[j] : h \notin history[j] =>
                  /\ pc[w] = "record" /\ held[w].id = j
                  /\ h = [run     |-> held[w].run,
                          attempt |-> attempt[w],
                          status  |-> HistoryStatus(held[w])]
  <2> DEFINE entry == [run     |-> held[w].run,
                       attempt |-> attempt[w],
                       status  |-> HistoryStatus(held[w])]
  <2>1. pc[w] = "record" /\ \E out \in Outcomes :
          SaveJobHistory(held[w].id, entry, out)
    BY <1>2 DEF RecordHistory
  <2> HIDE DEF entry
  <2>2. \/ history' = history
        \/ history' = [history EXCEPT ![held[w].id] = history[held[w].id] \cup {entry}]
    BY <2>1 DEF SaveJobHistory
  <2>3. /\ history[j] \subseteq history'[j]
        /\ \A h \in history'[j] : h \notin history[j] => held[w].id = j /\ h = entry
    BY <2>2 DEF TypeOK, StorageTypeOK
  <2> QED
    BY <2>1, <2>3 DEF entry
<1> QED
  BY <1>1, <1>2, TalliesChange

\* A run that nothing interrupts goes on until it is recorded.
LEMMA RunContinues ==
  ASSUME TypeOK, [Next]_vars, NEW w \in Slots, NEW j \in Jobs, NEW r,
         Runs(w, j, r), damage'[j] \subseteq {"stale"}
  PROVE  \/ Runs(w, j, r)'
         \/ \E h \in history'[j] : h.run = r
<1>h. /\ held[w] \in Job /\ held[w].id = j /\ held[w].run = r
      /\ pc[w] \in InRun /\ pc[w] # "idle"
  BY DEF TypeOK, Runs, InRun
<1>1. CASE RecordHistory(w)
  <2> DEFINE entry == [run     |-> held[w].run,
                       attempt |-> attempt[w],
                       status  |-> HistoryStatus(held[w])]
  <2>1. PICK out \in Outcomes :
          /\ Call(Live(ProcessOf(w)), held[w].id, out, {"gap"}, {})
          /\ SaveJobHistory(held[w].id, entry, out)
    BY <1>1 DEF RecordHistory
  <2>2. entry.run = r
    BY <1>h
  <2> HIDE DEF entry
  <2>3. damage'[j] = damage[j] \cup Harm(out, {"gap"}, {})
    BY <1>h, <2>1, CallHarm
  <2>4. out # "failed"
    BY <2>3 DEF Harm
  <2>5. history' = [history EXCEPT ![j] = history[j] \cup {entry}]
    BY <1>h, <2>1, <2>4 DEF SaveJobHistory, Applied
  <2>6. entry \in history'[j]
    BY <2>5 DEF TypeOK, StorageTypeOK
  <2> QED
    BY <2>2, <2>6
<1>2. ASSUME NEW job, job.id = held[w].id, job.run = held[w].run,
             \/ held'[w] = job /\ pc'[w] \in InRun
             \/ SaveOutcome(w, job)
      PROVE  Runs(w, j, r)'
  BY <1>2, <1>h DEF SaveOutcome, Goto, InRun, Runs, TypeOK
<1>3. CASE HandlerSucceeds(w)
  BY <1>2, <1>3 DEF HandlerSucceeds, Goto, InRun, TypeOK
<1>4. CASE HandlerFails(w) \/ RetryJob(w) \/ BuryJob(w) \/ HandleJobSuccess(w)
  <2>1. /\ MarkAsFailed(held[w]).id = held[w].id
        /\ MarkAsFailed(held[w]).run = held[w].run
        /\ MarkForRetry(held[w]).id = held[w].id
        /\ MarkForRetry(held[w]).run = held[w].run
        /\ MarkAsDead(held[w]).id = held[w].id
        /\ MarkAsDead(held[w]).run = held[w].run
        /\ MarkAsCompleted(held[w]).id = held[w].id
        /\ MarkAsCompleted(held[w]).run = held[w].run
    <3>1. 1 \in Nat
      OBVIOUS
    <3> QED
      BY <1>h, <3>1, MarkTypes, MarkRuns
  <2>2. HandlerFails(w) => held'[w] = MarkAsFailed(held[w]) /\ pc'[w] \in InRun
    BY DEF HandlerFails, Goto, InRun, TypeOK
  <2>3. RetryJob(w) => held'[w] = MarkForRetry(held[w]) /\ pc'[w] \in InRun
    BY DEF RetryJob, Goto, InRun, TypeOK
  <2>4. BuryJob(w) => held'[w] = MarkAsDead(held[w]) /\ pc'[w] \in InRun
    BY DEF BuryJob, Goto, InRun, TypeOK
  <2>5. HandleJobSuccess(w) => SaveOutcome(w, MarkAsCompleted(held[w]))
    BY DEF HandleJobSuccess
  <2> QED
    BY <1>2, <1>4, <2>1, <2>2, <2>3, <2>4, <2>5
<1>5. CASE UpdateFailedJob(w)
  BY <1>2, <1>5 DEF UpdateFailedJob
<1>6. CASE ProcessNextJob(w) \/ StartJob(w)
  BY <1>6, <1>h DEF ProcessNextJob, StartJob, InRun
<1>7. CASE pc'[w] = pc[w] /\ held'[w] = held[w]
  BY <1>7 DEF Runs
<1>8. ASSUME NEW p \in Workers, EndWorker(p)
      PROVE  pc'[w] = pc[w] /\ held'[w] = held[w]
  <2>1. CASE ProcessOf(w) = p
    <3>1. HarmAt(pc[w]) \subseteq damage'[j]
      BY <1>8, <1>h, <2>1 DEF EndWorker
    <3>2. "lost" \in HarmAt(pc[w]) \/ "gap" \in HarmAt(pc[w])
      BY <1>h DEF HarmAt, InRun
    <3> QED
      BY <3>1, <3>2
  <2>2. CASE ProcessOf(w) # p
    BY <1>8, <2>2 DEF EndWorker
  <2> QED
    BY <2>1, <2>2
<1>9. ASSUME NEW v \in Slots, ProcessJobs(v), v # w
      PROVE  pc'[w] = pc[w] /\ held'[w] = held[w]
  BY <1>9
  DEF TypeOK, ProcessJobs, ProcessNextJob, StartJob, HandlerSucceeds,
      HandlerFails, HandleJobSuccess, SaveOutcome, RetryJob, BuryJob,
      UpdateFailedJob, RecordHistory, Goto, Release
<1>10. ASSUME \A v \in Slots : ~ProcessJobs(v), \A p \in Workers : ~EndWorker(p)
       PROVE  pc' = pc /\ held' = held
  BY <1>10
  DEF Next, Request, ScheduleJob, Reply, EnqueueJob, ProcessDelayedJobs,
      ReadRipe, PushRipe, RemoveRipe, ExitScheduler, CrashScheduler,
      EndScheduler, ExitWorker, CrashWorker, Shutdown, Ripen, vars, workerVars
<1> QED
  BY <1>1, <1>3, <1>4, <1>5, <1>6, <1>7, <1>8, <1>9, <1>10 DEF ProcessJobs

\* A job whose run does not begin, although it is counted, is lost.
LEMMA StartOrLost ==
  ASSUME TypeOK, NEW w \in Slots, StartJob(w), pc'[w] # "executing"
  PROVE  "lost" \in damage'[held[w].id]
<1> DEFINE job == MarkAsProcessing(held[w], starts[held[w].id] + 1)
<1>1. held[w] \in Job /\ held[w].id \in Jobs /\ starts[held[w].id] + 1 \in Nat
  BY StartStep DEF TypeOK
<1>2. job.id = held[w].id /\ job.id \in Jobs
  BY <1>1, MarkTypes
<1>3. PICK out \in Outcomes :
        /\ Call(Live(ProcessOf(w)), job.id, out, {"lost"}, {"lost"})
        /\ out = "ok" => Goto(w, "executing")
  BY DEF StartJob
<1> HIDE DEF job
<1>4. out \in {"failed", "unacked"}
  BY <1>3 DEF Outcomes, Goto, TypeOK
<1>5. damage'[job.id] = damage[job.id] \cup Harm(out, {"lost"}, {"lost"})
  BY <1>2, <1>3, CallHarm
<1> QED
  BY <1>2, <1>4, <1>5 DEF Harm

\* Every step keeps the history exact.
LEMMA HistoryPreserved ==
  ASSUME TypeOK, PersistedFirst, AttemptsCounted, RequestsApart, RunsNumbered,
         CountsExact, HistoryExact, [Next]_vars
  PROVE  HistoryExact'
<1> SUFFICES ASSUME NEW j \in Jobs, Saved(j)', damage'[j] \subseteq {"stale"}
             PROVE  HistoryOf(j)'
  BY DEF HistoryExact
<1>d. damage[j] \subseteq {"stale"} /\ "dup" \notin damage[j]
  BY Kept
<1>t. /\ starts[j] \in Nat /\ starts'[j] \in Nat
      /\ \A h \in history[j] : h.run \in Nat
      /\ \A w \in Slots : pc[w] # "idle" => held[w] \in Job
      /\ \A m \in Job : m.run \in Nat /\ m.attempts \in Int
      /\ "idle" \notin InRun
  BY TypesPreserved DEF TypeOK, StorageTypeOK, JobHistory, Job, InRun
<1>1. CASE ~Saved(j)
  <2>1. /\ history[j] = {}
        /\ \A w \in Slots : pc[w] # "idle" => held[w].id # j
    BY <1>1 DEF PersistedFirst, Messages, HeldMessages
  <2>2. PICK s \in Schedulers, req \in Requests : ScheduleJob(s, j, req)
    <3>1. jobs'[j] # jobs[j]
      BY <1>1 DEF Saved
    <3> QED
      BY <2>1, <3>1, RowFlow
  <2>3. submitted[j] = NoJob /\ UNCHANGED <<history, starts, pc, held>>
    BY <2>2 DEF ScheduleJob, SaveJob, Save, workerVars, tallies
  <2>4. starts[j] = 0
    BY <1>d, <2>3 DEF CountsExact
  <2>5. 1 .. starts'[j] = {}
    BY <2>3, <2>4
  <2>6. \A w \in Slots : ~(pc'[w] \in InRun /\ held'[w].id = j)
    BY <1>t, <2>1, <2>3
  <2> QED
    BY <2>1, <2>3, <2>5, <2>6 DEF HistoryOf
<1>2. CASE Saved(j)
  <2>o. HistoryOf(j) /\ submitted'[j] = submitted[j] /\ submitted[j] # NoJob
    BY <1>2, <1>d, Kept DEF HistoryExact, RequestsApart
  <2>r. "record" \in InRun
    BY DEF InRun
  <2>n. ASSUME NEW h \in history'[j], h \notin history[j]
        PROVE  \E w \in Slots : /\ pc[w] \in InRun /\ held[w].id = j
                                /\ h = [run     |-> held[w].run,
                                        attempt |-> attempt[w],
                                        status  |-> HistoryStatus(held[w])]
                                /\ h.run = held[w].run /\ h.attempt = attempt[w]
    BY <2>n, <2>r, HistoryFlow
  <2>1. ASSUME NEW h \in history'[j]
        PROVE  h.run >= 1 /\ h.attempt = submitted'[j].attempts + h.run
    <3>1. CASE h \in history[j]
      BY <2>o, <3>1 DEF HistoryOf
    <3>2. CASE h \notin history[j]
      BY <2>n, <2>o, <3>2 DEF HistoryOf
    <3> QED
      BY <3>1, <3>2
  <2>2. ASSUME NEW g \in history'[j], NEW h \in history'[j], g.run = h.run
        PROVE  g = h
    <3>1. \A e \in history[j] : \A w \in Slots :
            pc[w] \in InRun /\ held[w].id = j => held[w].run # e.run
      BY DEF RunsNumbered
    <3>2. CASE g \in history[j] /\ h \in history[j]
      BY <2>2, <2>o, <3>2 DEF HistoryOf
    <3>3. CASE g \in history[j] /\ h \notin history[j]
      BY <2>2, <2>n, <3>1, <3>3
    <3>4. CASE g \notin history[j] /\ h \in history[j]
      BY <2>2, <2>n, <3>1, <3>4
    <3>5. CASE g \notin history[j] /\ h \notin history[j]
      <4>1. PICK v \in Slots : /\ pc[v] \in InRun /\ held[v].id = j
                               /\ g = [run     |-> held[v].run,
                                       attempt |-> attempt[v],
                                       status  |-> HistoryStatus(held[v])]
                               /\ g.run = held[v].run
        BY <2>n, <3>5
      <4>2. PICK w \in Slots : /\ pc[w] \in InRun /\ held[w].id = j
                               /\ h = [run     |-> held[w].run,
                                       attempt |-> attempt[w],
                                       status  |-> HistoryStatus(held[w])]
                               /\ h.run = held[w].run
        BY <2>n, <3>5
      <4>3. v = w
        BY <2>2, <4>1, <4>2 DEF RunsNumbered
      <4> QED
        BY <4>1, <4>2, <4>3
    <3> QED
      BY <3>2, <3>3, <3>4, <3>5
  <2>3. ASSUME NEW w \in Slots, pc'[w] \in InRun, held'[w].id = j
        PROVE  /\ held'[w].run >= 1
               /\ attempt'[w] = submitted'[j].attempts + held'[w].run
    <3>1. CASE /\ pc[w] \in InRun /\ held'[w].id = held[w].id
               /\ held'[w].run = held[w].run /\ attempt'[w] = attempt[w]
      BY <2>3, <2>o, <3>1 DEF HistoryOf
    <3>2. CASE StartJob(w) /\ pc'[w] = "executing"
      <4>1. /\ pc[w] = "dequeued" /\ held[w].id = j /\ held[w] \in Job
            /\ held'[w].run = starts[j] + 1
            /\ attempt'[w] = held[w].attempts + 1
        BY <2>3, <3>2, StartStep
      <4>2. held[w].attempts - submitted[j].attempts = starts[j]
        BY <1>d, <4>1 DEF CountsExact, ToRun, Due
      <4>3. submitted[j].attempts \in Int /\ held[w].attempts \in Int
        BY <2>o, <4>1 DEF TypeOK, Job
      <4> QED
        BY <1>t, <2>o, <4>1, <4>2, <4>3
    <3> QED
      BY <2>3, <3>1, <3>2, RunFlow
  <2>4. ASSUME NEW r \in 1 .. starts'[j]
        PROVE  \/ \E h \in history'[j] : h.run = r
               \/ \E w \in Slots : Runs(w, j, r)'
    <3>1. CASE r \in 1 .. starts[j]
      <4>1. CASE \E h \in history[j] : h.run = r
        BY <4>1, HistoryFlow
      <4>2. CASE \E w \in Slots : Runs(w, j, r)
        BY <4>2, RunContinues
      <4> QED
        BY <2>o, <3>1, <4>1, <4>2 DEF HistoryOf
    <3>2. CASE r \notin 1 .. starts[j]
      <4>1. starts'[j] # starts[j]
        BY <3>2
      <4>2. PICK w \in Slots : /\ StartJob(w) /\ Owns(w, j)
                               /\ starts'[j] = starts[j] + 1
        BY <4>1, StartOrigin
      <4>3. r = starts[j] + 1
        BY <1>t, <3>2, <4>2
      <4>4. pc'[w] = "executing"
        BY <4>2, StartOrLost DEF Owns
      <4>5. Runs(w, j, r)'
        BY <4>2, <4>3, <4>4, StartStep DEF Runs, InRun, Owns
      <4> QED
        BY <4>5
    <3> QED
      BY <3>1, <3>2
  <2> QED
    BY <2>1, <2>2, <2>3, <2>4 DEF HistoryOf
<1> QED
  BY <1>1, <1>2

\* What the history of a job at rest amounts to.
LEMMA HistoryCounted ==
  ASSUME TypeOK, RunsNumbered, NEW j \in Jobs, submitted[j] \in Job,
         HistoryOf(j), AtRest(j)
  PROVE  /\ Cardinality(history[j]) = starts[j]
         /\ {h.attempt : h \in history[j]} =
              (submitted[j].attempts + 1) .. (submitted[j].attempts + starts[j])
<1> DEFINE n == starts[j]
           a == submitted[j].attempts
           H == history[j]
           run == [h \in H |-> h.run]
<1>t. n \in Nat /\ a \in Int /\ \A h \in H : h.run \in Nat
  BY DEF TypeOK, StorageTypeOK, JobHistory, Job
<1>1. \A h \in H : h.run \in 1 .. n /\ h.attempt = a + h.run
  BY <1>t DEF HistoryOf, RunsNumbered
<1>2. \A r \in 1 .. n : \E h \in H : h.run = r
  BY DEF HistoryOf, AtRest, Runs, InRun
<1>3. \A g, h \in H : g.run = h.run => g = h
  BY DEF HistoryOf
<1> HIDE DEF n, a, H
<1>4. run \in Injection(H, 1 .. n)
  BY <1>1, <1>3 DEF Injection, IsInjective
<1>5. run \in Surjection(H, 1 .. n)
  BY <1>1, <1>2 DEF Surjection
<1>6. Cardinality(H) = n
  <2>1. IsFiniteSet(1 .. n) /\ Cardinality(1 .. n) = n
    BY <1>t, FS_Interval
  <2> HIDE DEF run
  <2> QED
    BY <1>4, <1>5, <2>1, FS_Injection
<1>7. {h.attempt : h \in H} = (a + 1) .. (a + n)
  <2>1. \A h \in H : h.attempt \in (a + 1) .. (a + n)
    BY <1>1, <1>t
  <2>2. ASSUME NEW k \in (a + 1) .. (a + n)
        PROVE  \E h \in H : h.attempt = k
    <3>1. k - a \in 1 .. n
      BY <1>t
    <3>2. PICK h \in H : h.run = k - a
      BY <1>2, <3>1
    <3>3. h.attempt = k
      BY <1>1, <1>t, <3>2
    <3> QED
      BY <3>3
  <2> QED
    BY <2>1, <2>2
<1> QED
  BY <1>6, <1>7 DEF n, a, H

(***************************************************************************)
(* With one scheduler process the job_history of a job at rest has exactly *)
(* one row for each of its executions, numbered in a row from the first    *)
(* attempt, whatever the order in which goroutines wrote them; a row is    *)
(* missing only where a fault is known to have taken it ("gap", "lost").   *)
(***************************************************************************)
THEOREM HistoryIsComplete ==
  ASSUME OneScheduler
  PROVE  Spec => []HistoryComplete
<1>1. Init => HistoryExact
  BY DEF Init, StorageInit, HistoryExact, Saved
<1>2. /\ TypeOK /\ PersistedFirst /\ AttemptsCounted /\ RequestsApart
      /\ RunsNumbered /\ CountsExact /\ HistoryExact /\ [Next]_vars
      => HistoryExact'
  BY HistoryPreserved
<1>3. TypeOK /\ RequestsApart /\ RunsNumbered /\ HistoryExact => HistoryComplete
  <2> SUFFICES ASSUME TypeOK, RequestsApart, RunsNumbered, HistoryExact,
                      NEW j \in Jobs, AtRest(j), Saved(j),
                      damage[j] \subseteq {"stale"}
               PROVE  /\ Cardinality(history[j]) = starts[j]
                      /\ {h.attempt : h \in history[j]} =
                           (submitted[j].attempts + 1)
                             .. (submitted[j].attempts + starts[j])
    BY DEF HistoryComplete
  <2>1. submitted[j] \in Job
    BY DEF TypeOK, RequestsApart
  <2>2. HistoryOf(j)
    BY DEF HistoryExact
  <2> QED
    BY <2>1, <2>2, HistoryCounted
<1> QED
  BY <1>1, <1>2, <1>3, TypeCorrect, EveryMessageSaved, LedgerCorrect,
     RunsInOrder, CountsInOrder, PTL DEF Spec

-----------------------------------------------------------------------------
(***************************************************************************)
(* The row of a job.                                                       *)
(***************************************************************************)

\* The steps from which a goroutine has still to write the job's row.
Writing == {"executing", "failed", "succeeded", "requeued"}

\* Goroutine w is in run r of the job and will write its row.
WritesBack(w, j, r) == pc[w] \in Writing /\ held[w].id = j /\ held[w].run = r

(***************************************************************************)
(* The row is from a run that has begun.  If it says "processing" that run *)
(* has still to write it; if it says "scheduled" the run is over and, as   *)
(* long as there is no later one, has not settled the job.                 *)
(***************************************************************************)
RowOf(j) ==
  /\ jobs[j] \in Job
  /\ jobs[j].run >= 1 /\ jobs[j].run <= starts[j]
  /\ jobs[j].status \in {"processing", "completed", "dead", "scheduled"}
  /\ jobs[j].status = "processing" =>
       \E w \in Slots : WritesBack(w, j, jobs[j].run)
  /\ jobs[j].status = "scheduled" =>
       /\ \A w \in Slots : ~WritesBack(w, j, jobs[j].run)
       /\ jobs[j].run = starts[j] => ~Settled(j)

\* The run a goroutine works on is the job's last, and so it is as long as
\* nobody starts on the retry that the goroutine has queued.
WorkOf(j) ==
  \A w \in Slots : held[w].id = j =>
    /\ pc[w] \in Writing => held[w].run >= 1
    /\ pc[w] \in {"executing", "failed"} => held[w].run = starts[j]
    /\ pc[w] = "requeued" /\ held[w].status = "scheduled"
         /\ held[w].run = starts[j] => ~Settled(j)

\* So it is for every job that no fault has taken, doubled or left stale.
RowsExact ==
  \A j \in Jobs : damage[j] \subseteq {"gap"} =>
    /\ starts[j] >= 1 => RowOf(j)
    /\ WorkOf(j)
    /\ effects[j] > 0 => starts[j] >= 1

\* Who writes the row of a job, and what.
LEMMA RowWritten ==
  ASSUME TypeOK, [Next]_vars, NEW j \in Jobs, jobs'[j] # jobs[j]
  PROVE  \/ \E s \in Schedulers, req \in Requests : ScheduleJob(s, j, req)
         \/ \E w \in Slots :
              /\ held[w].id = j
              /\ \/ StartJob(w)
                 \/ HandleJobSuccess(w) /\ jobs'[j] = MarkAsCompleted(held[w])
                 \/ UpdateFailedJob(w) /\ jobs'[j] = held[w]
<1>1. CASE \E w \in Slots : StartJob(w)
  <2>1. PICK w \in Slots : StartJob(w)
    BY <1>1
  <2>2. held[w] \in Job /\ held[w].id \in Jobs /\ starts[held[w].id] + 1 \in Nat
    BY <2>1, StartStep DEF TypeOK
  <2>3. MarkAsProcessing(held[w], starts[held[w].id] + 1).id = held[w].id
    BY <2>2, MarkTypes
  <2>4. held[w].id = j
    BY <2>1, <2>2, <2>3
    DEF StartJob, UpdateJob, Save, TypeOK, StorageTypeOK
  <2> QED
    BY <2>1, <2>4
<1>2. CASE ~ \E w \in Slots : StartJob(w)
  <2>1. CASE \E s \in Schedulers, i \in Jobs, req \in Requests : ScheduleJob(s, i, req)
    <3>1. PICK s \in Schedulers, i \in Jobs, req \in Requests : ScheduleJob(s, i, req)
      BY <2>1
    <3>2. i = j
      BY <3>1 DEF ScheduleJob, SaveJob, Save, NewJob, TypeOK, StorageTypeOK
    <3> QED
      BY <3>1, <3>2
  <2>2. CASE ~ \E s \in Schedulers, i \in Jobs, req \in Requests : ScheduleJob(s, i, req)
    <3>1. \/ \E w \in Slots : /\ HandleJobSuccess(w) /\ j = held[w].id
                              /\ jobs'[j] = MarkAsCompleted(held[w])
          \/ \E w \in Slots : /\ UpdateFailedJob(w) /\ j = held[w].id
                              /\ jobs'[j] = held[w]
      <4>1. PICK w \in Slots : HandleJobSuccess(w) \/ UpdateFailedJob(w)
        <5>1. jobs' # jobs
          OBVIOUS
        <5> QED
          BY <1>2, <2>2, <5>1
          DEF Next, Request, Reply, EnqueueJob, ProcessDelayedJobs, ReadRipe,
              PushRipe, RemoveRipe, ProcessJobs, ProcessNextJob,
              HandlerSucceeds, HandlerFails, RetryJob, BuryJob, RecordHistory,
              SaveJobHistory, ExitWorker, CrashWorker, EndWorker,
              ExitScheduler, CrashScheduler, EndScheduler, Shutdown, Ripen,
              vars, storageVars
      <4>2. held[w] \in Job
        BY <4>1 DEF TypeOK, HandleJobSuccess, UpdateFailedJob
      <4>3. /\ MarkAsCompleted(held[w]).id = held[w].id
            /\ held[w].id \in Jobs
        BY <4>2, MarkTypes DEF Job
      <4> QED
        BY <4>1, <4>2, <4>3
        DEF HandleJobSuccess, UpdateFailedJob, SaveOutcome, UpdateJob, Save,
            TypeOK, StorageTypeOK
    <3> QED
      BY <3>1
  <2> QED
    BY <2>1, <2>2
<1> QED
  BY <1>1, <1>2

\* A goroutine that is to write the row does so unless a fault prevents it.
LEMMA WriteContinues ==
  ASSUME TypeOK, OutcomesBacked, [Next]_vars, NEW w \in Slots, NEW j \in Jobs,
         NEW r, WritesBack(w, j, r), damage'[j] \subseteq {"gap"}
  PROVE  \/ WritesBack(w, j, r)'
         \/ jobs'[j].status \in {"completed", "scheduled", "dead"}
<1>h. /\ held[w] \in Job /\ held[w].id = j /\ held[w].run = r
      /\ pc[w] \in Writing /\ pc[w] # "idle"
  BY DEF TypeOK, WritesBack, Writing
<1>m. /\ MarkAsFailed(held[w]).id = j /\ MarkAsFailed(held[w]).run = r
      /\ MarkForRetry(held[w]).id = j /\ MarkForRetry(held[w]).run = r
      /\ MarkAsDead(held[w]).id = j /\ MarkAsDead(held[w]).run = r
      /\ MarkAsCompleted(held[w]).id = j
      /\ MarkAsCompleted(held[w]).status = "completed"
  <2>1. 1 \in Nat
    OBVIOUS
  <2>2. MarkAsCompleted(held[w]).status = "completed"
    BY <1>h DEF MarkAsCompleted, Job
  <2> QED
    BY <1>h, <2>1, <2>2, MarkTypes, MarkRuns
<1>1. ASSUME NEW job, job.id = j, SaveOutcome(w, job)
      PROVE  jobs'[j] = job
  <2>1. PICK out \in Outcomes :
          /\ Call(Live(ProcessOf(w)), job.id, out, {"stale"}, {})
          /\ UpdateJob(job, out)
    BY <1>1 DEF SaveOutcome
  <2>2. damage'[j] = damage[j] \cup Harm(out, {"stale"}, {})
    BY <1>1, <2>1, CallHarm
  <2>3. out # "failed"
    BY <2>2 DEF Harm
  <2> QED
    BY <1>1, <2>1, <2>3 DEF UpdateJob, Save, Applied, TypeOK, StorageTypeOK
<1>2. CASE HandleJobSuccess(w)
  BY <1>1, <1>2, <1>m DEF HandleJobSuccess
<1>3. CASE UpdateFailedJob(w)
  <2>1. jobs'[j] = held[w] /\ pc[w] = "requeued"
    BY <1>1, <1>3, <1>h DEF UpdateFailedJob
  <2> QED
    BY <2>1 DEF OutcomesBacked
<1>4. CASE HandlerSucceeds(w)
  BY <1>4, <1>h DEF HandlerSucceeds, Goto, Writing, WritesBack, TypeOK
<1>5. CASE HandlerFails(w) \/ RetryJob(w) \/ BuryJob(w)
  <2>1. HandlerFails(w) => held'[w] = MarkAsFailed(held[w]) /\ pc'[w] \in Writing
    BY DEF HandlerFails, Goto, Writing, TypeOK
  <2>2. RetryJob(w) => held'[w] = MarkForRetry(held[w]) /\ pc'[w] \in Writing
    BY DEF RetryJob, Goto, Writing, TypeOK
  <2>3. BuryJob(w) => held'[w] = MarkAsDead(held[w]) /\ pc'[w] \in Writing
    BY DEF BuryJob, Goto, Writing, TypeOK
  <2> QED
    BY <1>5, <1>m, <2>1, <2>2, <2>3 DEF WritesBack
<1>6. CASE ProcessNextJob(w) \/ StartJob(w) \/ RecordHistory(w)
  BY <1>6, <1>h DEF ProcessNextJob, StartJob, RecordHistory, Writing
<1>7. CASE pc'[w] = pc[w] /\ held'[w] = held[w]
  BY <1>7 DEF WritesBack
<1>8. ASSUME NEW p \in Workers, EndWorker(p)
      PROVE  pc'[w] = pc[w] /\ held'[w] = held[w]
  <2>1. CASE ProcessOf(w) = p
    <3>1. HarmAt(pc[w]) \subseteq damage'[j]
      BY <1>8, <1>h, <2>1 DEF EndWorker
    <3>2. "lost" \in HarmAt(pc[w]) \/ "stale" \in HarmAt(pc[w])
      BY <1>h DEF HarmAt, Writing
    <3> QED
      BY <3>1, <3>2
  <2>2. CASE ProcessOf(w) # p
    BY <1>8, <2>2 DEF EndWorker
  <2> QED
    BY <2>1, <2>2
<1>9. ASSUME NEW v \in Slots, ProcessJobs(v), v # w
      PROVE  pc'[w] = pc[w] /\ held'[w] = held[w]
  BY <1>9
  DEF TypeOK, ProcessJobs, ProcessNextJob, StartJob, HandlerSucceeds,
      HandlerFails, HandleJobSuccess, SaveOutcome, RetryJob, BuryJob,
      UpdateFailedJob, RecordHistory, Goto, Release
<1>10. ASSUME \A v \in Slots : ~ProcessJobs(v), \A p \in Workers : ~EndWorker(p)
       PROVE  pc' = pc /\ held' = held
  BY <1>10
  DEF Next, Request, ScheduleJob, Reply, EnqueueJob, ProcessDelayedJobs,
      ReadRipe, PushRipe, RemoveRipe, ExitScheduler, CrashScheduler,
      EndScheduler, ExitWorker, CrashWorker, Shutdown, Ripen, vars, workerVars
<1> QED
  BY <1>2, <1>3, <1>4, <1>5, <1>6, <1>7, <1>8, <1>9, <1>10 DEF ProcessJobs

\* Once the row is to be written by nobody in a run, nobody is again.
LEMMA WritesOrigin ==
  ASSUME TypeOK, [Next]_vars, NEW w \in Slots, NEW j, NEW r, WritesBack(w, j, r)'
  PROVE  \/ WritesBack(w, j, r)
         \/ StartJob(w) /\ pc'[w] = "executing"
<1>1. pc'[w] \in InRun /\ pc'[w] # "idle" /\ pc'[w] # "record"
  BY DEF WritesBack, Writing, InRun
<1>2. CASE pc[w] = "record"
  <2>1. ProcessJobs(w) => RecordHistory(w)
    BY <1>2
    DEF ProcessJobs, ProcessNextJob, StartJob, HandlerSucceeds, HandlerFails,
        HandleJobSuccess, RetryJob, BuryJob, UpdateFailedJob
  <2>2. RecordHistory(w) => pc'[w] = "idle"
    BY DEF RecordHistory, Release, Goto, TypeOK
  <2> QED
    BY <1>1, <1>2, <2>1, <2>2, SlotOrigin
<1>3. CASE pc[w] # "record"
  BY <1>1, <1>3, RunFlow DEF WritesBack, Writing, InRun
<1> QED
  BY <1>2, <1>3

\* A goroutine that works on a job keeps to its run.
LEMMA WorkPreserved ==
  ASSUME TypeOK, AttemptsCounted, RequestsApart, RunsNumbered, [Next]_vars,
         NEW j \in Jobs, OneCopy(j), WorkOf(j)
  PROVE  WorkOf(j)'
<1> SUFFICES ASSUME NEW w \in Slots, held'[w].id = j
             PROVE  /\ pc'[w] \in Writing => held'[w].run >= 1
                    /\ pc'[w] \in {"executing", "failed"} =>
                         held'[w].run = starts'[j]
                    /\ pc'[w] = "requeued" /\ held'[w].status = "scheduled"
                         /\ held'[w].run = starts'[j] => ~Settled(j)'
  BY DEF WorkOf
<1>t. /\ starts[j] \in Nat /\ starts'[j] \in Nat /\ starts'[j] >= starts[j]
      /\ \A v \in Slots : pc[v] # "idle" =>
           held[v] \in Job /\ held[v].run \in Nat
  BY TypesPreserved, Kept DEF TypeOK, Job
<1>i. Writing \subseteq InRun /\ "idle" \notin Writing
  BY DEF Writing, InRun
<1>s. ASSUME StartJob(w), pc'[w] = "executing"
      PROVE  held'[w].run = starts'[j] /\ held'[w].run >= 1
  BY <1>s, <1>t, StartStep DEF TypeOK
<1>1. ASSUME pc'[w] \in Writing
      PROVE  held'[w].run >= 1
  <2>1. CASE StartJob(w) /\ pc'[w] = "executing"
    BY <1>s, <2>1
  <2>2. CASE WritesBack(w, j, held'[w].run)
    BY <2>2 DEF WritesBack, WorkOf
  <2> QED
    BY <1>1, <2>1, <2>2, WritesOrigin DEF WritesBack
<1>2. ASSUME pc'[w] \in {"executing", "failed"}
      PROVE  held'[w].run = starts'[j]
  <2>1. CASE StartJob(w) /\ pc'[w] = "executing"
    BY <1>s, <2>1
  <2>2. CASE /\ pc[w] \in {"executing", "failed"}
             /\ held[w].id = j /\ held'[w].run = held[w].run
    <3>1. held[w].run = starts[j] /\ Owns(w, j)
      BY <2>2 DEF WorkOf, Owns, Owning
    <3>2. starts'[j] = starts[j]
      <4> SUFFICES ASSUME starts'[j] # starts[j] PROVE FALSE
        OBVIOUS
      <4>1. PICK v \in Slots : pc[v] = "dequeued" /\ Owns(v, j)
        BY StartOrigin
      <4>2. v = w
        BY <3>1, <4>1 DEF OneCopy
      <4> QED
        BY <2>2, <4>1, <4>2
    <3> QED
      BY <2>2, <3>1, <3>2
  <2> QED
    BY <1>2, <2>1, <2>2, RunFlow DEF InRun
<1>3. ASSUME pc'[w] = "requeued", held'[w].status = "scheduled",
             held'[w].run = starts'[j], Settled(j)'
      PROVE  FALSE
  <2>1. CASE pc'[w] = pc[w] /\ held'[w] = held[w]
    <3>1. held[w] \in Messages /\ held[w].run <= starts[j]
      BY <1>3, <2>1 DEF RunsNumbered, Messages, HeldMessages
    <3>2. held[w].run = starts[j]
      BY <1>3, <1>t, <2>1, <3>1
    <3>3. ~Settled(j)
      BY <1>3, <2>1, <3>2 DEF WorkOf
    <3>4. PICK v \in Slots : (HandlerSucceeds(v) \/ BuryJob(v)) /\ Owns(v, j)
      BY <1>3, <3>3, SettledOrigin
    <3>5. pc[v] \in {"executing", "failed"} /\ held[v].id = j
      BY <3>4 DEF HandlerSucceeds, BuryJob, Owns
    <3>6. held[v].run = starts[j]
      BY <3>5 DEF WorkOf
    <3>7. v = w
      BY <1>3, <2>1, <3>2, <3>5, <3>6 DEF RunsNumbered, InRun
    <3> QED
      BY <1>3, <2>1, <3>5, <3>7
  <2>2. CASE RetryJob(w)
    <3>1. pc[w] = "failed" /\ held[w] \in Job /\ CanRetry(held[w])
          /\ held'[w] = MarkForRetry(held[w])
      BY <2>2 DEF RetryJob, TypeOK
    <3>2. Owns(w, j)
      BY <3>1, MarkTypes DEF Owns, Owning
    <3>3. /\ ~Settled(j)
          /\ \A v \in Slots : Owns(v, j) => v = w
      BY <3>2, OwnedAlone
    <3>4. PICK v \in Slots : (HandlerSucceeds(v) \/ BuryJob(v)) /\ Owns(v, j)
      BY <1>3, <3>3, SettledOrigin
    <3>5. v = w
      BY <3>3, <3>4
    <3> QED
      BY <3>1, <3>4, <3>5 DEF HandlerSucceeds, BuryJob
  <2>3. CASE BuryJob(w)
    <3>1. held[w] \in Job /\ held'[w] = MarkAsDead(held[w])
      BY <2>3 DEF BuryJob, TypeOK
    <3> QED
      BY <1>3, <3>1 DEF MarkAsDead, Job
  <2>4. CASE ProcessJobs(w) /\ ~RetryJob(w) /\ ~BuryJob(w)
    BY <1>3, <2>4
    DEF ProcessJobs, ProcessNextJob, StartJob, HandlerSucceeds, HandlerFails,
        HandleJobSuccess, UpdateFailedJob, SaveOutcome, RecordHistory, Goto,
        Release, TypeOK
  <2> QED
    BY <1>3, <2>1, <2>2, <2>3, <2>4, SlotOrigin
<1> QED
  BY <1>1, <1>2, <1>3

\* Every step keeps the rows exact.
LEMMA RowsPreserved ==
  ASSUME TypeOK, OutcomesBacked, AttemptsCounted, RequestsApart, RunsNumbered,
         CopiesSingle, CountsExact, RowsExact, [Next]_vars
  PROVE  RowsExact'
<1> SUFFICES ASSUME NEW j \in Jobs, damage'[j] \subseteq {"gap"}
             PROVE  /\ starts'[j] >= 1 => RowOf(j)'
                    /\ WorkOf(j)'
                    /\ effects'[j] > 0 => starts'[j] >= 1
  BY DEF RowsExact
<1>d. damage[j] \subseteq {"gap"} /\ "dup" \notin damage[j]
  BY Kept
<1>o. /\ starts[j] >= 1 => RowOf(j)
      /\ WorkOf(j) /\ OneCopy(j)
      /\ effects[j] > 0 => starts[j] >= 1
  BY <1>d DEF RowsExact, CopiesSingle
<1>t. /\ starts[j] \in Nat /\ starts'[j] \in Nat /\ starts'[j] >= starts[j]
      /\ effects[j] \in Nat /\ effects'[j] \in Nat
      /\ \A w \in Slots : pc[w] # "idle" =>
           /\ held[w] \in Job /\ held[w].run \in Nat
           /\ held[w] \in Messages
      /\ \A job \in Job : job.run \in Nat
  BY TypesPreserved, Kept DEF TypeOK, Job, Messages, HeldMessages
<1>1. WorkOf(j)'
  BY <1>o, WorkPreserved
<1>2. effects'[j] > 0 => starts'[j] >= 1
  <2>1. CASE effects'[j] = effects[j]
    BY <1>o, <1>t, <2>1
  <2>2. CASE effects'[j] # effects[j]
    <3>1. PICK w \in Slots : HandlerSucceeds(w)
      BY <2>2, TalliesChange
    <3>2. pc[w] = "executing" /\ held[w].id = j
      BY <2>2, <3>1 DEF HandlerSucceeds, TypeOK
    <3>3. starts[j] >= 1
      BY <3>2 DEF AttemptsCounted
    <3> QED
      BY <1>t, <3>3
  <2> QED
    BY <2>1, <2>2
<1>3. CASE starts'[j] # starts[j]
  <2>1. PICK w \in Slots : /\ StartJob(w) /\ Owns(w, j)
                           /\ starts'[j] = starts[j] + 1
    BY <1>3, StartOrigin
  <2> DEFINE job == MarkAsProcessing(held[w], starts[j] + 1)
  <2>2. /\ held[w] \in Job /\ held[w].id = j /\ pc'[w] = "executing"
        /\ held'[w].id = j /\ held'[w].run = starts[j] + 1
    BY <2>1, StartStep, StartOrLost DEF Owns
  <2>3. /\ job \in Job /\ job.id = j /\ job.run = starts[j] + 1
        /\ job.status = "processing"
    <3>1. starts[j] + 1 \in Nat
      BY <1>t
    <3>2. job.status = "processing"
      BY <2>2 DEF MarkAsProcessing, Job
    <3> QED
      BY <2>2, <3>1, <3>2, MarkTypes, MarkRuns
  <2>4. jobs'[j] = job
    <3>1. PICK out \in Outcomes :
            /\ Call(Live(ProcessOf(w)), job.id, out, {"lost"}, {"lost"})
            /\ UpdateJob(job, out)
      BY <2>1, <2>2 DEF StartJob
    <3> HIDE DEF job
    <3>2. damage'[j] = damage[j] \cup Harm(out, {"lost"}, {"lost"})
      BY <2>3, <3>1, CallHarm
    <3>3. out # "failed"
      BY <3>2 DEF Harm
    <3> QED
      BY <2>3, <3>1, <3>3 DEF UpdateJob, Save, Applied, TypeOK, StorageTypeOK
  <2> HIDE DEF job
  <2>5. \A r : r = starts[j] + 1 => WritesBack(w, j, r)'
    BY <1>t, <2>2 DEF WritesBack, Writing
  <2>6. /\ jobs'[j] \in Job /\ jobs'[j].status = "processing"
        /\ jobs'[j].run = starts[j] + 1
    BY <2>3, <2>4
  <2>7. \E v \in Slots : WritesBack(v, j, jobs[j].run)'
    BY <2>5, <2>6
  <2>8. /\ starts[j] + 1 >= 1
        /\ "processing" \in {"processing", "completed", "dead", "scheduled"}
        /\ "processing" # "scheduled"
    BY <1>t
  <2>9. RowOf(j)'
    BY <1>t, <2>1, <2>6, <2>7, <2>8 DEF RowOf
  <2> QED
    BY <1>1, <1>2, <2>9
<1>4. CASE starts'[j] = starts[j] /\ jobs'[j] = jobs[j]
  <2> SUFFICES ASSUME starts[j] >= 1
               PROVE  RowOf(j)'
    BY <1>1, <1>2, <1>4
  <2>r. PICK r : r = jobs[j].run
    OBVIOUS
  <2>1. RowOf(j)
    BY <1>o
  <2>2. ASSUME jobs[j].status = "processing"
        PROVE  \E w \in Slots : WritesBack(w, j, r)'
    <3>1. PICK w \in Slots : WritesBack(w, j, r)
      BY <2>r, <2>1, <2>2 DEF RowOf
    <3> QED
      BY <1>4, <2>2, <3>1, WriteContinues
  <2>3. ASSUME jobs[j].status = "scheduled", NEW w \in Slots, WritesBack(w, j, r)'
        PROVE  FALSE
    <3>1. ~WritesBack(w, j, r)
      BY <2>r, <2>1, <2>3 DEF RowOf
    <3>2. StartJob(w) /\ pc'[w] = "executing"
      BY <2>3, <3>1, WritesOrigin
    <3>3. held[w].id = j
      BY <2>3, <3>2, StartStep DEF WritesBack
    <3>4. starts'[j] = starts[j] + 1
      BY <3>2, <3>3, StartStep DEF TypeOK
    <3> QED
      BY <1>4, <1>t, <3>4
  <2>4. ASSUME jobs[j].status = "scheduled", r = starts[j], Settled(j)'
        PROVE  FALSE
    <3>1. ~Settled(j) /\ \A w \in Slots : ~WritesBack(w, j, r)
      BY <2>r, <2>1, <2>4 DEF RowOf
    <3>2. PICK v \in Slots : (HandlerSucceeds(v) \/ BuryJob(v)) /\ Owns(v, j)
      BY <2>4, <3>1, SettledOrigin
    <3>3. pc[v] \in {"executing", "failed"} /\ held[v].id = j
      BY <3>2 DEF HandlerSucceeds, BuryJob, Owns
    <3>4. held[v].run = starts[j]
      BY <1>o, <3>3 DEF WorkOf
    <3> QED
      BY <2>4, <3>1, <3>3, <3>4 DEF WritesBack, Writing
  <2>5. /\ jobs[j] \in Job /\ r >= 1 /\ r <= starts[j]
        /\ jobs[j].status \in {"processing", "completed", "dead", "scheduled"}
    BY <2>r, <2>1 DEF RowOf
  <2> QED
    BY <1>4, <2>r, <2>2, <2>3, <2>4, <2>5 DEF RowOf
<1>5. CASE starts'[j] = starts[j] /\ jobs'[j] # jobs[j]
  <2>1. ASSUME NEW s \in Schedulers, NEW req \in Requests, ScheduleJob(s, j, req)
        PROVE  starts[j] = 0
    BY <1>d, <2>1 DEF ScheduleJob, CountsExact
  <2>2. ASSUME NEW w \in Slots, held[w].id = j, StartJob(w)
        PROVE  FALSE
    <3>1. starts'[j] = starts[j] + 1
      BY <2>2, StartStep DEF TypeOK
    <3> QED
      BY <1>5, <1>t, <3>1
  <2>3. ASSUME NEW w \in Slots, held[w].id = j, HandleJobSuccess(w),
               jobs'[j] = MarkAsCompleted(held[w])
        PROVE  starts'[j] >= 1 => RowOf(j)'
    <3>1. pc[w] = "succeeded" /\ pc[w] # "idle" /\ pc[w] \in Writing
      BY <2>3 DEF HandleJobSuccess, Writing
    <3>2. /\ jobs'[j] \in Job /\ jobs'[j].status = "completed"
          /\ jobs'[j].run = held[w].run
      <4>1. held[w] \in Job
        BY <1>t, <3>1
      <4>2. MarkAsCompleted(held[w]).status = "completed"
        BY <4>1 DEF MarkAsCompleted, Job
      <4>3. MarkAsCompleted(held[w]).run = held[w].run
        BY <4>1 DEF MarkAsCompleted, Job
      <4> QED
        BY <2>3, <4>1, <4>2, <4>3, MarkTypes
    <3>3. held[w].run >= 1 /\ held[w].run <= starts[j]
      BY <1>o, <1>t, <2>3, <3>1 DEF WorkOf, RunsNumbered
    <3> QED
      BY <1>5, <3>2, <3>3 DEF RowOf
  <2>4. ASSUME NEW w \in Slots, held[w].id = j, UpdateFailedJob(w),
               jobs'[j] = held[w]
        PROVE  starts'[j] >= 1 => RowOf(j)'
    <3>1. /\ pc[w] = "requeued" /\ pc[w] # "idle" /\ pc[w] \in Writing
          /\ pc'[w] = "record"
          /\ \A v \in Slots : v # w => pc'[v] = pc[v] /\ held'[v] = held[v]
          /\ UNCHANGED <<redisVars, effects>>
      BY <2>4
      DEF UpdateFailedJob, SaveOutcome, Goto, Writing, TypeOK, tallies
    <3>2. held[w].status \in {"scheduled", "dead"}
      BY <3>1 DEF OutcomesBacked
    <3>3. held[w].run >= 1 /\ held[w].run <= starts[j] /\ held[w] \in Job
      BY <1>o, <1>t, <2>4, <3>1 DEF WorkOf, RunsNumbered
    <3>4. \A v \in Slots : \A r : r = held[w].run => ~WritesBack(v, j, r)'
      BY <2>4, <3>1 DEF RunsNumbered, WritesBack, Writing, InRun
    <3>5. Settled(j)' <=> Settled(j)
      BY <3>1 DEF Settled, IsBuried, Buried, redisVars
    <3>6. held[w].status = "scheduled" /\ held[w].run = starts[j] => ~Settled(j)'
      BY <1>o, <2>4, <3>1, <3>5 DEF WorkOf
    <3> QED
      BY <1>5, <2>4, <3>2, <3>3, <3>4, <3>6 DEF RowOf
  <2>5. starts'[j] >= 1 => RowOf(j)'
    BY <1>5, <2>1, <2>2, <2>3, <2>4, RowWritten
  <2> QED
    BY <1>1, <1>2, <2>5
<1> QED
  BY <1>3, <1>4, <1>5

(***************************************************************************)
(* With one scheduler process the row of a job that is done with and at    *)
(* rest is terminal, or "scheduled" by a run before the last, whatever the *)
(* order in which goroutines wrote it: there is no other way for a final   *)
(* status to get lost than a late UpdateJob, unless a call or a process    *)
(* fails.                                                                  *)
(***************************************************************************)
THEOREM LateWritesExplainRows ==
  ASSUME OneScheduler
  PROVE  Spec => []SettledRowsExplained
<1>1. Init => RowsExact
  BY DEF Init, RowsExact, WorkOf, Writing
<1>2. /\ TypeOK /\ OutcomesBacked /\ AttemptsCounted /\ RequestsApart
      /\ RunsNumbered /\ CopiesSingle /\ CountsExact /\ RowsExact /\ [Next]_vars
      => RowsExact'
  BY RowsPreserved
<1>3. TypeOK /\ AttemptsCounted /\ RowsExact => SettledRowsExplained
  <2> SUFFICES ASSUME TypeOK, AttemptsCounted, RowsExact, NEW j \in Jobs,
                      Settled(j), AtRest(j), damage[j] \subseteq {"gap"}
               PROVE  \/ jobs[j].status \in {"completed", "dead"}
                      \/ /\ jobs[j].status = "scheduled"
                         /\ jobs[j].run >= 1 /\ jobs[j].run < starts[j]
    BY DEF SettledRowsExplained
  <2>1. starts[j] >= 1
    <3>1. CASE effects[j] > 0
      BY <3>1 DEF RowsExact
    <3>2. CASE IsBuried(j)
      BY <3>2 DEF IsBuried, AttemptsCounted
    <3> QED
      BY <3>1, <3>2 DEF Settled
  <2>2. RowOf(j)
    BY <2>1 DEF RowsExact
  <2>3. \A w \in Slots : ~WritesBack(w, j, jobs[j].run)
    BY DEF AtRest, WritesBack, Writing
  <2>4. starts[j] \in Nat
    BY DEF TypeOK
  <2>5. jobs[j].run \in Nat
    BY <2>2 DEF RowOf, Job
  <2> QED
    BY <2>2, <2>3, <2>4, <2>5 DEF RowOf
<1> QED
  BY <1>1, <1>2, <1>3, TypeCorrect, WrittenLast, LedgerCorrect, RunsInOrder,
     CopiesInOrder, CountsInOrder, PTL DEF Spec

-----------------------------------------------------------------------------
(***************************************************************************)
(* The copies of one message.                                              *)
(***************************************************************************)

\* Where a list holds the message.
At(list, m) == {i \in DOMAIN list : list[i] = m}

Positions(m) == At(queues[QueueName(m.priority)], m)

\* The scheduler processes that have read the message and not yet pushed it,
\* or may still read it.
Pushers(m) ==
  {s \in Schedulers : m \in batch[s] \/ (m \in delayed /\ m \notin moving[s])}

\* A scheduler process removes one message before it pushes the next.
MovesOne == \A s \in Schedulers : \A m, n \in moving[s] : m = n

(***************************************************************************)
(* The copies on the list and the processes that may push one more are     *)
(* together no more than the processes there are.                          *)
(***************************************************************************)
PushesBounded ==
  \A m \in Job : "dup" \notin damage[m.id] =>
    Cardinality(Positions(m)) + Cardinality(Pushers(m)) <= Cardinality(Schedulers)

\* Sets of positions are finite.
LEMMA AtFinite ==
  ASSUME NEW list \in Seq(Job), NEW m
  PROVE  IsFiniteSet(At(list, m)) /\ Cardinality(At(list, m)) \in Nat
<1>1. IsFiniteSet(DOMAIN list)
  <2>1. DOMAIN list = 1 .. Len(list) /\ Len(list) \in Int
    OBVIOUS
  <2> QED
    BY <2>1, FS_Interval
<1>2. At(list, m) \in SUBSET (DOMAIN list)
  BY DEF At
<1>3. IsFiniteSet(At(list, m))
  BY <1>1, <1>2, FS_Subset
<1> QED
  BY <1>3, FS_CardinalityType

\* A push of the message adds one position, a push of another one none.
LEMMA PushedPositions ==
  ASSUME NEW list \in Seq(Job), NEW job \in Job, NEW m, NEW out
  PROVE  /\ job # m \/ out = "failed" => At(Pushed(list, job, out), m) = At(list, m)
         /\ out \in {"ok", "unacked"} =>
              Cardinality(At(Pushed(list, job, out), m))
                <= Cardinality(At(list, m)) + 1
<1>1. ASSUME NEW seq \in Seq(Job)
      PROVE  At(Append(seq, job), m) =
               IF job = m THEN At(seq, m) \cup {Len(seq) + 1} ELSE At(seq, m)
  <2>1. /\ DOMAIN seq = 1 .. Len(seq) /\ Len(seq) \in Nat
        /\ DOMAIN Append(seq, job) = 1 .. (Len(seq) + 1)
        /\ \A i \in 1 .. Len(seq) : Append(seq, job)[i] = seq[i]
        /\ Append(seq, job)[Len(seq) + 1] = job
    OBVIOUS
  <2>2. 1 .. (Len(seq) + 1) = (1 .. Len(seq)) \cup {Len(seq) + 1}
    BY <2>1
  <2> QED
    BY <2>1, <2>2, Zenon DEF At
<1>2. Append(list, job) \in Seq(Job)
  OBVIOUS
<1>3. job # m \/ out = "failed" => At(Pushed(list, job, out), m) = At(list, m)
  BY <1>1, <1>2 DEF Pushed
<1>4. ASSUME out \in {"ok", "unacked"}
      PROVE  Cardinality(At(Pushed(list, job, out), m))
               <= Cardinality(At(list, m)) + 1
  <2>1. Pushed(list, job, out) = Append(list, job)
    BY <1>4 DEF Pushed
  <2>2. IsFiniteSet(At(list, m)) /\ Cardinality(At(list, m)) \in Nat
    BY AtFinite
  <2>3. CASE job = m
    <3>1. At(Append(list, job), m) = At(list, m) \cup {Len(list) + 1}
      BY <1>1, <2>3
    <3>2. Cardinality(At(list, m) \cup {Len(list) + 1}) =
            IF Len(list) + 1 \in At(list, m) THEN Cardinality(At(list, m))
                                             ELSE Cardinality(At(list, m)) + 1
      BY <2>2, FS_AddElement
    <3> QED
      BY <2>1, <2>2, <3>1, <3>2
  <2>4. CASE job # m
    BY <1>1, <2>1, <2>2, <2>4
  <2> QED
    BY <2>3, <2>4
<1> QED
  BY <1>3, <1>4

\* Taking a message off a list adds no position of any.
LEMMA TailPositions ==
  ASSUME NEW list \in Seq(Job), list # <<>>, NEW m
  PROVE  Cardinality(At(Tail(list), m)) <= Cardinality(At(list, m))
<1> DEFINE shift == [i \in At(Tail(list), m) |-> i + 1]
<1>1. \A i \in At(Tail(list), m) : i \in Nat /\ i + 1 \in At(list, m)
  <2>1. /\ DOMAIN Tail(list) = 1 .. (Len(list) - 1)
        /\ DOMAIN list = 1 .. Len(list) /\ Len(list) \in Nat
        /\ \A i \in 1 .. (Len(list) - 1) : Tail(list)[i] = list[i + 1]
    OBVIOUS
  <2> QED
    BY <2>1 DEF At
<1>2. shift \in Injection(At(Tail(list), m), At(list, m))
  BY <1>1 DEF Injection, IsInjective
<1> HIDE DEF shift
<1> QED
  BY <1>2, AtFinite, FS_Injection

\* What the steps on the lists do to the positions of a message.
LEMMA PositionsChange ==
  ASSUME TypeOK, NEW m \in Job
  PROVE  /\ \A job \in Job : \A out : Enqueue(job, out) =>
              /\ job # m \/ out = "failed" => Positions(m)' = Positions(m)
              /\ out \in {"ok", "unacked"} =>
                   Cardinality(Positions(m)') <= Cardinality(Positions(m)) + 1
         /\ \A i \in DOMAIN DequeueOrder : Dequeue(i) =>
              Cardinality(Positions(m)') <= Cardinality(Positions(m))
         /\ IsFiniteSet(Positions(m)) /\ Cardinality(Positions(m)) \in Nat
<1> DEFINE p == QueueName(m.priority)
<1>1. p \in Priorities /\ queues \in [Priorities -> Seq(Job)]
  BY QueueNameType DEF TypeOK, RedisTypeOK
<1>2. Positions(m) = At(queues[p], m) /\ Positions(m)' = At(queues'[p], m)
  BY DEF Positions
<1> HIDE DEF p
<1>3. ASSUME NEW job \in Job, NEW out, Enqueue(job, out)
      PROVE  /\ job # m \/ out = "failed" => Positions(m)' = Positions(m)
             /\ out \in {"ok", "unacked"} =>
                  Cardinality(Positions(m)') <= Cardinality(Positions(m)) + 1
  <2>1. queues[p] \in Seq(Job)
    BY <1>1
  <2>2. queues'[p] = queues[p] \/ queues'[p] = Pushed(queues[p], job, out)
    BY <1>1, <1>3 DEF Enqueue
  <2> QED
    BY <1>2, <2>1, <2>2, AtFinite, PushedPositions
<1>4. ASSUME NEW i \in DOMAIN DequeueOrder, Dequeue(i)
      PROVE  Cardinality(Positions(m)') <= Cardinality(Positions(m))
  <2>1. queues[p] \in Seq(Job)
    BY <1>1
  <2>2. \/ queues'[p] = queues[p]
        \/ queues[p] # <<>> /\ queues'[p] = Tail(queues[p])
    BY <1>1, <1>4, DequeueOrderType DEF Dequeue, FirstNonEmpty
  <2> QED
    BY <1>2, <2>1, <2>2, AtFinite, TailPositions
<1>5. IsFiniteSet(Positions(m)) /\ Cardinality(Positions(m)) \in Nat
  BY <1>1, <1>2, AtFinite
<1> QED
  BY <1>3, <1>4, <1>5

\* The sets of processes that may push a message are finite.
LEMMA PushersFinite ==
  ASSUME IsFiniteSet(Schedulers), NEW m
  PROVE  /\ IsFiniteSet(Pushers(m)) /\ Cardinality(Pushers(m)) \in Nat
         /\ Cardinality(Pushers(m)) <= Cardinality(Schedulers)
         /\ Cardinality(Schedulers) \in Nat
<1>1. Pushers(m) \in SUBSET Schedulers
  BY DEF Pushers
<1>2. IsFiniteSet(Pushers(m)) /\ Cardinality(Pushers(m)) <= Cardinality(Schedulers)
  BY <1>1, FS_Subset
<1> QED
  BY <1>2, FS_CardinalityType

\* No process gets to push a message that it could not push before, unless
\* the message is new in delayed_jobs.
LEMMA PushersFlow ==
  ASSUME TypeOK, MovesOne, [Next]_vars, NEW m \in Job,
         "dup" \notin damage'[m.id], NEW s \in Schedulers, s \in Pushers(m)'
  PROVE  \/ s \in Pushers(m)
         \/ \E t \in Schedulers : m \in inflight[t] /\ EnqueueJob(t, m)
         \/ \E w \in Slots : RetryJob(w) /\ m = MarkForRetry(held[w])
<1>t. /\ moving \in [Schedulers -> SUBSET Job]
      /\ batch \in [Schedulers -> SUBSET Job]
      /\ \A job \in Job : job.id \in Jobs
      /\ ripe \subseteq delayed
  BY DEF TypeOK, RedisTypeOK, Job
<1>p. m \in batch'[s] \/ (m \in delayed' /\ m \notin moving'[s])
  BY DEF Pushers
<1>q. m \in batch[s] \/ (m \in delayed /\ m \notin moving[s]) => s \in Pushers(m)
  BY DEF Pushers
<1>1. CASE m \in batch'[s]
  <2>1. ASSUME m \notin batch[s]
        PROVE  m \in delayed /\ m \notin moving[s]
    <3>1. PICK t \in Schedulers : \/ ReadRipe(t)
                                  \/ \E job \in batch[t] : PushRipe(t, job)
                                  \/ \E job \in moving[t] : RemoveRipe(t, job)
                                  \/ EndScheduler(t)
      BY <1>1, <2>1, PromoterChange
    <3>2. ReadRipe(t)
      BY <1>1, <1>t, <2>1, <3>1 DEF PushRipe, RemoveRipe, EndScheduler
    <3> QED
      BY <1>1, <1>t, <2>1, <3>2 DEF ReadRipe
  <2> QED
    BY <1>q, <2>1
<1>2. CASE m \in delayed' /\ m \notin moving'[s]
  <2>1. ASSUME m \in delayed, m \in moving[s]
        PROVE  FALSE
    <3>1. PICK t \in Schedulers : \/ ReadRipe(t)
                                  \/ \E job \in batch[t] : PushRipe(t, job)
                                  \/ \E job \in moving[t] : RemoveRipe(t, job)
                                  \/ EndScheduler(t)
      BY <1>2, <2>1, PromoterChange
    <3>2. ~ReadRipe(t) /\ \A job \in batch[t] : ~PushRipe(t, job)
      BY <1>2, <1>t, <2>1 DEF ReadRipe, PushRipe
    <3>3. ASSUME NEW job \in moving[t], RemoveRipe(t, job)
          PROVE  FALSE
      <4>1. t = s
        BY <1>2, <1>t, <2>1, <3>3 DEF RemoveRipe
      <4>2. job = m
        BY <2>1, <4>1 DEF MovesOne
      <4>3. PICK out \in Outcomes : /\ Call(Live(t), m.id, out, {"dup"}, {})
                                    /\ RemoveDelayed(m, out)
        BY <3>3, <4>2 DEF RemoveRipe
      <4>4. out = "failed"
        BY <1>2, <4>3 DEF RemoveDelayed, Applied
      <4>5. m.id \in Jobs
        BY <1>t
      <4>6. damage'[m.id] = damage[m.id] \cup Harm(out, {"dup"}, {})
        BY <4>3, <4>5, CallHarm
      <4> QED
        BY <4>4, <4>6 DEF Harm
    <3>4. ~EndScheduler(t)
      <4>1. m.id \in Jobs
        BY <1>t
      <4>2. EndScheduler(t) => t = s
        BY <1>2, <1>t, <2>1 DEF EndScheduler
      <4> QED
        BY <2>1, <4>1, <4>2 DEF EndScheduler
    <3> QED
      BY <3>1, <3>2, <3>3, <3>4
  <2> QED
    BY <1>2, <1>q, <2>1, DelayedFlow
<1> QED
  BY <1>p, <1>1, <1>2

\* Every step keeps the copies of a message bounded.
LEMMA PushesPreserved ==
  ASSUME IsFiniteSet(Schedulers), TypeOK, RequestsApart, RunsNumbered, MovesOne,
         PushesBounded, [Next]_vars
  PROVE  PushesBounded'
<1> SUFFICES ASSUME NEW m \in Job, "dup" \notin damage'[m.id]
             PROVE  Cardinality(Positions(m)') + Cardinality(Pushers(m)')
                      <= Cardinality(Schedulers)
  BY DEF PushesBounded
<1> DEFINE N == Cardinality(Schedulers)
           C == Cardinality(Positions(m))
           D == Cardinality(Positions(m)')
           P == Cardinality(Pushers(m))
           Q == Cardinality(Pushers(m)')
<1>t. /\ m.id \in Jobs
      /\ \A s \in Schedulers : inflight[s] \subseteq Job /\ batch[s] \subseteq Job
  BY DEF TypeOK, Job
<1>p. Pushers(m)' \in SUBSET Schedulers
  BY DEF Pushers
<1>n. /\ N \in Nat /\ P \in Nat /\ C \in Nat /\ Q \in Nat /\ D \in Nat
      /\ IsFiniteSet(Pushers(m))
      /\ Q <= N
  <2>1. P \in Nat /\ N \in Nat /\ IsFiniteSet(Pushers(m))
    BY PushersFinite
  <2>2. Q <= N /\ IsFiniteSet(Pushers(m)')
    BY <1>p, FS_Subset
  <2>3. Q \in Nat
    BY <2>2, FS_CardinalityType
  <2>4. C \in Nat
    BY PositionsChange
  <2>5. D \in Nat
    <3>1. queues'[QueueName(m.priority)] \in Seq(Job)
      BY TypesPreserved, QueueNameType DEF TypeOK, RedisTypeOK
    <3> QED
      BY <3>1, AtFinite DEF Positions
  <2> QED
    BY <2>1, <2>2, <2>3, <2>4, <2>5
<1>b. C + P <= N
  BY <1>t, Kept DEF PushesBounded
<1>e. m \notin Queued => Positions(m) = {}
  <2>1. QueueName(m.priority) \in Priorities
    BY QueueNameType
  <2> QED
    BY <2>1 DEF Positions, At, Queued, Range
<1>z. Cardinality({}) = 0
  BY FS_EmptySet
<1>1. ASSUME NEW t \in Schedulers, m \in inflight[t], EnqueueJob(t, m)
      PROVE  D + Q <= N
  <2>1. m \notin Released
    BY <1>1 DEF RequestsApart
  <2>2. /\ m \notin Queued /\ m \notin delayed
        /\ \A s \in Schedulers : m \notin batch[s]
    BY <2>1, ReleasedMembers
  <2>3. PICK out \in PushOutcomes : /\ Call(TRUE, m.id, out, {"lost"}, {})
                                    /\ EnqueueDelayed(m, out) \/ Enqueue(m, out)
    BY <1>1 DEF EnqueueJob
  <2>4. CASE EnqueueDelayed(m, out)
    <3>1. Positions(m)' = {}
      BY <1>e, <2>2, <2>4 DEF EnqueueDelayed, Positions
    <3> QED
      BY <1>n, <1>z, <3>1
  <2>5. CASE Enqueue(m, out)
    <3>1. out # "repeated"
      BY <1>t, <2>3 DEF Call, Harm, TypeOK
    <3>2. C = 0
      BY <1>e, <1>z, <2>2
    <3>3. D <= 1
      <4>1. CASE out = "failed"
        BY <1>n, <2>5, <3>2, <4>1, PositionsChange
      <4>2. CASE out \in {"ok", "unacked"}
        BY <1>n, <2>5, <3>2, <4>2, PositionsChange
      <4> QED
        BY <3>1, <4>1, <4>2 DEF PushOutcomes, Outcomes
    <3>4. Pushers(m)' = {}
      <4>1. UNCHANGED <<batch, delayed>>
        BY <1>1, <2>5 DEF EnqueueJob, Enqueue, promoterVars
      <4> QED
        BY <2>2, <4>1 DEF Pushers
    <3>5. N >= 1
      <4>1. Schedulers # {}
        OBVIOUS
      <4>2. N # 0
        BY <4>1, FS_EmptySet
      <4> QED
        BY <1>n, <4>2
    <3> QED
      BY <1>n, <1>z, <3>3, <3>4, <3>5
  <2> QED
    BY <2>3, <2>4, <2>5
<1>2. ASSUME NEW w \in Slots, RetryJob(w), m = MarkForRetry(held[w])
      PROVE  D + Q <= N
  <2>1. pc[w] = "failed" /\ held[w] \in Job /\ UNCHANGED queues
    BY <1>2 DEF RetryJob, EnqueueDelayed, TypeOK
  <2>2. m.id = held[w].id /\ m.run = held[w].run
    <3>1. 1 \in Nat
      OBVIOUS
    <3> QED
      BY <1>2, <2>1, <3>1, MarkTypes, MarkRuns
  <2>3. m \notin Waiting
    BY <2>1, <2>2 DEF RunsNumbered
  <2>4. m \notin Queued
    BY <2>3, ReleasedMembers
  <2>5. Positions(m)' = {}
    BY <1>e, <2>1, <2>4 DEF Positions
  <2> QED
    BY <1>n, <1>z, <2>5
<1>3. ASSUME Pushers(m)' \subseteq Pushers(m)
      PROVE  Q <= P
  BY <1>3, <1>n, FS_Subset
<1>4. ASSUME NEW s \in Schedulers, m \in batch[s], PushRipe(s, m),
             Pushers(m)' \subseteq Pushers(m)
      PROVE  D + Q <= N
  <2>1. PICK out \in PushOutcomes :
          /\ Call(Live(s), m.id, out, {}, {"dup"})
          /\ Enqueue(m, out)
          /\ moving' = IF Acknowledged(out) THEN [moving EXCEPT ![s] = {m}]
                                            ELSE moving
    BY <1>4 DEF PushRipe
  <2>2. out \in {"ok", "failed"}
    <3>1. damage'[m.id] = damage[m.id] \cup Harm(out, {}, {"dup"})
      BY <1>t, <2>1, CallHarm
    <3>2. out # "repeated" /\ out # "unacked"
      BY <3>1 DEF Harm
    <3> QED
      BY <3>2 DEF PushOutcomes, Outcomes
  <2>3. CASE out = "failed"
    <3>1. D = C
      BY <2>1, <2>3, PositionsChange
    <3> QED
      BY <1>3, <1>4, <1>b, <1>n, <3>1
  <2>4. CASE out = "ok"
    <3>1. D <= C + 1
      BY <2>1, <2>4, PositionsChange
    <3>2. s \in Pushers(m)
      BY <1>4 DEF Pushers
    <3>3. s \notin Pushers(m)'
      BY <1>4, <2>1, <2>4 DEF PushRipe, TypeOK, Acknowledged, Pushers
    <3>4. /\ IsFiniteSet(Pushers(m) \ {s})
          /\ Cardinality(Pushers(m) \ {s}) = P - 1
      BY <1>n, <3>2, FS_RemoveElement
    <3>5. Pushers(m)' \in SUBSET (Pushers(m) \ {s})
      BY <1>4, <3>3
    <3>6. Q <= P - 1
      BY <3>4, <3>5, FS_Subset
    <3> QED
      BY <1>b, <1>n, <3>1, <3>6
  <2> QED
    BY <2>2, <2>3, <2>4
<1>5. ASSUME \A s \in Schedulers : ~(m \in batch[s] /\ PushRipe(s, m)),
             \A s \in Schedulers : ~(m \in inflight[s] /\ EnqueueJob(s, m))
      PROVE  D <= C
  <2>1. CASE queues' = queues
    BY <1>n, <2>1 DEF Positions
  <2>2. ASSUME NEW job \in Job, NEW out, Enqueue(job, out), job # m
        PROVE  D <= C
    BY <1>n, <2>2, PositionsChange
  <2>3. ASSUME NEW s \in Schedulers, NEW job \in inflight[s], EnqueueJob(s, job),
               queues' # queues
        PROVE  D <= C
    <3>1. \E out : Enqueue(job, out)
      BY <2>3 DEF EnqueueJob, EnqueueDelayed
    <3> QED
      BY <1>5, <1>t, <2>2, <2>3, <3>1
  <2>4. ASSUME NEW s \in Schedulers, NEW job \in batch[s], PushRipe(s, job)
        PROVE  D <= C
    <3>1. \E out : Enqueue(job, out)
      BY <2>4 DEF PushRipe
    <3> QED
      BY <1>5, <1>t, <2>2, <2>4, <3>1
  <2>5. ASSUME NEW w \in Slots, ProcessNextJob(w)
        PROVE  D <= C
    BY <2>5, PositionsChange DEF ProcessNextJob
  <2> QED
    BY <2>1, <2>3, <2>4, <2>5, QueuesChange
<1>6. CASE Pushers(m)' \subseteq Pushers(m)
  <2>1. CASE \E s \in Schedulers : m \in batch[s] /\ PushRipe(s, m)
    BY <1>4, <1>6, <2>1
  <2>2. CASE \E s \in Schedulers : m \in inflight[s] /\ EnqueueJob(s, m)
    BY <1>1, <2>2
  <2>3. CASE /\ \A s \in Schedulers : ~(m \in batch[s] /\ PushRipe(s, m))
             /\ \A s \in Schedulers : ~(m \in inflight[s] /\ EnqueueJob(s, m))
    <3>1. D <= C /\ Q <= P
      BY <1>3, <1>5, <1>6, <2>3
    <3> QED
      BY <1>b, <1>n, <3>1
  <2> QED
    BY <2>1, <2>2, <2>3
<1> QED
  BY <1>1, <1>2, <1>6, <1>p, PushersFlow

(***************************************************************************)
(* However many scheduler processes there are, each pushes a delayed       *)
(* message once at most: as long as every ZREM is carried out and every    *)
(* push answered, no more copies of one message wait to be run than there  *)
(* are processes.                                                          *)
(***************************************************************************)
THEOREM MessageCopiesBounded ==
  ASSUME IsFiniteSet(Schedulers)
  PROVE  Spec => []CopiesBounded
<1>1. Init => MovesOne /\ PushesBounded
  <2> SUFFICES ASSUME Init PROVE MovesOne /\ PushesBounded
    OBVIOUS
  <2>1. MovesOne
    BY DEF Init, MovesOne
  <2>2. ASSUME NEW m \in Job
        PROVE  /\ Cardinality(Positions(m)) + Cardinality(Pushers(m))
                    <= Cardinality(Schedulers)
    <3>1. QueueName(m.priority) \in Priorities
      BY QueueNameType
    <3>2. queues[QueueName(m.priority)] = <<>>
      BY <3>1 DEF Init, RedisInit
    <3>3. Positions(m) = {}
      BY <3>2 DEF Positions, At
    <3>4. Cardinality(Positions(m)) = 0
      BY <3>3, FS_EmptySet
    <3> QED
      BY <3>4, PushersFinite
  <2> QED
    BY <2>1, <2>2 DEF PushesBounded
<1>2. TypeOK /\ MovesOne /\ [Next]_vars => MovesOne'
  <2> SUFFICES ASSUME TypeOK, MovesOne, [Next]_vars, NEW s \in Schedulers
               PROVE  \A m, n \in moving'[s] : m = n
    BY DEF MovesOne
  <2>1. ASSUME NEW t \in Schedulers, NEW job \in batch[t], PushRipe(t, job)
        PROVE  moving'[s] = moving[s] \/ moving'[s] = {job}
    BY <2>1 DEF TypeOK, PushRipe
  <2>2. ASSUME NEW t \in Schedulers,
               \/ ReadRipe(t)
               \/ \E job \in moving[t] : RemoveRipe(t, job)
               \/ EndScheduler(t)
        PROVE  moving'[s] = moving[s] \/ moving'[s] = {}
    BY <2>2 DEF TypeOK, ReadRipe, RemoveRipe, EndScheduler
  <2>3. CASE UNCHANGED <<batch, moving>>
    BY <2>3 DEF MovesOne
  <2> QED
    BY <2>1, <2>2, <2>3, PromoterChange DEF MovesOne
<1>3. /\ TypeOK /\ RequestsApart /\ RunsNumbered /\ MovesOne /\ PushesBounded
      /\ [Next]_vars
      => PushesBounded'
  BY PushesPreserved
<1>4. TypeOK /\ PushesBounded => CopiesBounded
  <2> SUFFICES ASSUME TypeOK, PushesBounded, NEW m \in Queued,
                      "dup" \notin damage[m.id]
               PROVE  Cardinality(Positions(m)) <= Cardinality(Schedulers)
    BY DEF CopiesBounded, Positions, At
  <2>1. m \in Job
    BY MessageType DEF Messages
  <2>2. /\ Cardinality(Positions(m)) \in Nat
        /\ Cardinality(Pushers(m)) \in Nat
        /\ Cardinality(Schedulers) \in Nat
        /\ Cardinality(Positions(m)) + Cardinality(Pushers(m))
             <= Cardinality(Schedulers)
    BY <2>1, PositionsChange, PushersFinite DEF PushesBounded
  <2> QED
    BY <2>2
<1> QED
  BY <1>1, <1>2, <1>3, <1>4, TypeCorrect, RunsInOrder, PTL DEF Spec

-----------------------------------------------------------------------------
(***************************************************************************)
(* The statistics.                                                         *)
(***************************************************************************)

\* Every message has the priority the job was submitted with, and every list
\* holds the messages of its priority.
ListsSorted ==
  /\ \A m \in Messages : m.priority = submitted[m.id].priority
  /\ \A p \in Priorities : \A i \in DOMAIN queues[p] :
       QueueName(queues[p][i].priority) = p

\* A message at a position of a list was on that list, or belongs there.
LEMMA ListOrigin ==
  ASSUME TypeOK, [Next]_vars, NEW p \in Priorities, NEW i \in DOMAIN queues'[p]
  PROVE  \/ \E k \in DOMAIN queues[p] : queues'[p][i] = queues[p][k]
         \/ QueueName(queues'[p][i].priority) = p
<1> DEFINE Goal == \/ \E k \in DOMAIN queues[p] : queues'[p][i] = queues[p][k]
                   \/ QueueName(queues'[p][i].priority) = p
<1>0. queues[p] \in Seq(Job) /\ queues \in [Priorities -> Seq(Job)]
  BY DEF TypeOK, RedisTypeOK
<1>1. ASSUME NEW job \in Job, NEW out, Enqueue(job, out)
      PROVE  Goal
  <2>1. IF p = QueueName(job.priority)
        THEN queues'[p] = Pushed(queues[p], job, out)
        ELSE queues'[p] = queues[p]
    BY <1>0, <1>1 DEF Enqueue
  <2>2. CASE p = QueueName(job.priority)
    <3>1. i \in DOMAIN Pushed(queues[p], job, out)
      BY <2>1, <2>2
    <3> QED
      BY <1>0, <2>1, <2>2, <3>1, PushedAt
  <2>3. CASE p # QueueName(job.priority)
    BY <2>1, <2>3
  <2> QED
    BY <2>2, <2>3
<1>2. ASSUME NEW d \in DOMAIN DequeueOrder, Dequeue(d)
      PROVE  Goal
  <2>1. \/ queues'[p] = queues[p]
        \/ queues[p] # <<>> /\ queues'[p] = Tail(queues[p])
    BY <1>0, <1>2, DequeueOrderType DEF Dequeue, FirstNonEmpty
  <2>2. CASE queues'[p] = queues[p]
    BY <2>2
  <2>3. CASE queues[p] # <<>> /\ queues'[p] = Tail(queues[p])
    <3>1. /\ DOMAIN Tail(queues[p]) = 1 .. (Len(queues[p]) - 1)
          /\ DOMAIN queues[p] = 1 .. Len(queues[p]) /\ Len(queues[p]) \in Nat
          /\ \A k \in 1 .. (Len(queues[p]) - 1) :
               Tail(queues[p])[k] = queues[p][k + 1]
      BY <1>0, <2>3
    <3>2. i + 1 \in DOMAIN queues[p] /\ queues'[p][i] = queues[p][i + 1]
      BY <2>3, <3>1
    <3> QED
      BY <3>2
  <2> QED
    BY <2>1, <2>2, <2>3
<1>3. CASE queues' = queues
  BY <1>3
<1>4. CASE queues' # queues
  <2>1. CASE \E s \in Schedulers : \E job \in inflight[s] : EnqueueJob(s, job)
    <3>0. PICK s \in Schedulers : \E job \in inflight[s] : EnqueueJob(s, job)
      BY <2>1
    <3>1. PICK job \in inflight[s] : EnqueueJob(s, job)
      BY <3>0
    <3>2. job \in Job /\ \E out : Enqueue(job, out)
      BY <1>4, <3>1 DEF EnqueueJob, EnqueueDelayed, TypeOK
    <3> QED
      BY <1>1, <3>2
  <2>2. CASE \E s \in Schedulers : \E job \in batch[s] : PushRipe(s, job)
    <3>0. PICK s \in Schedulers : \E job \in batch[s] : PushRipe(s, job)
      BY <2>2
    <3>1. PICK job \in batch[s] : PushRipe(s, job)
      BY <3>0
    <3>2. job \in Job /\ \E out : Enqueue(job, out)
      BY <3>1 DEF PushRipe, TypeOK
    <3> QED
      BY <1>1, <3>2
  <2>3. CASE \E w \in Slots : ProcessNextJob(w)
    BY <1>2, <2>3 DEF ProcessNextJob
  <2> QED
    BY <1>4, <2>1, <2>2, <2>3, QueuesChange
<1> QED
  BY <1>3, <1>4

\* The status changes leave the priority alone.
LEMMA MarkPriority ==
  ASSUME NEW job \in Job
  PROVE  /\ \A run : MarkAsProcessing(job, run).priority = job.priority
         /\ MarkAsCompleted(job).priority = job.priority
         /\ MarkAsFailed(job).priority = job.priority
         /\ MarkAsDead(job).priority = job.priority
         /\ MarkForRetry(job).priority = job.priority
BY DEF Job, MarkAsProcessing, MarkAsCompleted, MarkAsFailed, MarkAsDead,
       MarkForRetry

\* The lists stay sorted.
LEMMA ListsStaySorted ==
  ASSUME TypeOK, AttemptsCounted, ListsSorted, [Next]_vars
  PROVE  ListsSorted'
<1>1. ASSUME NEW m \in Messages'
      PROVE  m.priority = submitted'[m.id].priority
  <2>1. \A n \in Messages : n.id \in Jobs /\ submitted'[n.id] = submitted[n.id]
    BY MessageType, Kept DEF AttemptsCounted
  <2>2. CASE m \in Messages
    BY <2>1, <2>2 DEF ListsSorted
  <2>3. ASSUME NEW s \in Schedulers, NEW j \in Jobs, NEW req \in Requests,
               ScheduleJob(s, j, req), m = NewJob(j, req)
        PROVE  m.priority = submitted'[m.id].priority
    <3>1. m.id = j
      BY <2>3 DEF NewJob
    <3>2. submitted'[j] = m
      BY <2>3 DEF ScheduleJob, TypeOK
    <3> QED
      BY <3>1, <3>2
  <2>4. ASSUME NEW w \in Slots, pc[w] # "idle", Made(w, m)
        PROVE  m.priority = submitted'[m.id].priority
    <3>1. m.id = held[w].id /\ held[w] \in Messages /\ held[w] \in Job
      BY <2>4, MadeIdentity, MessageType
    <3>2. m.priority = held[w].priority
      BY <2>4, <3>1, MarkPriority DEF Made
    <3> QED
      BY <2>1, <3>1, <3>2 DEF ListsSorted
  <2> QED
    BY <1>1, <2>2, <2>3, <2>4, MessageOrigin
<1>2. ASSUME NEW p \in Priorities, NEW i \in DOMAIN queues'[p]
      PROVE  QueueName(queues'[p][i].priority) = p
  BY <1>2, ListOrigin DEF ListsSorted
<1> QED
  BY <1>1, <1>2 DEF ListsSorted

\* The table has finitely many rows, since every step adds one at most.
LEMMA RowsFinite ==
  ASSUME TypeOK, PersistedFirst, IsFiniteSet(SavedJobs), [Next]_vars
  PROVE  IsFiniteSet(SavedJobs')
<1>1. CASE \E s \in Schedulers, j \in Jobs, req \in Requests : ScheduleJob(s, j, req)
  <2>1. PICK s \in Schedulers, i \in Jobs, req \in Requests : ScheduleJob(s, i, req)
    BY <1>1
  <2>2. NewJob(i, req).id = i
    BY DEF NewJob
  <2>3. \A j \in Jobs \ {i} : jobs'[j] = jobs[j]
    BY <2>1, <2>2 DEF ScheduleJob, SaveJob, Save, TypeOK, StorageTypeOK
  <2>4. SavedJobs' \subseteq SavedJobs \cup {i}
    BY <2>3 DEF SavedJobs, Saved
  <2>5. IsFiniteSet(SavedJobs \cup {i})
    BY FS_AddElement
  <2> QED
    BY <2>4, <2>5, FS_Subset
<1>2. CASE ~ \E s \in Schedulers, j \in Jobs, req \in Requests : ScheduleJob(s, j, req)
  <2>1. \A j \in Jobs : Saved(j)' => Saved(j)
    <3> SUFFICES ASSUME NEW j \in Jobs, Saved(j)', ~Saved(j)
                 PROVE  FALSE
      OBVIOUS
    <3>1. jobs'[j] # jobs[j]
      BY DEF Saved
    <3>2. PICK w \in Slots : pc[w] # "idle" /\ held[w].id = j
      BY <1>2, <3>1, RowFlow
    <3>3. held[w] \in Messages
      BY <3>2 DEF Messages, HeldMessages
    <3> QED
      BY <3>2, <3>3 DEF PersistedFirst
  <2>2. SavedJobs' \subseteq SavedJobs
    BY <2>1 DEF SavedJobs
  <2> QED
    BY <2>2, FS_Subset
<1> QED
  BY <1>1, <1>2

\* The jobs whose messages belong on list p.
ListedJobs(p) == {j \in SavedJobs : QueueName(submitted[j].priority) = p}

\* The six answers are a list of six, the first four of them lengths.
LEMMA SnapshotIs ==
  ASSUME TypeOK
  PROVE  /\ Len(Snapshot) = 6
         /\ \A i \in 1 .. 4 : Snapshot[i] = Len(queues[i]) /\ Snapshot[i] \in Nat
<1> DEFINE Lengths == [i \in 1 .. 4 |-> Len(queues[ActiveOrder[i]])]
           Others  == <<Cardinality(delayed), Len(deadLetter)>>
           All     == Nat \cup {Cardinality(delayed), Len(deadLetter)}
<1>1. \A i \in 1 .. 4 : ActiveOrder[i] = i /\ i \in Priorities
  BY DEF ActiveOrder, Priorities, PriorityLow, PriorityMedium, PriorityHigh,
         PriorityCritical
<1>2. \A i \in 1 .. 4 : Lengths[i] = Len(queues[i]) /\ Lengths[i] \in Nat
  <2>1. \A i \in 1 .. 4 : queues[i] \in Seq(Job)
    BY <1>1 DEF TypeOK, RedisTypeOK
  <2> QED
    BY <1>1, <2>1
<1>3. Lengths \in Seq(All) /\ Len(Lengths) = 4
  <2>1. Lengths \in [1 .. 4 -> All]
    BY <1>2
  <2> HIDE DEF Lengths, All
  <2>2. \A n \in Nat : \A g \in [1 .. n -> All] : g \in Seq(All) /\ Len(g) = n
    OBVIOUS
  <2> QED
    BY <2>1, <2>2, 4 \in Nat, Zenon
<1>4. Others \in Seq(All) /\ Len(Others) = 2
  OBVIOUS
<1>5. \A T : \A s, u \in Seq(T) :
        /\ Len(s \o u) = Len(s) + Len(u)
        /\ \A i \in 1 .. Len(s) : (s \o u)[i] = s[i]
  OBVIOUS
<1>6. Snapshot = Lengths \o Others
  BY DEF Snapshot
<1> HIDE DEF Lengths, Others, All
<1>7. /\ Len(Snapshot) = Len(Lengths) + Len(Others)
      /\ \A i \in 1 .. Len(Lengths) : Snapshot[i] = Lengths[i]
  BY <1>3, <1>4, <1>5, <1>6
<1> QED
  BY <1>2, <1>3, <1>4, <1>7

(***************************************************************************)
(* A list is never longer than the number of the jobs that belong on it:   *)
(* it holds a message of each of them once at most, where no fault has     *)
(* made a second copy.                                                     *)
(***************************************************************************)
LEMMA ListBounded ==
  ASSUME TypeOK, PersistedFirst, CopiesSingle, ListsSorted,
         IsFiniteSet(SavedJobs), \A j \in Jobs : "dup" \notin damage[j],
         NEW p \in Priorities
  PROVE  Len(queues[p]) <= Cardinality(ListedJobs(p))
<1> DEFINE D == 1 .. Len(queues[p])
           f == [i \in D |-> queues[p][i].id]
<1>1. queues[p] \in Seq(Job) /\ Len(queues[p]) \in Nat /\ DOMAIN queues[p] = D
  BY DEF TypeOK, RedisTypeOK
<1>2. ASSUME NEW i \in D
      PROVE  queues[p][i] \in Messages /\ queues[p][i].id \in ListedJobs(p)
  <2>1. queues[p][i] \in Range(queues[p])
    BY <1>1 DEF Range
  <2>2. queues[p][i] \in Queued
    BY <2>1, Zenon DEF Queued
  <2>3. queues[p][i] \in Messages
    BY <2>2 DEF Messages
  <2>4. queues[p][i].id \in Jobs /\ Saved(queues[p][i].id)
    BY <2>3, MessageType DEF PersistedFirst
  <2>5. QueueName(submitted[queues[p][i].id].priority) = p
    BY <1>1, <2>3 DEF ListsSorted
  <2> QED
    BY <2>3, <2>4, <2>5, Zenon DEF ListedJobs, SavedJobs
<1>3. ASSUME NEW i \in D, NEW k \in D, queues[p][i].id = queues[p][k].id
      PROVE  i = k
  <2>1. queues[p][i].id \in Jobs
    BY <1>2, Zenon DEF ListedJobs, SavedJobs
  <2>2. ListOnce(queues[p][i].id)
    BY <2>1 DEF CopiesSingle, OneCopy
  <2> QED
    BY <1>1, <1>3, <2>2 DEF ListOnce
<1>4. f \in Injection(D, ListedJobs(p))
  BY <1>2, <1>3 DEF Injection, IsInjective
<1>5. ListedJobs(p) \subseteq SavedJobs
  BY Zenon DEF ListedJobs
<1>6. IsFiniteSet(ListedJobs(p))
  BY <1>5, FS_Subset
<1>7. Cardinality(D) <= Cardinality(ListedJobs(p))
  BY <1>4, <1>6, FS_Injection
<1>8. \A m \in Nat : Cardinality(1 .. m) = m
  BY FS_Interval
<1> QED
  BY <1>1, <1>7, <1>8

(***************************************************************************)
(* What the call has read: at most six answers, and each of the first four *)
(* is at most the number of the jobs of that priority that exist now,      *)
(* however long ago it was read.                                           *)
(***************************************************************************)
StatsBounded ==
  /\ \E S : stats \in Seq(S)
  /\ Len(stats) <= 6
  /\ (\A j \in Jobs : "dup" \notin damage[j]) =>
       \A i \in 1 .. 4 : i <= Len(stats) =>
         stats[i] \in Nat /\ stats[i] <= Cardinality(ListedJobs(i))

\* The first four answers are those of the four lists.
LEMMA ListNumbers == 1 .. 4 = Priorities
BY DEF Priorities, PriorityLow, PriorityMedium, PriorityHigh, PriorityCritical

\* A step of the system removes no job from those of a priority.
LEMMA ListedJobsGrow ==
  ASSUME TypeOK, RequestsApart, PersistedFirst, IsFiniteSet(SavedJobs),
         [Next]_vars, NEW p
  PROVE  /\ IsFiniteSet(ListedJobs(p)) /\ IsFiniteSet(ListedJobs(p)')
         /\ Cardinality(ListedJobs(p)) <= Cardinality(ListedJobs(p)')
<1>1. IsFiniteSet(SavedJobs')
  BY RowsFinite
<1>2. ListedJobs(p) \subseteq SavedJobs /\ ListedJobs(p)' \subseteq SavedJobs'
  BY Zenon DEF ListedJobs
<1>3. ASSUME NEW j \in ListedJobs(p)
      PROVE  j \in ListedJobs(p)'
  <2>1. j \in Jobs /\ Saved(j) /\ QueueName(submitted[j].priority) = p
    BY Zenon DEF ListedJobs, SavedJobs
  <2>2. submitted[j] # NoJob
    BY <2>1 DEF RequestsApart
  <2>3. Saved(j)' /\ submitted'[j] = submitted[j]
    BY <2>1, <2>2, Kept
  <2>4. QueueName(submitted'[j].priority) = p
    BY <2>1, <2>3
  <2> QED
    BY <2>1, <2>3, <2>4, Zenon DEF ListedJobs, SavedJobs
<1>4. ListedJobs(p) \subseteq ListedJobs(p)'
  BY <1>3
<1>5. IsFiniteSet(ListedJobs(p)) /\ IsFiniteSet(ListedJobs(p)')
  BY <1>1, <1>2, FS_Subset
<1> QED
  BY <1>4, <1>5, FS_Subset

\* The bound on what has been read is preserved by every step of the call
\* and of the system.
LEMMA StatsBoundedPreserved ==
  ASSUME TypeOK, RequestsApart, PersistedFirst, CopiesSingle, ListsSorted,
         IsFiniteSet(SavedJobs), StatsBounded, [StatsNext]_statsVars
  PROVE  StatsBounded'
<1>1. ASSUME stats' = <<>>
      PROVE  StatsBounded'
  <2>1. <<>> \in Seq(Nat) /\ Len(<<>>) = 0
    OBVIOUS
  <2>2. ~ \E i \in 1 .. 4 : i <= 0
    OBVIOUS
  <2> QED
    BY <1>1, <2>1, <2>2 DEF StatsBounded
<1>2. CASE ReadLength
  <2>1. PICK S : stats \in Seq(S)
    BY DEF StatsBounded
  <2> DEFINE x == Snapshot[Len(stats) + 1]
  <2>2. \A s \in Seq(S) : \A y :
          /\ Append(s, y) \in Seq(S \cup {y})
          /\ Len(s) \in Nat
          /\ Len(Append(s, y)) = Len(s) + 1
          /\ \A i \in 1 .. Len(s) : Append(s, y)[i] = s[i]
          /\ Append(s, y)[Len(s) + 1] = y
    OBVIOUS
  <2>3. stats' = Append(stats, x) /\ UNCHANGED vars /\ Len(stats) # Len(Snapshot)
    BY <1>2 DEF ReadLength, Done
  <2> HIDE DEF x
  <2>4. /\ stats' \in Seq(S \cup {x})
        /\ Len(stats) \in Nat
        /\ Len(stats') = Len(stats) + 1
        /\ \A i \in 1 .. Len(stats) : stats'[i] = stats[i]
        /\ stats'[Len(stats) + 1] = x
    BY <2>1, <2>2, <2>3
  <2>5. Len(stats') <= 6
    BY <2>3, <2>4, SnapshotIs DEF StatsBounded
  <2>6. ASSUME \A j \in Jobs : "dup" \notin damage'[j],
               NEW i \in 1 .. 4, i <= Len(stats')
        PROVE  stats'[i] \in Nat /\ stats'[i] <= Cardinality(ListedJobs(i)')
    <3>1. UNCHANGED <<jobs, submitted, damage>>
      BY <2>3 DEF vars, storageVars, schedulerVars
    <3>2. ListedJobs(i)' = ListedJobs(i)
      BY <3>1 DEF ListedJobs, SavedJobs, Saved
    <3>3. \A j \in Jobs : "dup" \notin damage[j]
      BY <2>6, <3>1
    <3>4. CASE i <= Len(stats)
      <4>1. stats'[i] = stats[i]
        BY <2>4, <3>4
      <4> QED
        BY <3>2, <3>3, <3>4, <4>1 DEF StatsBounded
    <3>5. CASE i = Len(stats) + 1
      <4>1. stats'[i] = Len(queues[i]) /\ Len(queues[i]) \in Nat
        BY <2>4, <3>5, SnapshotIs DEF x
      <4>2. Len(queues[i]) <= Cardinality(ListedJobs(i))
        BY <3>3, ListBounded, ListNumbers
      <4> QED
        BY <3>2, <4>1, <4>2
    <3> QED
      BY <2>4, <2>6, <3>4, <3>5
  <2> QED
    BY <2>4, <2>5, <2>6 DEF StatsBounded
<1>3. ASSUME [Next]_vars, stats' = stats
      PROVE  StatsBounded'
  <2>1. ASSUME \A j \in Jobs : "dup" \notin damage'[j],
               NEW i \in 1 .. 4, i <= Len(stats)
        PROVE  stats[i] \in Nat /\ stats[i] <= Cardinality(ListedJobs(i)')
    <3>1. \A j \in Jobs : "dup" \notin damage[j]
      BY <1>3, <2>1, Kept
    <3>2. stats[i] \in Nat /\ stats[i] <= Cardinality(ListedJobs(i))
      BY <2>1, <3>1 DEF StatsBounded
    <3>3. /\ IsFiniteSet(ListedJobs(i)) /\ IsFiniteSet(ListedJobs(i)')
          /\ Cardinality(ListedJobs(i)) <= Cardinality(ListedJobs(i)')
      BY <1>3, ListedJobsGrow
    <3>4. Cardinality(ListedJobs(i)) \in Nat /\ Cardinality(ListedJobs(i)') \in Nat
      BY <3>3, FS_CardinalityType
    <3> QED
      BY <3>2, <3>3, <3>4
  <2> QED
    BY <1>3, <2>1 DEF StatsBounded
<1> QED
  BY <1>1, <1>2, <1>3
  DEF StatsNext, BeginStats, StatsFail, SystemStep, statsVars

\* The jobs of the four priorities are different ones, so together they are
\* no more than all of them.
LEMMA FourLists ==
  ASSUME IsFiniteSet(SavedJobs)
  PROVE  /\ \A p : Cardinality(ListedJobs(p)) \in Nat
         /\ Cardinality(SavedJobs) \in Nat
         /\ Cardinality(ListedJobs(1)) + Cardinality(ListedJobs(2))
              + Cardinality(ListedJobs(3)) + Cardinality(ListedJobs(4))
            <= Cardinality(SavedJobs)
<1>1. \A p : ListedJobs(p) \subseteq SavedJobs
  BY Zenon DEF ListedJobs
<1>2. \A p : IsFiniteSet(ListedJobs(p))
  BY <1>1, FS_Subset
<1>3. \A p : Cardinality(ListedJobs(p)) \in Nat
  BY <1>2, FS_CardinalityType
<1>4. Cardinality(SavedJobs) \in Nat
  BY FS_CardinalityType
<1>5. \A p, q : p # q => ListedJobs(p) \cap ListedJobs(q) = {}
  BY DEF ListedJobs
<1>6. \A S, T : IsFiniteSet(S) /\ IsFiniteSet(T) /\ S \cap T = {} =>
        /\ IsFiniteSet(S \cup T)
        /\ Cardinality(S \cup T) = Cardinality(S) + Cardinality(T)
  <2> SUFFICES ASSUME NEW S, NEW T, IsFiniteSet(S), IsFiniteSet(T),
                      S \cap T = {}
               PROVE  /\ IsFiniteSet(S \cup T)
                      /\ Cardinality(S \cup T) = Cardinality(S) + Cardinality(T)
    OBVIOUS
  <2>1. Cardinality(S) \in Nat /\ Cardinality(T) \in Nat
    BY FS_CardinalityType
  <2>2. Cardinality(S \cap T) = 0
    BY FS_EmptySet
  <2>3. /\ IsFiniteSet(S \cup T)
        /\ Cardinality(S \cup T) = Cardinality(S) + Cardinality(T) - Cardinality(S \cap T)
    BY FS_Union
  <2> QED
    BY <2>1, <2>2, <2>3
<1> DEFINE A == ListedJobs(1) \cup ListedJobs(2)
           B == ListedJobs(3) \cup ListedJobs(4)
<1>7. /\ IsFiniteSet(A)
      /\ Cardinality(A) = Cardinality(ListedJobs(1)) + Cardinality(ListedJobs(2))
  BY <1>2, <1>5, <1>6, 1 # 2
<1>8. /\ IsFiniteSet(B)
      /\ Cardinality(B) = Cardinality(ListedJobs(3)) + Cardinality(ListedJobs(4))
  BY <1>2, <1>5, <1>6, 3 # 4
<1>9. A \cap B = {}
  <2>1. /\ ListedJobs(1) \cap ListedJobs(3) = {}
        /\ ListedJobs(1) \cap ListedJobs(4) = {}
        /\ ListedJobs(2) \cap ListedJobs(3) = {}
        /\ ListedJobs(2) \cap ListedJobs(4) = {}
    BY <1>5
  <2> QED
    BY <2>1
<1>10. A \cup B \subseteq SavedJobs
  BY <1>1
<1> HIDE DEF A, B
<1>11. Cardinality(A \cup B) = Cardinality(A) + Cardinality(B)
  BY <1>6, <1>7, <1>8, <1>9
<1>12. Cardinality(A \cup B) <= Cardinality(SavedJobs)
  BY <1>10, FS_Subset
<1> QED
  BY <1>3, <1>4, <1>7, <1>8, <1>11, <1>12

(***************************************************************************)
(* GetQueueStats asks for the four lengths one after the other while jobs  *)
(* go on moving, and still counts no job as active twice, with one         *)
(* scheduler process and where no fault has doubled a job.  The argument:  *)
(* a message keeps its job's priority through every retry and so its list, *)
(* a list holds a job once at most, and jobs are never deleted, so each    *)
(* answer stays bounded by the jobs of its priority.                       *)
(***************************************************************************)
THEOREM StatsCountOnce ==
  ASSUME OneScheduler
  PROVE  StatsSpec => []ActiveCountedOnce
<1>1. StatsInit => Init
  BY DEF StatsInit
<1>2. [StatsNext]_statsVars => [Next]_vars
  BY DEF StatsNext, BeginStats, ReadLength, StatsFail, SystemStep, statsVars
<1>3. StatsSpec => Spec
  BY <1>1, <1>2, PTL DEF StatsSpec, Spec
<1>4. StatsInit => ListsSorted /\ IsFiniteSet(SavedJobs) /\ StatsBounded
  <2> SUFFICES ASSUME Init, stats = <<>>
               PROVE  ListsSorted /\ IsFiniteSet(SavedJobs) /\ StatsBounded
    BY DEF StatsInit
  <2>1. Messages = {}
    BY DEF Init, RedisInit, Messages, Queued, Buried, SchedulerMessages,
           HeldMessages, Range
  <2>2. SavedJobs = {}
    BY DEF Init, StorageInit, SavedJobs, Saved
  <2>3. <<>> \in Seq(Nat) /\ Len(<<>>) = 0 /\ ~ \E i \in 1 .. 4 : i <= 0
    OBVIOUS
  <2>4. \A p \in Priorities : queues[p] = <<>> /\ DOMAIN queues[p] = {}
    BY DEF Init, RedisInit
  <2> QED
    BY <2>1, <2>2, <2>3, <2>4, FS_EmptySet DEF ListsSorted, StatsBounded
<1>5. /\ TypeOK /\ AttemptsCounted /\ RequestsApart /\ PersistedFirst
      /\ CopiesSingle
      /\ ListsSorted /\ IsFiniteSet(SavedJobs) /\ StatsBounded
      /\ [StatsNext]_statsVars
      => ListsSorted' /\ IsFiniteSet(SavedJobs)' /\ StatsBounded'
  BY <1>2, ListsStaySorted, RowsFinite, StatsBoundedPreserved
<1>6. IsFiniteSet(SavedJobs) /\ StatsBounded => ActiveCountedOnce
  <2> SUFFICES ASSUME IsFiniteSet(SavedJobs), StatsBounded,
                      \A j \in Jobs : "dup" \notin damage[j]
               PROVE  Counted(1) + Counted(2) + Counted(3) + Counted(4)
                        <= Cardinality(SavedJobs)
    BY DEF ActiveCountedOnce
  <2>1. ASSUME NEW i \in 1 .. 4
        PROVE  Counted(i) \in Nat /\ Counted(i) <= Cardinality(ListedJobs(i))
    BY FourLists DEF Counted, StatsBounded
  <2>2. /\ Counted(1) \in Nat /\ Counted(1) <= Cardinality(ListedJobs(1))
        /\ Counted(2) \in Nat /\ Counted(2) <= Cardinality(ListedJobs(2))
        /\ Counted(3) \in Nat /\ Counted(3) <= Cardinality(ListedJobs(3))
        /\ Counted(4) \in Nat /\ Counted(4) <= Cardinality(ListedJobs(4))
    BY <2>1
  <2> QED
    BY <2>2, FourLists
<1> QED
  BY <1>3, <1>4, <1>5, <1>6, TypeCorrect, LedgerCorrect, RunsInOrder,
     EveryMessageSaved, CopiesInOrder, PTL
  DEF StatsSpec
==============================================================================
