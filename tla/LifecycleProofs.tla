---------------------------- MODULE LifecycleProofs --------------------------
(***************************************************************************)
(* The proof that JobService with one scheduler process implements         *)
(* JobLifecycle, for any number of jobs, workers, goroutines and faults.   *)
(***************************************************************************)
EXTENDS SoleSchedulerProofs, JobServiceRefinement

-----------------------------------------------------------------------------
(***************************************************************************)
(* The refinement mapping, job by job.                                     *)
(***************************************************************************)

\* The step leaves everything about the job that the mapping reads alone ...
SameRecord(j) ==
  /\ Saved(j)' <=> Saved(j)
  /\ effects'[j] = effects[j]
  /\ IsBuried(j)' <=> IsBuried(j)
  /\ Running(j)' <=> Running(j)
  /\ starts'[j] = starts[j]
  /\ submitted'[j] = submitted[j]

\* ... so that it stays what it is for JobLifecycle.
Stays(j) ==
  /\ PhaseOf(j)' = PhaseOf(j)
  /\ RunsOf(j)' = RunsOf(j)
  /\ AllowedOf(j)' = AllowedOf(j)

\* Nothing is promised of the job any more.
Breaks(j) ==
  /\ PhaseOf(j)' = "faulted"
  /\ RunsOf(j)' = 0
  /\ AllowedOf(j)' = 0

\* One of JobLifecycle's steps of a job.
Moves(j) ==
  \/ /\ PhaseOf(j) = "new" /\ PhaseOf(j)' = "waiting"
     /\ RunsOf(j)' = RunsOf(j)
     /\ \E req \in Requests : AllowedOf(j)' = Allowed(NewJob(j, req))
  \/ /\ PhaseOf(j) = "waiting" /\ PhaseOf(j)' = "running"
     /\ RunsOf(j) < AllowedOf(j)
     /\ RunsOf(j)' = RunsOf(j) + 1
     /\ AllowedOf(j)' = AllowedOf(j)
  \/ /\ PhaseOf(j) = "running"
     /\ \/ PhaseOf(j)' = "done"
        \/ PhaseOf(j)' = "waiting" /\ RunsOf(j) < AllowedOf(j)
        \/ PhaseOf(j)' = "dead" /\ RunsOf(j) = AllowedOf(j)
     /\ RunsOf(j)' = RunsOf(j)
     /\ AllowedOf(j)' = AllowedOf(j)

\* What the mapping makes of a job's record.
LEMMA MappingCases ==
  ASSUME NEW j
  PROVE  /\ Faulted(j) => /\ PhaseOf(j) = "faulted"
                          /\ RunsOf(j) = 0 /\ AllowedOf(j) = 0
         /\ ~Faulted(j) /\ ~Saved(j) =>
              PhaseOf(j) = "new" /\ RunsOf(j) = 0 /\ AllowedOf(j) = 0
         /\ ~Faulted(j) /\ Saved(j) =>
              /\ RunsOf(j) = starts[j] /\ AllowedOf(j) = Allowed(submitted[j])
              /\ effects[j] > 0 => PhaseOf(j) = "done"
              /\ ~(effects[j] > 0) /\ IsBuried(j) => PhaseOf(j) = "dead"
              /\ ~(effects[j] > 0) /\ ~IsBuried(j) /\ Running(j) =>
                   PhaseOf(j) = "running"
              /\ ~(effects[j] > 0) /\ ~IsBuried(j) /\ ~Running(j) =>
                   PhaseOf(j) = "waiting"
BY DEF PhaseOf, RunsOf, AllowedOf, InForce

\* The same after a step.
LEMMA MappingCasesNext ==
  ASSUME NEW j
  PROVE  /\ Faulted(j)' => Breaks(j)
         /\ ~Faulted(j)' /\ ~Saved(j)' =>
              PhaseOf(j)' = "new" /\ RunsOf(j)' = 0 /\ AllowedOf(j)' = 0
         /\ ~Faulted(j)' /\ Saved(j)' =>
              /\ RunsOf(j)' = starts'[j] /\ AllowedOf(j)' = Allowed(submitted'[j])
              /\ effects'[j] > 0 => PhaseOf(j)' = "done"
              /\ ~(effects'[j] > 0) /\ IsBuried(j)' => PhaseOf(j)' = "dead"
              /\ ~(effects'[j] > 0) /\ ~IsBuried(j)' /\ Running(j)' =>
                   PhaseOf(j)' = "running"
              /\ ~(effects'[j] > 0) /\ ~IsBuried(j)' /\ ~Running(j)' =>
                   PhaseOf(j)' = "waiting"
<1>1. Faulted(j)' => Breaks(j)
  BY DEF PhaseOf, RunsOf, AllowedOf, InForce, Breaks
<1>2. ASSUME ~Faulted(j)', ~Saved(j)'
      PROVE  PhaseOf(j)' = "new" /\ RunsOf(j)' = 0 /\ AllowedOf(j)' = 0
  BY <1>2 DEF PhaseOf, RunsOf, AllowedOf, InForce
<1>3. ASSUME ~Faulted(j)', Saved(j)'
      PROVE  RunsOf(j)' = starts'[j] /\ AllowedOf(j)' = Allowed(submitted'[j])
  BY <1>3 DEF RunsOf, AllowedOf, InForce, Allowed, AttemptsLeft
<1>4. ASSUME ~Faulted(j)', Saved(j)'
      PROVE  /\ effects'[j] > 0 => PhaseOf(j)' = "done"
             /\ ~(effects'[j] > 0) /\ IsBuried(j)' => PhaseOf(j)' = "dead"
             /\ ~(effects'[j] > 0) /\ ~IsBuried(j)' /\ Running(j)' =>
                  PhaseOf(j)' = "running"
             /\ ~(effects'[j] > 0) /\ ~IsBuried(j)' /\ ~Running(j)' =>
                  PhaseOf(j)' = "waiting"
  BY <1>4 DEF PhaseOf
<1> QED
  BY <1>1, <1>2, <1>3, <1>4

\* A job whose record a step leaves alone stays as it is, or is broken.
LEMMA SameStays ==
  ASSUME NEW j, SameRecord(j), Faulted(j)' <=> Faulted(j)
  PROVE  Stays(j)
<1>1. CASE Faulted(j)
  BY <1>1, MappingCases, MappingCasesNext DEF Stays, Breaks
<1>2. CASE ~Faulted(j) /\ ~Saved(j)
  BY <1>2, MappingCases, MappingCasesNext DEF Stays, SameRecord
<1>3. CASE ~Faulted(j) /\ Saved(j)
  BY <1>3, MappingCases, MappingCasesNext DEF Stays, SameRecord
<1> QED
  BY <1>1, <1>2, <1>3

-----------------------------------------------------------------------------
(***************************************************************************)
(* A step of JobService is one of JobLifecycle when it breaks some jobs,   *)
(* or moves one, and leaves all others as they are.                        *)
(***************************************************************************)

\* A step that moves no job and after which all that changed is faulted.
LEMMA BreakStep ==
  ASSUME \A j \in Jobs : Faulted(j)' \/ Stays(j)
  PROVE  Lifecycle!LifecycleNext
<1> DEFINE hit == {j \in Jobs : Faulted(j)'}
<1>1. \A j \in hit : Breaks(j)
  BY MappingCasesNext
<1>2. \A j \in Jobs \ hit : Stays(j)
  OBVIOUS
<1>3. hit \in SUBSET Jobs
  OBVIOUS
<1> HIDE DEF hit
<1>4. Lifecycle!Break(hit)
  BY <1>1, <1>2, <1>3 DEF Lifecycle!Break, Breaks, Stays
<1> QED
  BY <1>3, <1>4 DEF Lifecycle!LifecycleNext

\* A step that moves one job and leaves the others as they are.
LEMMA MoveStep ==
  ASSUME NEW i \in Jobs, Moves(i), \A j \in Jobs \ {i} : Stays(j)
  PROVE  Lifecycle!LifecycleNext
<1>1. CASE /\ PhaseOf(i) = "new" /\ PhaseOf(i)' = "waiting"
           /\ RunsOf(i)' = RunsOf(i)
           /\ \E req \in Requests : AllowedOf(i)' = Allowed(NewJob(i, req))
  <2> DEFINE n == AllowedOf(i)'
             Budgets == UNION {BudgetsOf(j) : j \in Jobs}
  <2>1. n \in Budgets
    <3>1. n \in BudgetsOf(i)
      BY <1>1, Zenon DEF BudgetsOf
    <3> QED
      BY <3>1
  <2>2. [j \in Jobs |-> AllowedOf(j)]' =
           [[j \in Jobs |-> AllowedOf(j)] EXCEPT ![i] = n]
    BY DEF Stays
  <2>3. Lifecycle!Move(i, "new", "waiting")
    BY <1>1 DEF Lifecycle!Move, Stays
  <2>4. UNCHANGED [j \in Jobs |-> RunsOf(j)]
    BY <1>1 DEF Stays
  <2>5. Lifecycle!Submit(i)
    <3> HIDE DEF Budgets, n
    <3>1. \E b \in Budgets : [j \in Jobs |-> AllowedOf(j)]' =
                              [[j \in Jobs |-> AllowedOf(j)] EXCEPT ![i] = b]
      BY <2>1, <2>2
    <3> QED
      BY <2>3, <2>4, <3>1, Zenon DEF Lifecycle!Submit, Budgets
  <2> QED
    BY <2>5 DEF Lifecycle!LifecycleNext
<1>2. CASE /\ PhaseOf(i) = "waiting" /\ PhaseOf(i)' = "running"
           /\ RunsOf(i) < AllowedOf(i)
           /\ RunsOf(i)' = RunsOf(i) + 1
           /\ AllowedOf(i)' = AllowedOf(i)
  <2>1. Lifecycle!Execute(i)
    BY <1>2 DEF Lifecycle!Execute, Lifecycle!Move, Stays
  <2> QED
    BY <2>1 DEF Lifecycle!LifecycleNext
<1>3. CASE /\ PhaseOf(i) = "running" /\ RunsOf(i)' = RunsOf(i)
           /\ AllowedOf(i)' = AllowedOf(i)
           /\ \/ PhaseOf(i)' = "done"
              \/ PhaseOf(i)' = "waiting" /\ RunsOf(i) < AllowedOf(i)
              \/ PhaseOf(i)' = "dead" /\ RunsOf(i) = AllowedOf(i)
  <2>1. Lifecycle!Succeed(i) \/ Lifecycle!Retry(i) \/ Lifecycle!Bury(i)
    BY <1>3
    DEF Lifecycle!Succeed, Lifecycle!Retry, Lifecycle!Bury, Lifecycle!Move, Stays
  <2> QED
    BY <2>1 DEF Lifecycle!LifecycleNext
<1> QED
  BY <1>1, <1>2, <1>3 DEF Moves

-----------------------------------------------------------------------------
(***************************************************************************)
(* What the steps of JobService leave alone.                               *)
(***************************************************************************)

\* A job whose record the step leaves alone stays as it is, or is hit.
LEMMA Unharmed ==
  ASSUME TypeOK, [Next]_vars, NEW j \in Jobs, SameRecord(j)
  PROVE  Faulted(j)' \/ Stays(j)
<1>1. damage[j] \subseteq damage'[j]
  BY Kept
<1>2. Faulted(j) => Faulted(j)'
  BY <1>1 DEF Faulted
<1>3. CASE Faulted(j)'
  BY <1>3
<1>4. CASE ~Faulted(j)'
  BY <1>2, <1>4, SameStays
<1> QED
  BY <1>3, <1>4

\* A goroutine's step on job i makes no difference to who runs other jobs.
LEMMA RunningOthers ==
  ASSUME TypeOK, TypeOK', NEW w \in Slots, NEW i,
         \A v \in Slots \ {w} : pc'[v] = pc[v] /\ held'[v] = held[v],
         pc[w] \in {"executing", "failed"} => held[w].id = i,
         pc'[w] \in {"executing", "failed"} => held'[w].id = i,
         NEW j, j # i
  PROVE  Running(j)' <=> Running(j)
BY DEF Running

\* A goroutine that is, or is not, running its job before and after a step.
LEMMA RunningSame ==
  ASSUME TypeOK, NEW w \in Slots, NEW i,
         \A v \in Slots \ {w} : pc'[v] = pc[v] /\ held'[v] = held[v],
         \/ /\ pc[w] \notin {"executing", "failed"}
            /\ pc'[w] \notin {"executing", "failed"}
         \/ /\ pc[w] \in {"executing", "failed"} /\ held[w].id = i
            /\ pc'[w] \in {"executing", "failed"} /\ held'[w].id = i,
         NEW j
  PROVE  Running(j)' <=> Running(j)
BY DEF Running

\* Writing the row of a job that has one adds no job to the table.
LEMMA SavedSame ==
  ASSUME TypeOK, NEW job \in Job, NEW out, Save(job, out), Saved(job.id),
         NEW j \in Jobs
  PROVE  Saved(j)' <=> Saved(j)
BY NoJobAssumption DEF Save, Saved, TypeOK, StorageTypeOK, Job

-----------------------------------------------------------------------------
(***************************************************************************)
(* The steps, one after the other.                                         *)
(***************************************************************************)

\* A step that changes nothing the mapping reads but damage.
LEMMA QuietStep ==
  ASSUME TypeOK, [Next]_vars,
         UNCHANGED <<jobs, effects, deadLetter, pc, held, starts, submitted>>
  PROVE  Lifecycle!LifecycleNext
<1>1. \A j \in Jobs : SameRecord(j)
  BY DEF SameRecord, Saved, IsBuried, Buried, Running
<1> QED
  BY <1>1, Unharmed, BreakStep

\* A step that concerns one job only.
LEMMA OneJobStep ==
  ASSUME TypeOK, [Next]_vars, NEW i \in Jobs,
         \A j \in Jobs : j # i => SameRecord(j) /\ damage'[j] = damage[j],
         Faulted(i)' \/ Stays(i) \/ Moves(i)
  PROVE  Lifecycle!LifecycleNext
<1>1. \A j \in Jobs \ {i} : Stays(j)
  <2> SUFFICES ASSUME NEW j \in Jobs \ {i}
               PROVE  Stays(j)
    OBVIOUS
  <2>1. Faulted(j)' <=> Faulted(j)
    BY DEF Faulted
  <2> QED
    BY <2>1, SameStays
<1>2. CASE Moves(i)
  BY <1>1, <1>2, MoveStep
<1>3. CASE Faulted(i)' \/ Stays(i)
  BY <1>1, <1>3, BreakStep
<1> QED
  BY <1>2, <1>3

\* Requests' second half, the delayed-job loop and the end of a scheduler
\* change no job's life: at most they put an end to the promise.
LEMMA SchedulerStep ==
  ASSUME TypeOK, [Next]_vars, NEW s \in Schedulers,
         Reply(s) \/ ProcessDelayedJobs(s) \/ EndScheduler(s)
  PROVE  Lifecycle!LifecycleNext
<1>1. CASE Reply(s)
  <2>1. UNCHANGED <<jobs, effects, deadLetter, pc, held, starts, submitted>>
    BY <1>1
    DEF Reply, EnqueueJob, Enqueue, EnqueueDelayed, storageVars, workerVars, tallies
  <2> QED
    BY <2>1, QuietStep
<1>2. CASE ProcessDelayedJobs(s)
  <2>1. UNCHANGED <<jobs, effects, deadLetter, pc, held, starts, submitted>>
    BY <1>2
    DEF ProcessDelayedJobs, ReadRipe, PushRipe, RemoveRipe, Enqueue,
        RemoveDelayed, redisVars, storageVars, schedulerVars, workerVars, tallies
  <2> QED
    BY <2>1, QuietStep
<1>3. CASE EndScheduler(s)
  <2>1. UNCHANGED <<jobs, effects, deadLetter, pc, held, starts, submitted>>
    BY <1>3 DEF EndScheduler, redisVars, storageVars, workerVars, tallies
  <2> QED
    BY <2>1, QuietStep
<1> QED
  BY <1>1, <1>2, <1>3

\* Nothing has happened to a job that nobody has submitted.
LEMMA NothingBefore ==
  ASSUME TypeOK, AttemptsCounted, RequestsApart, NEW j \in Jobs,
         submitted[j] = NoJob
  PROVE  ~Saved(j) /\ effects[j] = 0 /\ ~IsBuried(j) /\ ~Running(j)
<1>1. ~Saved(j) /\ effects[j] = 0
  BY DEF RequestsApart
<1>2. \A m \in Messages : m.id # j
  BY DEF AttemptsCounted
<1>3. ~IsBuried(j)
  BY <1>2 DEF IsBuried, Messages
<1>4. ~Running(j)
  BY <1>2 DEF Running, Messages, HeldMessages
<1> QED
  BY <1>1, <1>3, <1>4

\* ScheduleJob: the row makes the job one that waits.
LEMMA SubmitStep ==
  ASSUME TypeOK, AttemptsCounted, RequestsApart, CountsExact, [Next]_vars,
         NEW s \in Schedulers, NEW i \in Jobs, NEW req \in Requests,
         ScheduleJob(s, i, req)
  PROVE  Lifecycle!LifecycleNext
<1> DEFINE job == NewJob(i, req)
<1>1. job \in Job /\ job.id = i
  BY NewJobType DEF NewJob
<1>2. PICK out \in Outcomes : Call(TRUE, i, out, {}, {"lost"}) /\ Save(job, out)
  BY DEF ScheduleJob, SaveJob
<1>3. /\ submitted[i] = NoJob
      /\ submitted' = [submitted EXCEPT ![i] = job]
      /\ UNCHANGED <<effects, deadLetter, pc, held, starts>>
  BY DEF ScheduleJob, redisVars, workerVars, tallies
<1> HIDE DEF job
<1>4. \A j \in Jobs : j # i => SameRecord(j) /\ damage'[j] = damage[j]
  <2> SUFFICES ASSUME NEW j \in Jobs, j # i
               PROVE  SameRecord(j) /\ damage'[j] = damage[j]
    OBVIOUS
  <2>1. damage'[j] = damage[j]
    BY <1>2, CallHarm
  <2>2. Saved(j)' <=> Saved(j)
    BY <1>1, <1>2 DEF Save, Saved, TypeOK, StorageTypeOK
  <2>3. submitted'[j] = submitted[j]
    BY <1>3 DEF TypeOK
  <2> QED
    BY <1>3, <2>1, <2>2, <2>3 DEF SameRecord, IsBuried, Buried, Running
<1>5. ~Saved(i) /\ effects[i] = 0 /\ ~IsBuried(i) /\ ~Running(i)
  BY <1>3, NothingBefore
<1>6. effects'[i] = 0 /\ ~IsBuried(i)' /\ ~Running(i)' /\ starts'[i] = starts[i]
  BY <1>3, <1>5 DEF IsBuried, Buried, Running
<1>7. damage'[i] = damage[i] \cup Harm(out, {}, {"lost"})
  BY <1>2 DEF Call, TypeOK
<1>8. Faulted(i)' \/ Stays(i) \/ Moves(i)
  <2> SUFFICES ASSUME ~Faulted(i)'
               PROVE  Stays(i) \/ Moves(i)
    OBVIOUS
  <2>1. ~Faulted(i) /\ "dup" \notin damage[i]
    BY <1>7 DEF Faulted
  <2>2. PhaseOf(i) = "new" /\ RunsOf(i) = 0 /\ AllowedOf(i) = 0
    BY <1>5, <2>1, MappingCases
  <2>3. CASE out = "unacked"
    BY <1>7, <2>3 DEF Harm, Faulted
  <2>4. CASE out = "failed"
    <3>1. ~Saved(i)'
      BY <1>2, <1>5, <2>4 DEF Save, Applied, Saved
    <3> QED
      BY <2>2, <3>1, MappingCasesNext DEF Stays
  <2>5. CASE out = "ok"
    <3>1. Saved(i)'
      BY <1>1, <1>2, <2>5, NoJobAssumption
      DEF Save, Applied, Saved, TypeOK, StorageTypeOK
    <3>2. starts'[i] = 0
      BY <1>3, <1>6, <2>1 DEF CountsExact
    <3>3. submitted'[i] = job
      BY <1>3 DEF TypeOK
    <3>4. /\ PhaseOf(i)' = "waiting" /\ RunsOf(i)' = 0
          /\ AllowedOf(i)' = Allowed(job)
      BY <1>6, <3>1, <3>2, <3>3, MappingCasesNext
    <3> QED
      BY <2>2, <3>4 DEF Moves, job
  <2> QED
    BY <2>3, <2>4, <2>5 DEF Outcomes
<1> QED
  BY <1>4, <1>8, OneJobStep

\* The goroutine that runs a job that no fault has doubled is the only one,
\* and the job is not settled.
LEMMA RunAlone ==
  ASSUME TypeOK, PersistedFirst, AttemptsCounted, RequestsApart, CopiesSingle,
         NEW w \in Slots, pc[w] \in Owning, "dup" \notin damage[held[w].id]
  PROVE  LET i == held[w].id
         IN  /\ i \in Jobs /\ Saved(i) /\ submitted[i] \in Job
             /\ held[w].max = submitted[i].max
             /\ effects[i] = 0 /\ ~IsBuried(i)
             /\ \A v \in Slots : pc[v] \in Owning /\ held[v].id = i => v = w
<1> DEFINE i == held[w].id
<1>1. held[w] \in Messages /\ i \in Jobs
  BY DEF Owning, Messages, HeldMessages, TypeOK, Job
<1>2. Saved(i) /\ submitted[i] \in Job /\ held[w].max = submitted[i].max
  BY <1>1 DEF PersistedFirst, AttemptsCounted, TypeOK
<1>3. OneCopy(i) /\ Owns(w, i)
  BY <1>1 DEF CopiesSingle, Owns
<1>4. ~Settled(i) /\ \A v \in Slots : Owns(v, i) => v = w
  BY <1>3, OwnedAlone
<1>5. effects[i] = 0 /\ ~IsBuried(i)
  BY <1>1, <1>4 DEF Settled, TypeOK
<1> QED
  BY <1>1, <1>2, <1>4, <1>5 DEF Owns

\* The steps of a goroutine by which no execution begins or ends.
LEMMA StandingStep ==
  ASSUME TypeOK, PersistedFirst, [Next]_vars, NEW w \in Slots,
         \/ ProcessNextJob(w)
         \/ HandlerFails(w)
         \/ HandleJobSuccess(w)
         \/ UpdateFailedJob(w)
         \/ RecordHistory(w)
  PROVE  Lifecycle!LifecycleNext
<1> USE DEF Goto, Release
<1>0. pc[w] # "idle" => held[w] \in Job /\ held[w].id \in Jobs /\ Saved(held[w].id)
  BY DEF TypeOK, Job, PersistedFirst, Messages, HeldMessages
<1>1. CASE ProcessNextJob(w)
  <2>1. UNCHANGED <<jobs, effects, deadLetter, starts, submitted>>
    BY <1>1 DEF ProcessNextJob, Dequeue, storageVars, schedulerVars, tallies
  <2>2. /\ \A v \in Slots \ {w} : pc'[v] = pc[v] /\ held'[v] = held[v]
        /\ pc[w] = "idle" /\ pc'[w] \in {"idle", "dequeued"}
    BY <1>1 DEF ProcessNextJob, TypeOK
  <2>3. \A j \in Jobs : Running(j)' <=> Running(j)
    BY <2>2, RunningSame
  <2>4. \A j \in Jobs : SameRecord(j)
    BY <2>1, <2>3 DEF SameRecord, Saved, IsBuried, Buried
  <2> QED
    BY <2>4, Unharmed, BreakStep
<1>2. CASE HandlerFails(w)
  <2>1. UNCHANGED <<jobs, effects, deadLetter, starts, submitted>>
    BY <1>2 DEF HandlerFails, redisVars, storageVars, schedulerVars, tallies
  <2>2. /\ \A v \in Slots \ {w} : pc'[v] = pc[v] /\ held'[v] = held[v]
        /\ pc[w] = "executing" /\ pc'[w] = "failed"
        /\ held'[w] = MarkAsFailed(held[w])
    BY <1>2 DEF HandlerFails, TypeOK
  <2>3. held'[w].id = held[w].id
    BY <1>0, <2>2, MarkTypes
  <2>4. \A j \in Jobs : Running(j)' <=> Running(j)
    BY <2>2, <2>3, RunningSame
  <2>5. \A j \in Jobs : SameRecord(j)
    BY <2>1, <2>4 DEF SameRecord, Saved, IsBuried, Buried
  <2> QED
    BY <2>5, Unharmed, BreakStep
<1>3. ASSUME NEW job \in Job, job.id = held[w].id, SaveOutcome(w, job),
             pc[w] \in {"succeeded", "requeued"}
      PROVE  Lifecycle!LifecycleNext
  <2>1. UNCHANGED <<effects, deadLetter, starts, submitted>>
    BY <1>3 DEF SaveOutcome, redisVars, schedulerVars, tallies
  <2>2. /\ \A v \in Slots \ {w} : pc'[v] = pc[v] /\ held'[v] = held[v]
        /\ pc'[w] = "record"
    BY <1>3 DEF SaveOutcome, TypeOK
  <2>3. \A j \in Jobs : Running(j)' <=> Running(j)
    BY <1>3, <2>2, RunningSame
  <2>4. \A j \in Jobs : Saved(j)' <=> Saved(j)
    BY <1>0, <1>3, SavedSame DEF SaveOutcome, UpdateJob
  <2>5. \A j \in Jobs : SameRecord(j)
    BY <2>1, <2>3, <2>4 DEF SameRecord, IsBuried, Buried
  <2> QED
    BY <2>5, Unharmed, BreakStep
<1>4. CASE HandleJobSuccess(w)
  <2>1. pc[w] = "succeeded" /\ SaveOutcome(w, MarkAsCompleted(held[w]))
    BY <1>4 DEF HandleJobSuccess
  <2>2. MarkAsCompleted(held[w]) \in Job /\ MarkAsCompleted(held[w]).id = held[w].id
    BY <1>0, <2>1, MarkTypes
  <2> QED
    BY <1>3, <2>1, <2>2
<1>5. CASE UpdateFailedJob(w)
  <2>1. pc[w] = "requeued" /\ SaveOutcome(w, held[w])
    BY <1>5 DEF UpdateFailedJob
  <2> QED
    BY <1>0, <1>3, <2>1
<1>6. CASE RecordHistory(w)
  <2>1. UNCHANGED <<jobs, effects, deadLetter, starts, submitted>>
    BY <1>6
    DEF RecordHistory, SaveJobHistory, redisVars, schedulerVars, tallies
  <2>2. /\ \A v \in Slots \ {w} : pc'[v] = pc[v] /\ held'[v] = held[v]
        /\ pc[w] = "record" /\ pc'[w] = "idle"
    BY <1>6 DEF RecordHistory, TypeOK
  <2>3. \A j \in Jobs : Running(j)' <=> Running(j)
    BY <2>2, RunningSame
  <2>4. \A j \in Jobs : SameRecord(j)
    BY <2>1, <2>3 DEF SameRecord, Saved, IsBuried, Buried
  <2> QED
    BY <2>4, Unharmed, BreakStep
<1> QED
  BY <1>1, <1>2, <1>4, <1>5, <1>6

\* ProcessJob up to the handler: an execution begins.
LEMMA ExecuteStep ==
  ASSUME TypeOK, PersistedFirst, AttemptsCounted, RequestsApart, CopiesSingle,
         AttemptBudget', [Next]_vars, NEW w \in Slots, StartJob(w)
  PROVE  Lifecycle!LifecycleNext
<1> USE DEF Goto, Release
<1>a. pc[w] = "dequeued" /\ held[w] \in Job
  BY DEF StartJob, TypeOK
<1>b. PICK i \in Jobs : i = held[w].id
  BY <1>a DEF Job
<1>0. /\ pc[w] = "dequeued" /\ held[w] \in Job /\ i \in Jobs /\ i = held[w].id
      /\ starts[i] \in Nat /\ starts[i] + 1 \in Nat
  BY <1>a, <1>b DEF TypeOK
<1> DEFINE job == MarkAsProcessing(held[w], starts[i] + 1)
<1>1. job \in Job /\ job.id = i
  BY <1>0, MarkTypes
<1>2. Saved(i)
  BY <1>0 DEF PersistedFirst, Messages, HeldMessages
<1>3. /\ starts' = [starts EXCEPT ![i] = starts[i] + 1]
      /\ UNCHANGED <<effects, deadLetter, submitted>>
  BY <1>0, <1>1 DEF StartJob, redisVars, schedulerVars
<1>4. PICK out \in Outcomes :
        /\ Call(Live(ProcessOf(w)), i, out, {"lost"}, {"lost"})
        /\ Save(job, out)
        /\ \/ /\ out = "ok" /\ pc' = [pc EXCEPT ![w] = "executing"]
              /\ held' = [held EXCEPT ![w] = job]
           \/ /\ out # "ok" /\ pc' = [pc EXCEPT ![w] = "idle"]
              /\ held' = [held EXCEPT ![w] = NoJob]
  BY <1>0, <1>1 DEF StartJob, UpdateJob
<1> HIDE DEF job
<1>5. /\ \A v \in Slots \ {w} : pc'[v] = pc[v] /\ held'[v] = held[v]
      /\ out = "ok" => pc'[w] = "executing" /\ held'[w] = job
      /\ out # "ok" => pc'[w] = "idle"
  BY <1>4 DEF TypeOK
<1>6. \A j \in Jobs : Saved(j)' <=> Saved(j)
  BY <1>1, <1>2, <1>4, SavedSame
<1>7. \A j \in Jobs : j # i => SameRecord(j) /\ damage'[j] = damage[j]
  <2> SUFFICES ASSUME NEW j \in Jobs, j # i
               PROVE  SameRecord(j) /\ damage'[j] = damage[j]
    OBVIOUS
  <2>1. damage'[j] = damage[j]
    BY <1>0, <1>4, CallHarm
  <2>2. Running(j)' <=> Running(j)
    BY <1>0, <1>1, <1>5, RunningOthers, TypesPreserved
  <2>3. starts'[j] = starts[j]
    BY <1>3 DEF TypeOK
  <2> QED
    BY <1>3, <1>6, <2>1, <2>2, <2>3 DEF SameRecord, IsBuried, Buried
<1>8. damage'[i] = damage[i] \cup Harm(out, {"lost"}, {"lost"})
  BY <1>0, <1>4, CallHarm
<1>9. Faulted(i)' \/ Stays(i) \/ Moves(i)
  <2> SUFFICES ASSUME ~Faulted(i)'
               PROVE  Moves(i)
    OBVIOUS
  <2>1. out = "ok"
    BY <1>8 DEF Outcomes, Harm, Faulted
  <2>2. ~Faulted(i) /\ "dup" \notin damage[i] /\ "dup" \notin damage'[i]
    BY <1>8 DEF Faulted
  <2>3. /\ submitted[i] \in Job /\ effects[i] = 0 /\ ~IsBuried(i)
        /\ \A v \in Slots : pc[v] \in Owning /\ held[v].id = i => v = w
    BY <1>0, <2>2, RunAlone DEF Owning
  <2>4. ~Running(i)
    BY <1>0, <2>3 DEF Running, Owning
  <2>5. Running(i)'
    BY <1>1, <1>5, <2>1 DEF Running
  <2>6. /\ effects'[i] = 0 /\ ~IsBuried(i)' /\ submitted'[i] = submitted[i]
        /\ starts'[i] = starts[i] + 1
    BY <1>0, <1>3, <2>3 DEF IsBuried, Buried, TypeOK
  <2>7. starts'[i] <= Allowed(submitted'[i])
    BY <1>0, <2>2, <2>3, <2>6, NoJobAssumption DEF AttemptBudget
  <2>8. /\ PhaseOf(i) = "waiting" /\ RunsOf(i) = starts[i]
        /\ AllowedOf(i) = Allowed(submitted[i])
    BY <1>2, <2>2, <2>3, <2>4, MappingCases
  <2>9. /\ PhaseOf(i)' = "running" /\ RunsOf(i)' = starts'[i]
        /\ AllowedOf(i)' = Allowed(submitted'[i])
    BY <1>0, <1>2, <1>6, <2>5, <2>6, MappingCasesNext
  <2>10. Allowed(submitted[i]) \in Int
    BY <2>3 DEF Allowed, AttemptsLeft, Job
  <2> QED
    BY <1>0, <2>6, <2>7, <2>8, <2>9, <2>10 DEF Moves
<1> QED
  BY <1>0, <1>7, <1>9, OneJobStep

\* The handler returns nil: the job is done.
LEMMA SucceedStep ==
  ASSUME TypeOK, PersistedFirst, AttemptsCounted, RequestsApart, CopiesSingle,
         [Next]_vars, NEW w \in Slots, HandlerSucceeds(w)
  PROVE  Lifecycle!LifecycleNext
<1> USE DEF Goto
<1>a. pc[w] = "executing" /\ held[w] \in Job
  BY DEF HandlerSucceeds, TypeOK
<1>b. PICK i \in Jobs : i = held[w].id
  BY <1>a DEF Job
<1>1. /\ effects' = [effects EXCEPT ![i] = @ + 1]
      /\ UNCHANGED <<jobs, deadLetter, starts, submitted, damage>>
      /\ pc' = [pc EXCEPT ![w] = "succeeded"] /\ held' = held
  BY <1>b DEF HandlerSucceeds, redisVars, storageVars, schedulerVars
<1>2. /\ \A v \in Slots \ {w} : pc'[v] = pc[v] /\ held'[v] = held[v]
      /\ pc'[w] = "succeeded"
  BY <1>1 DEF TypeOK
<1>3. \A j \in Jobs : j # i => SameRecord(j) /\ damage'[j] = damage[j]
  <2> SUFFICES ASSUME NEW j \in Jobs, j # i
               PROVE  SameRecord(j) /\ damage'[j] = damage[j]
    OBVIOUS
  <2>1. Running(j)' <=> Running(j)
    BY <1>b, <1>2, RunningOthers, TypesPreserved
  <2>2. effects'[j] = effects[j]
    BY <1>1 DEF TypeOK
  <2> QED
    BY <1>1, <2>1, <2>2 DEF SameRecord, Saved, IsBuried, Buried
<1>4. Faulted(i)' \/ Stays(i) \/ Moves(i)
  <2> SUFFICES ASSUME ~Faulted(i)'
               PROVE  Moves(i)
    OBVIOUS
  <2>1. ~Faulted(i) /\ "dup" \notin damage[i]
    BY <1>1 DEF Faulted
  <2>2. Saved(i) /\ effects[i] = 0 /\ ~IsBuried(i) /\ Running(i)
    BY <1>a, <1>b, <2>1, RunAlone DEF Owning, Running
  <2>3. Saved(i)' /\ effects'[i] > 0
    BY <1>1, <2>2 DEF Saved, TypeOK
  <2>4. /\ PhaseOf(i) = "running" /\ RunsOf(i) = starts[i]
        /\ AllowedOf(i) = Allowed(submitted[i])
    BY <2>1, <2>2, MappingCases
  <2>5. /\ PhaseOf(i)' = "done" /\ RunsOf(i)' = starts'[i]
        /\ AllowedOf(i)' = Allowed(submitted'[i])
    BY <2>3, MappingCasesNext
  <2> QED
    BY <1>1, <2>4, <2>5 DEF Moves
<1> QED
  BY <1>3, <1>4, OneJobStep

\* What handleJobFailure's first call, about the job in the goroutine's hands,
\* leaves alone, and how many runs a job that fails has had.
LEMMA FailureStep ==
  ASSUME TypeOK, PersistedFirst, AttemptsCounted, RequestsApart, CopiesSingle,
         CountsExact, [Next]_vars, NEW w \in Slots, RetryJob(w) \/ BuryJob(w),
         NEW i \in Jobs, i = held[w].id
  PROVE  /\ UNCHANGED <<jobs, effects, starts, submitted>>
         /\ held[w] \in Job
         /\ \A j \in Jobs : j # i /\ (IsBuried(j)' <=> IsBuried(j)) => SameRecord(j)
         /\ "dup" \notin damage[i] =>
              /\ Saved(i) /\ effects[i] = 0 /\ ~IsBuried(i)
              /\ Running(i) /\ ~Running(i)'
              /\ submitted[i] \in Job
              /\ held[w].max = submitted[i].max
              /\ held[w].attempts - submitted[i].attempts = starts[i]
<1> USE DEF Goto
<1>1. pc[w] = "failed" /\ held[w] \in Job
  BY DEF RetryJob, BuryJob, TypeOK
<1>2. UNCHANGED <<jobs, effects, starts, submitted>>
  BY DEF RetryJob, BuryJob, storageVars, schedulerVars, tallies
<1>3. /\ \A v \in Slots \ {w} : pc'[v] = pc[v] /\ held'[v] = held[v]
      /\ pc'[w] = "requeued"
  BY DEF RetryJob, BuryJob, TypeOK
<1>4. ASSUME NEW j \in Jobs, j # i, IsBuried(j)' <=> IsBuried(j)
      PROVE  SameRecord(j)
  <2>1. Running(j)' <=> Running(j)
    BY <1>3, <1>4, RunningOthers, TypesPreserved
  <2> QED
    BY <1>2, <1>4, <2>1 DEF SameRecord, Saved
<1>5. ASSUME "dup" \notin damage[i]
      PROVE  /\ Saved(i) /\ effects[i] = 0 /\ ~IsBuried(i)
             /\ Running(i) /\ ~Running(i)'
             /\ submitted[i] \in Job
             /\ held[w].max = submitted[i].max
             /\ held[w].attempts - submitted[i].attempts = starts[i]
  <2>1. /\ Saved(i) /\ effects[i] = 0 /\ ~IsBuried(i)
        /\ submitted[i] \in Job
        /\ held[w].max = submitted[i].max
        /\ \A v \in Slots : pc[v] \in Owning /\ held[v].id = i => v = w
    BY <1>1, <1>5, RunAlone DEF Owning
  <2>2. Running(i) /\ ~Running(i)'
    BY <1>1, <1>3, <2>1 DEF Running, Owning
  <2>3. held[w].attempts - submitted[i].attempts = starts[i]
    BY <1>1, <1>5 DEF CountsExact
  <2> QED
    BY <2>1, <2>2, <2>3
<1> QED
  BY <1>1, <1>2, <1>4, <1>5

\* handleJobFailure with attempts left: the job waits again.
LEMMA RetryStep ==
  ASSUME TypeOK, PersistedFirst, AttemptsCounted, RequestsApart, CopiesSingle,
         CountsExact, [Next]_vars, NEW w \in Slots, RetryJob(w)
  PROVE  Lifecycle!LifecycleNext
<1>a. pc[w] = "failed" /\ held[w] \in Job /\ CanRetry(held[w])
  BY DEF RetryJob, TypeOK
<1>b. PICK i \in Jobs : i = held[w].id
  BY <1>a DEF Job
<1>c. MarkForRetry(held[w]).id = i
  BY <1>a, <1>b, MarkTypes
<1>1. PICK out \in Outcomes : Call(Live(ProcessOf(w)), i, out, {"lost"}, {})
  BY <1>c DEF RetryJob
<1>2. deadLetter' = deadLetter
  BY DEF RetryJob, EnqueueDelayed
<1>3. \A j \in Jobs : IsBuried(j)' <=> IsBuried(j)
  BY <1>2 DEF IsBuried, Buried
<1>4. \A j \in Jobs : j # i => SameRecord(j) /\ damage'[j] = damage[j]
  BY <1>b, <1>1, <1>3, FailureStep, CallHarm
<1>5. damage'[i] = damage[i] \cup Harm(out, {"lost"}, {})
  BY <1>1, CallHarm
<1>6. Faulted(i)' \/ Stays(i) \/ Moves(i)
  <2> SUFFICES ASSUME ~Faulted(i)'
               PROVE  Moves(i)
    OBVIOUS
  <2>1. ~Faulted(i) /\ "dup" \notin damage[i]
    BY <1>5 DEF Faulted
  <2>2. /\ Saved(i) /\ effects[i] = 0 /\ ~IsBuried(i)
        /\ Running(i) /\ ~Running(i)'
        /\ submitted[i] \in Job
        /\ held[w].max = submitted[i].max
        /\ held[w].attempts - submitted[i].attempts = starts[i]
    BY <1>b, <2>1, FailureStep
  <2>3. UNCHANGED <<jobs, effects, starts, submitted>>
    BY <1>b, FailureStep
  <2>4. starts[i] < Allowed(submitted[i])
    BY <1>a, <2>2 DEF CanRetry, Allowed, AttemptsLeft, Job
  <2>5. /\ PhaseOf(i) = "running" /\ RunsOf(i) = starts[i]
        /\ AllowedOf(i) = Allowed(submitted[i])
    BY <2>1, <2>2, MappingCases
  <2>6. Saved(i)' /\ effects'[i] = 0 /\ ~IsBuried(i)' /\ ~Running(i)'
    BY <1>3, <2>2, <2>3 DEF Saved
  <2>7. /\ PhaseOf(i)' = "waiting" /\ RunsOf(i)' = starts'[i]
        /\ AllowedOf(i)' = Allowed(submitted'[i])
    BY <2>6, MappingCasesNext
  <2> QED
    BY <2>3, <2>4, <2>5, <2>7 DEF Moves
<1> QED
  BY <1>4, <1>6, OneJobStep

\* handleJobFailure with none left: the job is dead, after the runs it had.
LEMMA BuryStep ==
  ASSUME TypeOK, PersistedFirst, AttemptsCounted, RequestsApart, CopiesSingle,
         CountsExact, AttemptBudget, NoEarlyBurial', [Next]_vars,
         NEW w \in Slots, BuryJob(w)
  PROVE  Lifecycle!LifecycleNext
<1>a. pc[w] = "failed" /\ held[w] \in Job
  BY DEF BuryJob, TypeOK
<1>b. PICK i \in Jobs : i = held[w].id
  BY <1>a DEF Job
<1>c. PICK job \in Job : job = MarkAsDead(held[w]) /\ job.id = i
  BY <1>a, <1>b, MarkTypes
<1>1. PICK out \in PushOutcomes :
        /\ Call(Live(ProcessOf(w)), i, out, {"lost"}, {})
        /\ deadLetter' = Pushed(deadLetter, job, out)
  BY <1>c DEF BuryJob, MoveToDeadLetter
<1>2. /\ Buried' \subseteq Buried \cup {job} /\ Buried \subseteq Buried'
      /\ out # "failed" => job \in Buried'
  BY <1>1, <1>c, RangePushed DEF Buried, TypeOK, RedisTypeOK
<1>3. \A j \in Jobs : j # i => (IsBuried(j)' <=> IsBuried(j))
  BY <1>2, <1>c DEF IsBuried
<1>4. \A j \in Jobs : j # i => SameRecord(j) /\ damage'[j] = damage[j]
  BY <1>b, <1>1, <1>3, FailureStep, CallHarm
<1>5. damage'[i] = damage[i] \cup Harm(out, {"lost"}, {})
  BY <1>1, CallHarm
<1>6. Faulted(i)' \/ Stays(i) \/ Moves(i)
  <2> SUFFICES ASSUME ~Faulted(i)'
               PROVE  Moves(i)
    OBVIOUS
  <2>1. ~Faulted(i) /\ "dup" \notin damage[i] /\ out # "failed"
    BY <1>5 DEF Faulted, Harm
  <2>2. /\ Saved(i) /\ effects[i] = 0 /\ ~IsBuried(i)
        /\ Running(i) /\ ~Running(i)'
        /\ submitted[i] \in Job
    BY <1>b, <2>1, FailureStep
  <2>3. UNCHANGED <<jobs, effects, starts, submitted>>
    BY <1>b, FailureStep
  <2>4. IsBuried(i)' /\ Saved(i)' /\ effects'[i] = 0
    BY <1>c, <1>2, <2>1, <2>2, <2>3 DEF IsBuried, Saved
  <2>5. starts[i] <= Allowed(submitted[i])
    BY <2>1, <2>2, NoJobAssumption DEF AttemptBudget
  <2>6. starts'[i] >= Allowed(submitted'[i])
    BY <1>c, <1>2, <2>1 DEF NoEarlyBurial
  <2>7. Allowed(submitted[i]) \in Int /\ starts[i] \in Nat
    BY <2>2 DEF Allowed, AttemptsLeft, Job, TypeOK
  <2>8. starts[i] = Allowed(submitted[i])
    BY <2>3, <2>5, <2>6, <2>7
  <2>9. /\ PhaseOf(i) = "running" /\ RunsOf(i) = starts[i]
        /\ AllowedOf(i) = Allowed(submitted[i])
    BY <2>1, <2>2, MappingCases
  <2>10. /\ PhaseOf(i)' = "dead" /\ RunsOf(i)' = starts'[i]
         /\ AllowedOf(i)' = Allowed(submitted'[i])
    BY <2>4, MappingCasesNext
  <2> QED
    BY <2>3, <2>8, <2>9, <2>10 DEF Moves
<1> QED
  BY <1>4, <1>6, OneJobStep

\* The end of a worker process breaks the promise for the jobs its goroutines
\* have not passed on, and for no others.
LEMMA EndWorkerStep ==
  ASSUME TypeOK, [Next]_vars, NEW p \in Workers, EndWorker(p)
  PROVE  Lifecycle!LifecycleNext
<1> DEFINE mine == {w \in Slots : ProcessOf(w) = p}
<1>1. /\ UNCHANGED <<jobs, effects, deadLetter, starts, submitted>>
      /\ pc' = [w \in Slots |-> IF w \in mine THEN "idle" ELSE pc[w]]
      /\ held' = [w \in Slots |-> IF w \in mine THEN NoJob ELSE held[w]]
      /\ damage' = [j \in Jobs |-> damage[j] \cup
                  UNION {HarmAt(pc[w]) : w \in {v \in mine : /\ pc[v] # "idle"
                                                             /\ held[v].id = j}}]
  BY DEF EndWorker, redisVars, storageVars, schedulerVars, tallies
<1>2. \A j \in Jobs : Faulted(j)' \/ Stays(j)
  <2> SUFFICES ASSUME NEW j \in Jobs
               PROVE  Faulted(j)' \/ Stays(j)
    OBVIOUS
  <2>1. CASE \E w \in mine : pc[w] \in {"executing", "failed"} /\ held[w].id = j
    <3>1. PICK w \in mine : pc[w] \in {"executing", "failed"} /\ held[w].id = j
      BY <2>1
    <3>2. "lost" \in HarmAt(pc[w])
      BY <3>1 DEF HarmAt
    <3>3. w \in {v \in mine : pc[v] # "idle" /\ held[v].id = j}
      BY <3>1
    <3>4. "lost" \in damage'[j]
      BY <1>1, <3>2, <3>3, Zenon
    <3> QED
      BY <3>4 DEF Faulted
  <2>2. CASE ~ \E w \in mine : pc[w] \in {"executing", "failed"} /\ held[w].id = j
    <3>1. Running(j)' <=> Running(j)
      BY <1>1, <2>2 DEF Running
    <3>2. SameRecord(j)
      BY <1>1, <3>1 DEF SameRecord, Saved, IsBuried, Buried
    <3> QED
      BY <3>2, Unharmed
  <2> QED
    BY <2>1, <2>2
<1> QED
  BY <1>2, BreakStep

\* What the steps above need to know of a state.
InOrder ==
  /\ TypeOK /\ PersistedFirst /\ AttemptsCounted /\ RequestsApart
  /\ CopiesSingle /\ CountsExact /\ AttemptBudget /\ NoEarlyBurial

\* Every step of JobService is one of JobLifecycle, or none.
LEMMA LifecycleStep ==
  ASSUME InOrder, InOrder', [Next]_vars
  PROVE  Lifecycle!LifecycleNext \/ UNCHANGED Lifecycle!lifecycleVars
<1> USE DEF InOrder
<1>1. CASE UNCHANGED vars
  <2>1. UNCHANGED <<jobs, effects, deadLetter, pc, held, starts, submitted>>
    BY <1>1 DEF vars, redisVars, storageVars, schedulerVars, workerVars, tallies
  <2> QED
    BY <2>1, QuietStep
<1>2. CASE Request
  BY <1>2, SubmitStep DEF Request
<1>3. CASE \E s \in Schedulers : \/ Reply(s)
                                 \/ ProcessDelayedJobs(s)
                                 \/ ExitScheduler(s)
                                 \/ CrashScheduler(s)
  BY <1>3, SchedulerStep DEF ExitScheduler, CrashScheduler
<1>4. CASE \E w \in Slots : ProcessJobs(w)
  BY <1>4, StandingStep, ExecuteStep, SucceedStep, RetryStep, BuryStep
  DEF ProcessJobs
<1>5. CASE \E p \in Workers : ExitWorker(p) \/ CrashWorker(p)
  BY <1>5, EndWorkerStep DEF ExitWorker, CrashWorker
<1>6. CASE (\E p \in Processes : Shutdown(p)) \/ Ripen
  <2>1. UNCHANGED <<jobs, effects, deadLetter, pc, held, starts, submitted>>
    BY <1>6
    DEF Shutdown, Ripen, TimePasses, redisVars, storageVars, schedulerVars,
        workerVars, tallies
  <2> QED
    BY <2>1, QuietStep
<1> QED
  BY <1>1, <1>2, <1>3, <1>4, <1>5, <1>6 DEF Next

(***************************************************************************)
(* The service with one scheduler process and any number of jobs, workers  *)
(* and goroutines keeps the promise of JobLifecycle through any faults:    *)
(* ScheduleJob's save submits a job, MarkAsProcessing begins an execution, *)
(* which only its end, the retry in delayed_jobs or the dead letter list   *)
(* concludes, in the order and the numbers the policy allows, and a fault  *)
(* breaks the promise for the jobs in its way only.                        *)
(***************************************************************************)
THEOREM KeepsThePromise ==
  ASSUME OneScheduler
  PROVE  Spec => ImplementsLifecycle
<1>1. Init => Lifecycle!LifecycleInit
  <2> SUFFICES ASSUME Init
               PROVE  Lifecycle!LifecycleInit
    OBVIOUS
  <2>1. \A j \in Jobs : ~Faulted(j) /\ ~Saved(j)
    BY DEF Init, StorageInit, Faulted, Saved
  <2>2. \A j \in Jobs : PhaseOf(j) = "new" /\ RunsOf(j) = 0 /\ AllowedOf(j) = 0
    BY <2>1, MappingCases
  <2> QED
    BY <2>2 DEF Lifecycle!LifecycleInit
<1>2. InOrder /\ InOrder' /\ [Next]_vars
        => [Lifecycle!LifecycleNext]_(Lifecycle!lifecycleVars)
  BY LifecycleStep
<1>3. Spec => []InOrder
  BY TypeCorrect, EveryMessageSaved, LedgerCorrect, RunsInOrder, CopiesInOrder,
     CountsInOrder, BudgetKept, NoJobGivenUpEarly, PTL DEF InOrder
<1> QED
  BY <1>1, <1>2, <1>3, PTL DEF Spec, ImplementsLifecycle, Lifecycle!LifecycleSpec
==============================================================================
