------------------------- MODULE JobServiceRefinement ------------------------
(***************************************************************************)
(* JobService with one scheduler process implements JobLifecycle, through  *)
(* all of its faults.                                                      *)
(***************************************************************************)
EXTENDS JobService

\* A fault has lost the job or made a second copy of it.
Faulted(j) == damage[j] \cap {"lost", "dup"} # {}

\* A goroutine has begun to execute the job and has not yet passed it on.
Running(j) ==
  \E w \in Slots : pc[w] \in {"executing", "failed"} /\ held[w].id = j

\* Where the job is in its life; the first condition that holds decides.
PhaseOf(j) ==
  IF Faulted(j)          THEN "faulted"
  ELSE IF ~Saved(j)      THEN "new"
  ELSE IF effects[j] > 0 THEN "done"
  ELSE IF IsBuried(j)    THEN "dead"
  ELSE IF Running(j)     THEN "running"
  ELSE "waiting"

InForce(j) == Saved(j) /\ ~Faulted(j)

\* Executions begun, and allowed, as long as the promise is in force.
RunsOf(j) == IF InForce(j) THEN starts[j] ELSE 0

AllowedOf(j) == IF InForce(j) THEN Allowed(submitted[j]) ELSE 0

\* The numbers of executions that what clients may ask for comes to.
BudgetsOf(j) == {Allowed(NewJob(j, req)) : req \in Requests}

Lifecycle == INSTANCE JobLifecycle WITH
  Budgets <- UNION {BudgetsOf(j) : j \in Jobs},
  phase   <- [j \in Jobs |-> PhaseOf(j)],
  runs    <- [j \in Jobs |-> RunsOf(j)],
  allowed <- [j \in Jobs |-> AllowedOf(j)]

(***************************************************************************)
(* The scheduler, the promotion loop and the workers together, talking     *)
(* through Redis lists and rows, do to each job what JobLifecycle allows   *)
(* and nothing else: in particular no execution of a job begins while      *)
(* another is in progress or after the job is done with, no execution goes *)
(* beyond the retry policy, and no fault touches a job that was not in its *)
(* way.                                                                    *)
(***************************************************************************)
ImplementsLifecycle == Lifecycle!LifecycleSpec
==============================================================================
