----------------------------- MODULE JobLifecycle ----------------------------
(***************************************************************************)
(* What the service promises about a job, without queues, tables, messages *)
(* and processes: a submitted job waits, is executed by one worker at a    *)
(* time, and ends as done after its first success or as dead after exactly *)
(* the executions its retry policy allows.  A fault may put an end to the  *)
(* promise, for the jobs that it hits and for no others.                   *)
(*                                                                         *)
(* Both wirings of the ports, Redis with PostgreSQL and the in-memory      *)
(* adapters, are meant to implement this specification.                    *)
(***************************************************************************)
EXTENDS Naturals

CONSTANTS
  Jobs,      \* job identifiers
  Budgets    \* numbers of executions that retry policies allow

VARIABLES
  phase,     \* job -> where it is in its life
  runs,      \* job -> executions begun
  allowed    \* job -> executions its retry policy allows

lifecycleVars == <<phase, runs, allowed>>

Phases == {"new", "waiting", "running", "done", "dead", "faulted"}

LifecycleTypeOK ==
  /\ phase \in [Jobs -> Phases]
  /\ runs \in [Jobs -> Nat]
  /\ allowed \in [Jobs -> Budgets \cup {0}]

LifecycleInit ==
  /\ phase = [j \in Jobs |-> "new"]
  /\ runs = [j \in Jobs |-> 0]
  /\ allowed = [j \in Jobs |-> 0]

Move(j, from, to) ==
  /\ phase[j] = from
  /\ phase' = [phase EXCEPT ![j] = to]

Submit(j) ==
  /\ Move(j, "new", "waiting")
  /\ \E n \in Budgets : allowed' = [allowed EXCEPT ![j] = n]
  /\ UNCHANGED runs

Execute(j) ==
  /\ Move(j, "waiting", "running")
  /\ runs[j] < allowed[j]
  /\ runs' = [runs EXCEPT ![j] = @ + 1]
  /\ UNCHANGED allowed

Succeed(j) ==
  /\ Move(j, "running", "done")
  /\ UNCHANGED <<runs, allowed>>

Retry(j) ==
  /\ Move(j, "running", "waiting")
  /\ runs[j] < allowed[j]
  /\ UNCHANGED <<runs, allowed>>

Bury(j) ==
  /\ Move(j, "running", "dead")
  /\ runs[j] = allowed[j]
  /\ UNCHANGED <<runs, allowed>>

\* A fault hits some jobs, of which nothing is promised from here on.
Break(hit) ==
  LET Cleared(f, v) == [j \in Jobs |-> IF j \in hit THEN v ELSE f[j]] IN
  /\ phase' = Cleared(phase, "faulted")
  /\ runs' = Cleared(runs, 0)
  /\ allowed' = Cleared(allowed, 0)

LifecycleNext ==
  \/ \E j \in Jobs : Submit(j) \/ Execute(j) \/ Succeed(j) \/ Retry(j) \/ Bury(j)
  \/ \E hit \in SUBSET Jobs : Break(hit)

LifecycleSpec == LifecycleInit /\ [][LifecycleNext]_lifecycleVars
==============================================================================
