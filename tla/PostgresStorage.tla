---------------------------- MODULE PostgresStorage --------------------------
(***************************************************************************)
(* internal/adapters/secondary/storage/postgres.go: the tables jobs and    *)
(* job_history of StoragePort.  A row is the job record that was written:  *)
(* domainToJobModel copies every field this model keeps.  GORM's Save      *)
(* writes all columns and inserts the row when there is none, so SaveJob   *)
(* and UpdateJob are the same unconditional upsert: nothing compares the   *)
(* row with what the caller believes it to be.                             *)
(***************************************************************************)
EXTENDS JobDomain

VARIABLES
  jobs,      \* job id -> row of table jobs, or NoJob
  history    \* job id -> rows of table job_history for the job

storageVars == <<jobs, history>>

\* One execution as SaveJobHistory records it; "run" stands for its UUID.
JobHistory == [run : Nat, attempt : Int, status : {"completed", "failed"}]

StorageTypeOK ==
  /\ jobs \in [Jobs -> Job \cup {NoJob}]
  /\ history \in [Jobs -> SUBSET JobHistory]

StorageInit ==
  /\ jobs = [j \in Jobs |-> NoJob]
  /\ history = [j \in Jobs |-> {}]

\* INSERT ... ON CONFLICT DO UPDATE of the whole row.
Save(job, out) ==
  /\ jobs' = IF Applied(out) THEN [jobs EXCEPT ![job.id] = job] ELSE jobs
  /\ UNCHANGED history

SaveJob(job, out) == Save(job, out)

UpdateJob(job, out) == Save(job, out)

SaveJobHistory(id, entry, out) ==
  /\ history' = IF Applied(out)
                THEN [history EXCEPT ![id] = @ \cup {entry}]
                ELSE history
  /\ UNCHANGED jobs
==============================================================================
