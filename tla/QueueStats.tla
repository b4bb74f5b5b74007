------------------------------ MODULE QueueStats -----------------------------
(***************************************************************************)
(* GET /queues/stats beside the running system: RedisQueue.GetQueueStats   *)
(* asks Redis for six lengths, one command after the other, while jobs go  *)
(* on moving.  One call at a time is enough, since a call changes nothing. *)
(***************************************************************************)
EXTENDS JobService

VARIABLE stats   \* the lengths the call in progress, or the last one, has read

statsVars == <<vars, stats>>

\* The lists in the order in which the code asks for them.
ActiveOrder == <<PriorityLow, PriorityMedium, PriorityHigh, PriorityCritical>>

\* The six answers at this moment: LLEN four times, ZCARD, LLEN.
Snapshot ==
  [i \in 1 .. 4 |-> Len(queues[ActiveOrder[i]])]
    \o <<Cardinality(delayed), Len(deadLetter)>>

Done == Len(stats) = Len(Snapshot)

StatsInit == Init /\ stats = <<>>

\* The answer is sent, and a new call may come.
BeginStats ==
  /\ Done
  /\ stats' = <<>>
  /\ UNCHANGED vars

\* The next command of GetQueueStats.
ReadLength ==
  /\ ~Done
  /\ stats' = Append(stats, Snapshot[Len(stats) + 1])
  /\ UNCHANGED vars

\* A command fails: the call returns its error and no statistics.
StatsFail ==
  /\ ~Done
  /\ stats' = <<>>
  /\ UNCHANGED vars

\* The system moves on between two commands, or while there is no call.  (An
\* answer that is complete is sent first: the system cannot change it.)
SystemStep ==
  /\ ~Done
  /\ Next
  /\ UNCHANGED stats

StatsNext == BeginStats \/ ReadLength \/ StatsFail \/ SystemStep

StatsSpec == StatsInit /\ [][StatsNext]_statsVars

-----------------------------------------------------------------------------
SavedJobs == {j \in Jobs : Saved(j)}

\* The i-th length, if it has been read.
Counted(i) == IF i <= Len(stats) THEN stats[i] ELSE 0

(***************************************************************************)
(* Although the four lists are read at different times, no job is counted  *)
(* as active twice: a retry goes back to the list it came from, and a      *)
(* message is never on its list in two copies (with one scheduler, and     *)
(* where no fault has made one).                                           *)
(***************************************************************************)
ActiveCountedOnce ==
  (\A j \in Jobs : "dup" \notin damage[j]) =>
    Counted(1) + Counted(2) + Counted(3) + Counted(4) <= Cardinality(SavedJobs)
==============================================================================
