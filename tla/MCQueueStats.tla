----------------------------- MODULE MCQueueStats ----------------------------
(***************************************************************************)
(* Values for the constants of QueueStats.                                 *)
(***************************************************************************)
EXTENDS QueueStats, TLC

MCHandlerTypes == {"email"}
MCJobTypes == {"email"}

\* An e-mail of low priority to be sent at once, a critical one for later.
MCRequests ==
  {Bind([type |-> "email", priority |-> PriorityLow]),
   Bind([type |-> "email", priority |-> PriorityCritical,
         schedule_at |-> "future"])}

Symmetry == Permutations(Jobs)
==============================================================================
