----------------------------- MODULE MCJobService ----------------------------
(***************************************************************************)
(* Values for the constants of JobService.                                 *)
(***************************************************************************)
EXTENDS JobServiceRefinement, TLC

MCHandlerTypes == {"email"}
MCJobTypes == {"email", "data_export"}

\* An e-mail to be sent at once, without priority or retry policy.
PlainRequest == Bind([type |-> "email"])

\* An e-mail for later, with a priority no constant names.
DelayedRequest ==
  Bind([type |-> "email", priority |-> 9, schedule_at |-> "future"])

\* A type without a handler, a priority of its own, no retries wanted.
UnhandledRequest == Bind([type |-> "data_export", priority |-> PriorityHigh,
                          retry_policy |-> [max |-> 0, attempts |-> 0,
                                            steady |-> TRUE]])

\* One attempt of three is left, by the client's own count.
LastAttemptRequest == Bind([type |-> "email", priority |-> PriorityCritical,
                            retry_policy |-> [max |-> 3, attempts |-> 2,
                                              steady |-> TRUE]])

\* A base_delay so long, or below zero, that the retry may never come.
UnsteadyRequest == Bind([type |-> "email",
                         retry_policy |-> [max |-> 2, attempts |-> 0,
                                           steady |-> FALSE]])

PolicyRequests == {DelayedRequest, UnhandledRequest, LastAttemptRequest,
                   UnsteadyRequest}
OnlyDelayed == {DelayedRequest}
OnlyPlain == {PlainRequest}
PlainAndDelayed == {PlainRequest, DelayedRequest}

\* Jobs and worker processes are interchangeable.
Symmetry == Permutations(Jobs) \cup Permutations(Workers)

\* Scheduler processes are interchangeable.
ProcessSymmetry == Permutations(Schedulers)
==============================================================================
