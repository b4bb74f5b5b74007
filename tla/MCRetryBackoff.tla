---------------------------- MODULE MCRetryBackoff ---------------------------
(***************************************************************************)
(* Values for the constants of RetryBackoff: bytes for machine words, four *)
(* ticks to the second.                                                    *)
(***************************************************************************)
EXTENDS RetryBackoff

\* Nothing set, all set, one variable that cannot be parsed.
MCEnvironments ==
  {[retries |-> NoNumber, base |-> NoNumber, max |-> NoNumber],
   [retries |-> 2, base |-> 1, max |-> 3],
   [retries |-> 4, base |-> NoNumber, max |-> 9]}

\* Policies that run into every branch: each strategy and an unknown one, a
\* cap that bites and one that does not, powers and products that overflow,
\* counts at the ends of their range.
MCPolicies ==
  [retries : {9}, attempts : {0}, base : {1, 3}, max : {7, 127},
   backoff : {"fixed", "linear", "exponential", "random"}]
  \cup
  [retries : {127}, attempts : {-128, -2, 126}, base : {-3, 0, 5}, max : {-1, 6},
   backoff : {"linear", "exponential"}]

\* Exponential backoff with many attempts.
PatientPolicies ==
  [retries : {9}, attempts : {0}, base : {3}, max : {7}, backoff : {"exponential"}]
==============================================================================
