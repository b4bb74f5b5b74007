--------------------------- MODULE MCMemoryService ---------------------------
(***************************************************************************)
(* Values for the constants of MemoryService.                              *)
(***************************************************************************)
EXTENDS MemoryService

MCHandlerTypes == {"email", "payment"}
MCJobTypes == {"email", "payment", "data_export"}

Order(body, content) == [request |-> Bind(body), payload |-> content]

Email == [to |-> "x", subject |-> "x"]
Payment(amount) == [payment_id |-> "x", user_id |-> "x", amount |-> amount]

MCOrders ==
  { \* An e-mail to be sent at once, without priority or retry policy.
    Order([type |-> "email"], Email),
    \* An urgent payment for later.
    Order([type |-> "payment", priority |-> PriorityCritical,
           schedule_at |-> "future"], Payment(1)),
    \* Nothing to pay.
    Order([type |-> "payment", priority |-> PriorityLow], Payment(0)),
    \* An e-mail without a subject, one attempt of three left.
    Order([type |-> "email", priority |-> PriorityHigh,
           retry_policy |-> [max |-> 3, attempts |-> 2, steady |-> TRUE]],
          [to |-> "x"]),
    \* A payload that is no e-mail, no retries wanted.
    Order([type |-> "email",
           retry_policy |-> [max |-> 0, attempts |-> 0, steady |-> TRUE]],
          Malformed),
    \* A type without a handler, for later.
    Order([type |-> "data_export", schedule_at |-> "future"], Email),
    \* A priority no constant names.
    Order([type |-> "email", priority |-> 9], Email) }
==============================================================================
