----------------------------- MODULE JobHandlers -----------------------------
(***************************************************************************)
(* ProcessorService.executeJob and the handlers of pkg/handlers: how the   *)
(* run of a job may end, by its type and its payload.                      *)
(*                                                                         *)
(* A payload is a record of the JSON keys it has, or Malformed when its    *)
(* JSON does not fit the handler's payload type.                           *)
(***************************************************************************)
EXTENDS JobDomain

CONSTANT Malformed   \* a payload json.Unmarshal refuses

\* json.Unmarshal leaves the zero value where a key is missing.
Field(payload, key, zero) ==
  IF key \in DOMAIN payload THEN payload[key] ELSE zero

(***************************************************************************)
(* The services behind the handlers are interfaces.  The mock ones sleep   *)
(* and fail at random before they act; any service may also act and return *)
(* an error all the same, as when the 30 minutes of its context are over   *)
(* before the answer is there.                                             *)
(***************************************************************************)
SendEmail == Outcomes

ProcessPayment == Outcomes

HandleEmail(payload) ==
  IF payload # Malformed /\ Field(payload, "to", "") # ""
                         /\ Field(payload, "subject", "") # ""
  THEN SendEmail
  ELSE {"failed"}

HandlePayment(payload) ==
  IF payload # Malformed /\ Field(payload, "payment_id", "") # ""
                         /\ Field(payload, "amount", 0) > 0
                         /\ Field(payload, "user_id", "") # ""
  THEN ProcessPayment
  ELSE {"failed"}

\* A type nobody has registered a handler for is an error like any other.
ExecuteJob(type, payload) ==
  CASE type \in HandlerTypes /\ type = "email"   -> HandleEmail(payload)
    [] type \in HandlerTypes /\ type = "payment" -> HandlePayment(payload)
    [] OTHER                                     -> {"failed"}
========================================
