------------------------------ MODULE Decision ------------------------------
(***************************************************************************)
(* The evidence merge of delivery/decision.ts: what one report about one   *)
(* provider invocation does to the attempt it names and to the route of    *)
(* its operation.  A report is an outcome of the worker's own send, a      *)
(* provider callback, or a local failure before any provider call.  The    *)
(* operators are pure; Delivery applies them inside its transactions.      *)
(***************************************************************************)

AttemptState == {"pending", "dispatching", "accepted", "delivered",
                 "failed", "uncertain", "suppressed"}
Acceptance   == {"null", "accepted", "not_accepted", "unknown"}
Reason       == {"initial", "fallback", "resend", "next", "select"}

Outcome == [state : {"accepted", "delivered", "failed", "uncertain"},
            acceptance : Acceptance \ {"null"},
            stop : BOOLEAN,
            notInvoked : BOOLEAN]

(***************************************************************************)
(* The outcomes the program makes.  A callback reports with acceptance     *)
(* "accepted" whatever its status, because the provider took the message.  *)
(***************************************************************************)
acceptedOutcome == [state |-> "accepted", acceptance |-> "accepted",
                    stop |-> FALSE, notInvoked |-> FALSE]
uncertainOutcome == [state |-> "uncertain", acceptance |-> "unknown",
                     stop |-> FALSE, notInvoked |-> FALSE]
notInvokedOutcome == [state |-> "failed", acceptance |-> "not_accepted",
                      stop |-> FALSE, notInvoked |-> TRUE]
rejectedOutcome(invalidRecipient) ==
  [state |-> "failed", acceptance |-> "not_accepted",
   stop |-> invalidRecipient, notInvoked |-> FALSE]
callbackOutcome(status) ==
  [state |-> status, acceptance |-> "accepted",
   stop |-> FALSE, notInvoked |-> FALSE]
CallbackStatus == {"accepted", "delivered", "failed"}

(***************************************************************************)
(* Evidence.                                                               *)
(***************************************************************************)
resultingState(current, incoming) ==
  IF \/ current \in {"delivered", "suppressed"}
     \/ current = "failed" /\ incoming # "delivered"
     \/ current = "accepted" /\ incoming = "uncertain"
  THEN current
  ELSE incoming

applies(attempt, outcome) ==
  resultingState(attempt.state, outcome.state) = outcome.state

\* Mutant: what is on record about the acceptance is kept, whatever it is.
mergedAcceptance_keepsUnknown(attempt, outcome) ==
  IF attempt.acceptance # "null" THEN attempt.acceptance ELSE outcome.acceptance
mergedAcceptance(attempt, outcome) ==
  IF outcome.state = "delivered" \/ attempt.acceptance = "accepted"
  THEN "accepted"
  ELSE outcome.acceptance

\* Mutant: only the first outcome of an attempt is news.
newly_firstOutcome(state, attempt, outcome) ==
  /\ outcome.state = state
  /\ attempt.state = "dispatching"
newly(state, attempt, outcome) ==
  /\ applies(attempt, outcome)
  /\ outcome.state = state
  /\ attempt.state # state

(***************************************************************************)
(* The effect on the operation.                                            *)
(***************************************************************************)
\* Mutant: the flag says what the last outcome said.
recipientInvalid_byLastOutcome(operation, attempt, outcome) ==
  applies(attempt, outcome) /\ outcome.stop
recipientInvalid(operation, attempt, outcome) ==
  operation.recipient_invalid \/ (applies(attempt, outcome) /\ outcome.stop)

stopAutomatic(operation, attempt, outcome) ==
  recipientInvalid(operation, attempt, outcome) \/ newly("delivered", attempt, outcome)

\* The reasons of the pending attempts that the outcome suppresses.
suppressPending(attempt, outcome) ==
  CASE applies(attempt, outcome) /\ outcome.stop -> Reason
    [] ~(applies(attempt, outcome) /\ outcome.stop)
       /\ (newly("accepted", attempt, outcome) \/ newly("delivered", attempt, outcome))
         -> {"fallback"}
    [] OTHER -> {}

mayAdvance(operation, id, attempt, invalid) ==
  /\ operation.state = "active"
  /\ ~operation.automatic_stopped
  /\ ~invalid
  /\ operation.current_attempt_id = id
  /\ operation.routing_revision = attempt.routing_revision

\* Mutant: no answer counts as a failure.
advance_onUncertain(operation, id, attempt, outcome) ==
  /\ newly("failed", attempt, outcome) \/ newly("uncertain", attempt, outcome)
  /\ mayAdvance(operation, id, attempt, recipientInvalid(operation, attempt, outcome))
advance(operation, id, attempt, outcome) ==
  /\ newly("failed", attempt, outcome)
  /\ mayAdvance(operation, id, attempt, recipientInvalid(operation, attempt, outcome))
=============================================================================
