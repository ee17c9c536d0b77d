------------------------------ MODULE Adapters ------------------------------
(***************************************************************************)
(* The shipped provider adapters: what each concludes from the reply of a  *)
(* send, and from a status callback.  An adapter has three answers.        *)
(* "accepted" says that the provider took the message, "rejected" that it  *)
(* certainly did not, and "uncertain" everything else.  Only a rejection   *)
(* lets the router try another provider, so a rejection must be proof.     *)
(*                                                                         *)
(* A reply is what the HTTP transport hands over: a status (0 when there   *)
(* is no response, or none that can be read in full), and what the body    *)
(* decodes to: the provider's acceptance, its error envelope with a code,  *)
(* or anything else.                                                       *)
(***************************************************************************)
EXTENDS Integers

Adapter == {"meta", "telegram", "play_mobile", "custom"}

Body  == {"accepted", "error", "other"}
Reply == [status : Nat, body : Body, code : STRING]

transportFailure == [status |-> 0, body |-> "other", code |-> "none"]
success(reply)   == reply.status \in 200 .. 299

-----------------------------------------------------------------------------
(***************************************************************************)
(* Before the request: what an adapter refuses to send at all.             *)
(***************************************************************************)
constraints ==
  [meta        |-> [minCodeLength |-> 6, maxCodeLength |-> 8, minDeliveryWindowMs |-> 0],
   telegram    |-> [minCodeLength |-> 4, maxCodeLength |-> 8, minDeliveryWindowMs |-> 30000],
   play_mobile |-> [minCodeLength |-> 6, maxCodeLength |-> 8, minDeliveryWindowMs |-> 1000],
   custom      |-> [minCodeLength |-> 6, maxCodeLength |-> 8, minDeliveryWindowMs |-> 0]]

validateSendInput(adapter, codeLength) ==
  codeLength \in constraints[adapter].minCodeLength .. constraints[adapter].maxCodeLength

deliveryWindowFits(timing, remainingMs) ==
  timing.minDeliveryWindowMs + timing.sendTimeoutMs < remainingMs

\* The window may have shrunk since the router found that it fits.
windowTooShort(adapter, remainingMs) ==
  remainingMs \div 1000 < constraints[adapter].minDeliveryWindowMs \div 1000

\* Only the text message has its code put into a text of the template's, which
\* may not fit one message then.
sendable(adapter, codeLength, remainingMs, fitsSingleSms) ==
  /\ validateSendInput(adapter, codeLength)
  /\ ~windowTooShort(adapter, remainingMs)
  /\ adapter = "play_mobile" => fitsSingleSms

-----------------------------------------------------------------------------
(***************************************************************************)
(* The reply of a send.                                                    *)
(***************************************************************************)
mapMetaError(code) ==
  IF code \in {"190", "131008", "132001", "130429", "131026"} THEN "rejected" ELSE "uncertain"

sendMeta(reply) ==
  CASE success(reply) /\ reply.body = "accepted" -> "accepted"
    [] ~success(reply) /\ reply.body = "error"   -> mapMetaError(reply.code)
    [] OTHER                                     -> "uncertain"

mapTelegramError(code) ==
  IF code = "MESSAGE_ALREADY_SENT" THEN "uncertain" ELSE "rejected"

\* An envelope counts only under a status the Gateway itself gives.
\* Mutant: a request timeout is taken for an answer of the Gateway.
clientError_all(reply) == reply.status \in 400 .. 499
clientError(reply) == reply.status \in (400 .. 499) \ {408}

sendTelegram(reply) ==
  CASE success(reply) /\ reply.body = "accepted" -> "accepted"
    [] (success(reply) \/ clientError(reply)) /\ reply.body = "error"
                                                 -> mapTelegramError(reply.code)
    [] OTHER                                     -> "uncertain"

mapErrorCode(code) ==
  IF code \in {"102", "202", "204"} THEN "rejected" ELSE "uncertain"

sendPlayMobile(reply) ==
  CASE reply.status = 200 /\ reply.body = "accepted" -> "accepted"
    [] reply.status # 200 /\ reply.body = "error"    -> mapErrorCode(reply.code)
    [] OTHER                                         -> "uncertain"

\* An adapter written to the provider contract, such as the one of the tests.
sendCustom(reply) ==
  CASE reply.body = "accepted" -> "accepted"
    [] reply.body = "error"    -> "rejected"
    [] OTHER                   -> "uncertain"

send(adapter, reply) ==
  CASE adapter = "meta"        -> sendMeta(reply)
    [] adapter = "telegram"    -> sendTelegram(reply)
    [] adapter = "play_mobile" -> sendPlayMobile(reply)
    [] adapter = "custom"      -> sendCustom(reply)

-----------------------------------------------------------------------------
(***************************************************************************)
(* Status callbacks.  Play Mobile has none.                                *)
(***************************************************************************)
ProviderStatus ==
  [meta        |-> {"sent", "delivered", "read", "failed", "deleted"},
   telegram    |-> {"sent", "delivered", "read", "expired", "revoked"},
   play_mobile |-> {},
   custom      |-> {"accepted", "delivered", "failed", "cancelled"}]

normalizeMeta(status) ==
  CASE status \in {"delivered", "read"} -> "delivered"
    [] status = "failed"               -> "failed"
    [] status = "deleted"              -> "cancelled"
    [] status = "sent"                 -> "accepted"

normalizeTelegram(status) ==
  CASE status \in {"delivered", "read"} -> "delivered"
    [] status = "expired"              -> "failed"
    [] status = "revoked"              -> "cancelled"
    [] status = "sent"                 -> "accepted"

normalizeStatus(adapter, status) ==
  CASE adapter = "meta"     -> normalizeMeta(status)
    [] adapter = "telegram" -> normalizeTelegram(status)
    [] OTHER                -> status

\* Whether the callback handler made for the sender of one saved revision
\* takes a batch that the provider signed for the senders it names.  Meta
\* names the sending number and refuses a batch with any other; the
\* signature of the Gateway identifies the account alone.
acceptsMeta(sender, senders)     == senders \subseteq {sender}
acceptsTelegram(sender, senders) == TRUE
authenticates(adapter, sender, senders) ==
  IF adapter = "meta" THEN acceptsMeta(sender, senders) ELSE acceptsTelegram(sender, senders)

\* A request of the Gateway holds one report, one of Meta a batch.
batchLimit(adapter, limit) == IF adapter = "telegram" THEN 1 ELSE limit

\* Whether a report bears the provider's own identifier: always, unless it
\* names the attempt and its format has room for one of the two only.
bearsIdentifier(adapter, namesAttempt) == adapter = "custom" => ~namesAttempt
=============================================================================
