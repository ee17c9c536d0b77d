--------------------------- MODULE Notifications ---------------------------
(***************************************************************************)
(* The notification of one event: how the workers bring it to the receiver *)
(* of the deployment, and what becomes of it when they or the receiver     *)
(* fail.                                                                   *)
(*                                                                         *)
(* A handler claims the row under a lease in one transaction, calls the    *)
(* receiver outside any, and records the answer in another, fenced by the  *)
(* number of its attempt.  The row of an event depends on no other, so one *)
(* is enough.  The workers have a destination; without one they do nothing.*)
(*                                                                         *)
(* Times are reduced to whether they have passed.  A handler stands for a  *)
(* place in the queue's consumer together with the job it runs; the queue  *)
(* keeps at most one job of an event waiting (policy "short", one          *)
(* singletonKey), and may start it early, as the duplicate of a later one. *)
(***************************************************************************)
EXTENDS Integers

CONSTANTS
  Handler,       \* places of the notification consumer
  attemptLimit,  \* attempts before the notification fails (12 in the code)
  MaxReplays     \* bound: replays by the operator

ASSUME LimitAssumption   == attemptLimit \in Nat \ {0}
ASSUME ReplaysAssumption == MaxReplays \in Nat

VARIABLES
  row,           \* the row of notifications; "deleted" with its event
  waiting,       \* a job of the event waits in the queue
  handler,       \* each handler: its step, attempt, answer, and (history) round
  acknowledged,  \* history: the receiver has answered 2xx, heard or not
  replays        \* replays by the operator so far, the round of a claim

vars == <<row, waiting, handler, acknowledged, replays>>

Answers == {"none", "acknowledged", "http_error", "transport_error"}

TypeOK ==
  /\ row \in [state : {"pending", "delivering", "delivered", "failed", "deleted"},
              attempts : 0 .. attemptLimit,
              due : BOOLEAN,
              lease : {"none", "running", "over"},
              delivered_at : BOOLEAN]
  /\ waiting \in BOOLEAN
  /\ handler \in [Handler -> [step : {"idle", "retry", "sending", "answered"},
                              attempt : 0 .. attemptLimit,
                              answer : Answers,
                              round : 0 .. MaxReplays]]
  /\ acknowledged \in BOOLEAN
  /\ replays \in 0 .. MaxReplays

idle  == [step |-> "idle", attempt |-> 0, answer |-> "none", round |-> 0]
retry == [idle EXCEPT !.step = "retry"]

\* The transaction of the event has scheduled its notification.
Init ==
  /\ row = [state |-> "pending", attempts |-> 0, due |-> TRUE, lease |-> "none",
            delivered_at |-> FALSE]
  /\ waiting = TRUE
  /\ handler = [h \in Handler |-> idle]
  /\ acknowledged = FALSE
  /\ replays = 0

busy(h) == handler[h].step \in {"sending", "answered"}

(***************************************************************************)
(* One attempt.                                                            *)
(***************************************************************************)
\* What recovery looks for, and a claim may take.
overdue(r) == \/ r.state = "pending" /\ r.due
              \/ r.state = "delivering" /\ r.lease = "over"

claimable(r) == r.attempts < attemptLimit /\ overdue(r)

\* A job starts: the one that waits, or the one of a handler that died.
starts(h) ==
  \/ handler[h].step = "idle" /\ waiting /\ waiting' = FALSE
  \/ handler[h].step = "retry" /\ UNCHANGED waiting

(***************************************************************************)
(* Assumption on time: no handler of an earlier round is left when the     *)
(* number of its attempt comes again, which takes a replay and             *)
(* attemptLimit claims.  Those are apart by a lease (30 s) or a backoff    *)
(* (5 s, 10 s, 20 s, ...), together over four minutes; the call ends after *)
(* 10 s and the queue aborts the handler after 90 s.                       *)
(***************************************************************************)
noneLeft(attempt) ==
  \A h \in Handler :
    busy(h) /\ handler[h].attempt = attempt => handler[h].round = replays

Claim(h) ==
  /\ starts(h)
  /\ claimable(row)
  /\ noneLeft(row.attempts + 1)
  /\ row' = [row EXCEPT !.state = "delivering", !.attempts = @ + 1, !.lease = "running"]
  /\ handler' = [handler EXCEPT ![h] =
                   [step |-> "sending", attempt |-> row.attempts + 1, answer |-> "none",
                    round |-> replays]]
  /\ UNCHANGED <<acknowledged, replays>>

ClaimNothing(h) ==
  /\ starts(h)
  /\ ~claimable(row)
  /\ handler' = [handler EXCEPT ![h] = idle]
  /\ UNCHANGED <<row, acknowledged, replays>>

\* The call of the receiver, which may acknowledge an event without being heard.
Call(h, answer, acks) ==
  /\ handler[h].step = "sending"
  /\ answer = "acknowledged" => acks
  /\ answer = "http_error" => ~acks
  /\ handler' = [handler EXCEPT ![h].step = "answered", ![h].answer = answer]
  /\ acknowledged' = (acknowledged \/ acks)
  /\ UNCHANGED <<row, waiting, replays>>

\* Mutant: any answer will do.
succeeded_whateverStatus(answer) == answer # "transport_error"
succeeded(answer) == answer = "acknowledged"

finished(answer, attempt) ==
  CASE succeeded(answer)          -> "delivered"
    [] ~succeeded(answer) /\ attempt >= attemptLimit -> "failed"
    [] OTHER                      -> "pending"

\* Mutant: the answer is recorded whoever has claimed the row since.
fenced_byState(attempt) == row.state = "delivering"
fenced(attempt) == row.state = "delivering" /\ row.attempts = attempt

Finish(h) ==
  LET own   == handler[h]
      state == finished(own.answer, own.attempt)
  IN  /\ own.step = "answered"
      /\ fenced(own.attempt)
      /\ row' = [row EXCEPT !.state = state, !.due = FALSE, !.lease = "none",
                            !.delivered_at = succeeded(own.answer)]
      /\ waiting' = (waiting \/ state = "pending")
      /\ handler' = [handler EXCEPT ![h] = idle]
      /\ UNCHANGED <<acknowledged, replays>>

FinishStale(h) ==
  /\ handler[h].step = "answered"
  /\ ~fenced(handler[h].attempt)
  /\ handler' = [handler EXCEPT ![h] = idle]
  /\ UNCHANGED <<row, waiting, acknowledged, replays>>

\* The handler dies or is aborted; the queue runs its job again, unless that was
\* the last retry.  The call may have been under way.
Crash(h, acks) ==
  /\ busy(h)
  /\ acks => handler[h].step = "sending"
  /\ \E next \in {idle, retry} : handler' = [handler EXCEPT ![h] = next]
  /\ acknowledged' = (acknowledged \/ acks)
  /\ UNCHANGED <<row, waiting, replays>>

(***************************************************************************)
(* Recovery, replay, retention and time.                                   *)
(***************************************************************************)
exhausted(r) == r.state = "delivering" /\ r.lease = "over" /\ r.attempts >= attemptLimit

failExhausted(r) == IF exhausted(r) THEN [r EXCEPT !.state = "failed", !.lease = "none"] ELSE r

\* Mutant: only waiting work is looked for, not the leases that are over.
recoverNotifications_pendingOnly ==
  /\ row' = failExhausted(row)
  /\ waiting' = (waiting \/ (overdue(row') /\ row'.state = "pending"))
  /\ UNCHANGED <<handler, acknowledged, replays>>
recoverNotifications ==
  /\ row' = failExhausted(row)
  /\ waiting' = (waiting \/ overdue(row'))
  /\ UNCHANGED <<handler, acknowledged, replays>>

replayable == row.state = "failed"

replayNotification ==
  /\ replayable
  /\ replays < MaxReplays
  /\ row' = [row EXCEPT !.state = "pending", !.attempts = 0, !.due = TRUE, !.lease = "none"]
  /\ waiting' = TRUE
  /\ replays' = replays + 1
  /\ UNCHANGED <<handler, acknowledged>>

\* Retention deletes an event long delivered, and its notification with it.
cleanupEvents ==
  /\ row.state = "delivered"
  /\ row' = [row EXCEPT !.state = "deleted", !.delivered_at = FALSE]
  /\ UNCHANGED <<waiting, handler, acknowledged, replays>>

BackoffEnds ==
  /\ row.state = "pending" /\ ~row.due
  /\ row' = [row EXCEPT !.due = TRUE]
  /\ UNCHANGED <<waiting, handler, acknowledged, replays>>

LeaseEnds ==
  /\ row.lease = "running"
  /\ row' = [row EXCEPT !.lease = "over"]
  /\ UNCHANGED <<waiting, handler, acknowledged, replays>>

Take(h) == Claim(h) \/ ClaimNothing(h)

Proceed(h) ==
  \/ \E answer \in Answers \ {"none"}, acks \in BOOLEAN : Call(h, answer, acks)
  \/ Finish(h)
  \/ FinishStale(h)
  \/ \E acks \in BOOLEAN : Crash(h, acks)

Next ==
  \/ \E h \in Handler : Take(h) \/ Proceed(h)
  \/ recoverNotifications
  \/ replayNotification
  \/ cleanupEvents
  \/ BackoffEnds
  \/ LeaseEnds

Spec == Init /\ [][Next]_vars

\* The queue starts jobs and aborts handlers that hang, recovery runs every minute,
\* and time passes.  The receiver owes nothing, and handlers may die each time.
FairSpec ==
  /\ Spec
  /\ \A h \in Handler : WF_vars(Take(h)) /\ WF_vars(Proceed(h))
  /\ WF_vars(recoverNotifications)
  /\ WF_vars(BackoffEnds)
  /\ WF_vars(LeaseEnds)

(***************************************************************************)
(* Properties.                                                             *)
(***************************************************************************)
\* No statement of send.ts, in any order of claims, stale answers, recovery and
\* replay, breaks a CHECK constraint of notifications.
RowConstraints ==
  /\ row.state = "delivered" <=> row.delivered_at
  /\ row.state = "delivering" <=> row.lease # "none"

\* What is recorded as delivered, or deleted by retention, was acknowledged by the
\* receiver: no event is given up silently (webhooks.md: any 2xx acknowledges
\* delivery, and failed events remain available).
DeliveredIsAcknowledged == row.state \in {"delivered", "deleted"} => acknowledged

\* While the lease of a claim runs, only its end and the answer of the one handler
\* that has the claim touch the row: a handler whose lease ended, or whose round was
\* replayed, can no longer settle or restart the attempt of another.
has(h) == busy(h) /\ handler[h].attempt = row.attempts /\ handler[h].round = replays

ClaimIsExclusive ==
  [][row.lease = "running" /\ row' # row =>
       \/ row' = [row EXCEPT !.lease = "over"]
       \/ \E h \in Handler : /\ has(h) /\ handler'[h] = idle
                             /\ \A other \in Handler : has(other) => other = h]_vars

\* A delivered event is never sent again on purpose: it is not claimed, retried or
\* replayed, and its notification only disappears with it.
DeliveredIsFinal ==
  [][row.state \in {"delivered", "deleted"} => row'.state \in {row.state, "deleted"}]_vars

\* Every notification is delivered or failed at some time, though every handler may
\* die, the queue may lose its jobs and the receiver may never answer.
NotificationSettles ==
  row.state \in {"pending", "delivering"} ~> row.state \in {"delivered", "failed"}
=============================================================================
