--------------------------- MODULE DeliveryProofs ---------------------------
(***************************************************************************)
(* Theorems about Delivery, for every number of attempts, workers, route   *)
(* steps, sends and withdrawals of authority.                              *)
(*                                                                         *)
(* The rows of the database are judged attempt by attempt.  AttemptOK      *)
(* relates one row to the two facts the database does not hold: how often  *)
(* its provider was called, and whether a worker is between its gate and   *)
(* its outcome.  Each row operation of Delivery keeps AttemptOK of every   *)
(* attempt, so a transaction, which is a chain of row operations on one    *)
(* locked operation, keeps it as well; what is left for the steps is what  *)
(* a step does to the workers.                                             *)
(***************************************************************************)
EXTENDS Delivery, FiniteSetTheorems, TLAPS

Rows == [op : Operation, attempts : [AttemptId -> Attempt], jobs : SUBSET Job]

\* The attempts some worker is dispatching.
inFlight == {held[w].attemptId : w \in {v \in Worker : pc[v] # "idle"}}

\* x is a row, n the number of provider calls for it, h that a worker dispatches it.
AttemptOK(x, n, h) ==
  /\ x.state \in {"unused", "pending"} => ~x.committed /\ x.invocation = "not_started"
  /\ ~x.committed => n = 0 /\ ~h /\ x.invocation # "committed"
  /\ x.invocation = "not_invoked" => n = 0 /\ ~h
  /\ h => x.invocation = "committed"
  /\ x.invocation = "not_started" => ~x.committed
  /\ x.state = "dispatching" => x.invocation = "committed"
  /\ x.state \in {"accepted", "delivered"} => x.acceptance = "accepted"
  /\ n <= 1

RowsOK(s, H, n) ==
  /\ s \in Rows
  /\ \A a \in AttemptId : AttemptOK(s.attempts[a], n[a], a \in H)

\* The outcomes the program makes: a reported acceptance says that it is one.
Credible(outcome) == outcome.state = "accepted" => outcome.acceptance = "accepted"

WorkersOK ==
  /\ \A w \in Worker : pc[w] # "idle" =>
       /\ held[w] \in Job
       /\ pc[w] = "reserved" => sends[held[w].attemptId] = 0
  /\ \A v, w \in Worker :
       pc[v] # "idle" /\ pc[w] # "idle" /\ v # w => held[v].attemptId # held[w].attemptId

DispatchInv ==
  /\ TypeOK
  /\ WorkersOK
  /\ RowsOK(db, inFlight, sends)

-----------------------------------------------------------------------------
(***************************************************************************)
(* The row operations keep RowsOK.                                         *)
(***************************************************************************)

\* Suppressing pending work (attempts.ts) turns a waiting attempt into one never sent
\* and touches no other.
LEMMA SuppressPendingOK ==
  ASSUME NEW attempts \in [AttemptId -> Attempt], NEW H, NEW n, NEW reasons,
         \A a \in AttemptId : AttemptOK(attempts[a], n[a], a \in H)
  PROVE  LET after == suppressPendingAttempts(attempts, reasons) IN
         /\ after \in [AttemptId -> Attempt]
         /\ \A a \in AttemptId : AttemptOK(after[a], n[a], a \in H)
<1> DEFINE after == suppressPendingAttempts(attempts, reasons)
<1>1. ASSUME NEW a \in AttemptId
      PROVE  after[a] \in Attempt /\ AttemptOK(after[a], n[a], a \in H)
  <2>1. attempts[a] \in Attempt /\ AttemptOK(attempts[a], n[a], a \in H)
    OBVIOUS
  <2>2. CASE attempts[a].state = "pending" /\ attempts[a].reason \in reasons
    <3>1. after[a] = [attempts[a] EXCEPT !.state = "suppressed", !.invocation = "not_invoked"]
      BY <2>2 DEF suppressPendingAttempts
    <3>2. QED
      BY <2>1, <2>2, <3>1 DEF Attempt, AttemptState, AttemptOK
  <2>3. CASE ~(attempts[a].state = "pending" /\ attempts[a].reason \in reasons)
    BY <2>1, <2>3 DEF suppressPendingAttempts
  <2>4. QED
    BY <2>2, <2>3
<1>2. after = [a \in AttemptId |-> after[a]]
  BY DEF suppressPendingAttempts
<1>3. QED
  BY <1>1, <1>2

\* The end of an operation (mutate.ts, terminate) gives it the terminal state.
LEMMA TerminateState ==
  ASSUME NEW s \in Rows, NEW state
  PROVE  terminate(s, state).op.state = state
<1> DEFINE o == [s.op EXCEPT
                    !.state = state,
                    !.routing_revision = s.op.routing_revision + 1,
                    !.automatic_stopped = TRUE,
                    !.code = "erased"]
<1>1. terminate(s, state).op = o
  BY DEF terminate, Rows
<1>2. s.op \in Operation
  BY DEF Rows
<1>3. o.state = state
  BY <1>2 DEF Operation
<1>4. QED
  BY <1>1, <1>3

\* Logical expiry (store.ts) keeps the rows consistent.
LEMMA TerminateOK ==
  ASSUME NEW s, NEW H, NEW n, RowsOK(s, H, n), NEW state \in {"closed", "expired"}
  PROVE  RowsOK(terminate(s, state), H, n)
<1>1. /\ suppressPendingAttempts(s.attempts, Reason) \in [AttemptId -> Attempt]
      /\ \A a \in AttemptId :
           AttemptOK(suppressPendingAttempts(s.attempts, Reason)[a], n[a], a \in H)
  BY SuppressPendingOK DEF RowsOK, Rows
<1>2. [s.op EXCEPT !.state = state, !.routing_revision = s.op.routing_revision + 1,
                   !.automatic_stopped = TRUE, !.code = "erased"] \in Operation
  <2>1. s.op \in Operation
    BY DEF RowsOK, Rows
  <2>2. s.op.routing_revision + 1 \in Nat
    BY <2>1 DEF Operation
  <2>3. QED
    BY <2>1, <2>2 DEF Operation
<1>3. QED
  BY <1>1, <1>2 DEF RowsOK, Rows, terminate

LEMMA ExpiredOK ==
  ASSUME NEW s, NEW H, NEW n, RowsOK(s, H, n)
  PROVE  RowsOK(expired(s), H, n)
BY TerminateOK DEF expired

\* A new attempt (schedule.ts) starts waiting, uncommitted and unsent.
LEMMA ScheduleOK ==
  ASSUME NEW s, NEW H, NEW n, RowsOK(s, H, n),
         NEW id \in fresh(s), NEW position \in Position, NEW reason \in Reason,
         NEW intent \in Intent
  PROVE  RowsOK(schedule(s, id, position, reason, intent), H, n)
<1> DEFINE row == [state |-> "pending", invocation |-> "not_started", acceptance |-> "null",
                   committed |-> FALSE, reason |-> reason,
                   routing_revision |-> s.op.routing_revision,
                   route_position |-> position, intent |-> intent]
           job == [attemptId |-> id, routingRevision |-> s.op.routing_revision]
           t == schedule(s, id, position, reason, intent)
<1>1. id \in AttemptId /\ s.attempts[id].state = "unused" /\ s.op.routing_revision \in Nat
  BY DEF fresh, RowsOK, Rows, Operation
<1>2. row \in Attempt
  BY <1>1 DEF Attempt, AttemptState, Acceptance
<1>3. job \in Job
  BY <1>1 DEF Job
<1>4. [s.op EXCEPT !.current_attempt_id = id] \in Operation
  BY <1>1 DEF RowsOK, Rows, Operation
<1>5. t \in Rows
  BY <1>1, <1>2, <1>3, <1>4 DEF RowsOK, Rows, schedule
<1>6. AttemptOK(row, n[id], id \in H)
  BY <1>1 DEF RowsOK, AttemptOK
<1>7. QED
  BY <1>1, <1>5, <1>6 DEF RowsOK, Rows, schedule

\* Recovery (recovery.ts) settles attempts in dispatch and revives none.
LEMMA RecoveredOK ==
  ASSUME NEW s, NEW H, NEW n, RowsOK(s, H, n), NEW S
  PROVE  RowsOK(recovered(s, S), H, n)
<1> DEFINE t == recovered(s, S)
<1>1. ASSUME NEW a \in AttemptId
      PROVE  t.attempts[a] \in Attempt /\ AttemptOK(t.attempts[a], n[a], a \in H)
  <2>1. s.attempts[a] \in Attempt /\ AttemptOK(s.attempts[a], n[a], a \in H)
    BY DEF RowsOK, Rows
  <2>2. QED
    BY <2>1 DEF RowsOK, Rows, recovered, Attempt, AttemptState, Acceptance, AttemptOK
<1>2. QED
  BY <1>1 DEF RowsOK, Rows, recovered

\* Evidence about an attempt (outcomes.ts), provided that an outcome which says the
\* provider was not called tells the truth.
LEMMA RecordedEvidenceOK ==
  ASSUME NEW s, NEW H, NEW n, RowsOK(s, H, n),
         NEW a \in AttemptId, NEW outcome \in Outcome, Credible(outcome),
         outcome.notInvoked => n[a] = 0 /\ a \notin H
  PROVE  RowsOK(recordedEvidence(s, a, outcome), H, n)
<1> DEFINE x == s.attempts[a]
           invocation == IF outcome.notInvoked THEN "not_invoked" ELSE x.invocation
           t == recordedEvidence(s, a, outcome)
<1>1. /\ s \in Rows
      /\ s.op \in Operation
      /\ s.attempts \in [AttemptId -> Attempt]
      /\ x \in Attempt
      /\ AttemptOK(x, n[a], a \in H)
      /\ \A b \in AttemptId : AttemptOK(s.attempts[b], n[b], b \in H)
  BY DEF RowsOK, Rows
<1>2. /\ outcome.state \in AttemptState \ {"pending", "suppressed"}
      /\ outcome.acceptance \in Acceptance
      /\ outcome.notInvoked \in BOOLEAN
  BY DEF Outcome, AttemptState, Acceptance
<1>3. invocation \in {"not_started", "committed", "not_invoked"}
  BY <1>1 DEF Attempt
<1>4. CASE ~applies(x, outcome)
  <2> DEFINE y == [x EXCEPT !.invocation = invocation]
             after == [s.attempts EXCEPT ![a] = y]
  <2>1. t = [s EXCEPT !.attempts = after]
    BY <1>4 DEF recordedEvidence
  <2>2. x.state \notin {"unused", "pending", "dispatching"}
    BY <1>4 DEF applies, resultingState
  <2>3. y \in Attempt /\ AttemptOK(y, n[a], a \in H)
    BY <1>1, <1>2, <1>3, <2>2 DEF Attempt, AttemptOK
  <2>4. QED
    BY <1>1, <2>1, <2>3 DEF RowsOK, Rows
<1>5. CASE applies(x, outcome)
  <2> DEFINE y == [x EXCEPT !.state = outcome.state,
                            !.acceptance = mergedAcceptance(x, outcome),
                            !.invocation = invocation]
             merged == [s.attempts EXCEPT ![a] = y]
             after == suppressPendingAttempts(merged, suppressPending(x, outcome))
             op == IF stopAutomatic(s.op, x, outcome)
                   THEN [s.op EXCEPT
                           !.automatic_stopped = TRUE,
                           !.recipient_invalid = recipientInvalid(s.op, x, outcome)]
                   ELSE s.op
  <2>1. t = [s EXCEPT !.attempts = after, !.op = op]
    BY <1>5 DEF recordedEvidence
  <2>2. mergedAcceptance(x, outcome) \in Acceptance
    BY <1>2 DEF mergedAcceptance, Acceptance
  <2>3. y \in Attempt /\ AttemptOK(y, n[a], a \in H)
    <3>1. y \in Attempt
      BY <1>1, <1>2, <1>3, <2>2 DEF Attempt, AttemptState
    <3>2. outcome.state \in {"accepted", "delivered"} => mergedAcceptance(x, outcome) = "accepted"
      BY DEF mergedAcceptance, Credible
    <3>3. outcome.state \notin {"unused", "pending", "dispatching"}
      BY DEF Outcome
    <3>4. QED
      BY <1>1, <1>2, <3>1, <3>2, <3>3 DEF Attempt, AttemptOK
  <2>4. /\ merged \in [AttemptId -> Attempt]
        /\ \A b \in AttemptId : AttemptOK(merged[b], n[b], b \in H)
    BY <1>1, <2>3
  <2>5. /\ after \in [AttemptId -> Attempt]
        /\ \A b \in AttemptId : AttemptOK(after[b], n[b], b \in H)
    BY <2>4, SuppressPendingOK
  <2>6. op \in Operation
    <3>1. recipientInvalid(s.op, x, outcome) \in BOOLEAN
      BY <1>1, <1>2 DEF recipientInvalid
    <3>2. QED
      BY <1>1, <3>1 DEF Operation
  <2>7. QED
    BY <1>1, <2>1, <2>5, <2>6 DEF RowsOK, Rows
<1>6. QED
  BY <1>4, <1>5

\* The whole of mergeLockedOutcome, the automatic fallback included.
LEMMA MergeOK ==
  ASSUME NEW s, NEW H, NEW n, RowsOK(s, H, n),
         NEW a \in AttemptId, NEW outcome \in Outcome, Credible(outcome),
         outcome.notInvoked => n[a] = 0 /\ a \notin H,
         NEW t \in mergeLockedOutcome(s, a, outcome)
  PROVE  RowsOK(t, H, n)
<1> DEFINE r == recordedEvidence(s, a, outcome)
<1>1. RowsOK(r, H, n)
  BY RecordedEvidenceOK
<1>2. CASE t = r
  BY <1>1, <1>2
<1>3. CASE t # r
  <2>1. PICK ready \in SUBSET Position : t \in fallbacks(r, a, ready)
    BY <1>3 DEF mergeLockedOutcome
  <2>2. PICK id \in fresh(r), p \in nextProvider(ready, r.attempts[a].route_position) :
          t = schedule(r, id, p, "fallback", r.attempts[a].intent)
    BY <2>1 DEF fallbacks
  <2>3. p \in Position
    BY <2>2 DEF nextProvider
  <2>4. r.attempts[a].intent \in Intent
    BY <1>1 DEF RowsOK, Rows, Attempt
  <2>5. "fallback" \in Reason
    BY DEF Reason
  <2>6. QED
    BY <1>1, <2>2, <2>3, <2>4, <2>5, ScheduleOK
<1>4. QED
  BY <1>2, <1>3

LEMMA OutcomesTyped ==
  /\ acceptedOutcome \in Outcome /\ Credible(acceptedOutcome) /\ ~acceptedOutcome.notInvoked
  /\ notInvokedOutcome \in Outcome /\ Credible(notInvokedOutcome)
  /\ \A outcome \in {uncertainOutcome, rejectedOutcome(TRUE), rejectedOutcome(FALSE)} :
       outcome \in Outcome /\ Credible(outcome) /\ ~outcome.notInvoked
  /\ \A status \in CallbackStatus :
       /\ callbackOutcome(status) \in Outcome /\ Credible(callbackOutcome(status))
       /\ ~callbackOutcome(status).notInvoked
BY DEF acceptedOutcome, uncertainOutcome, notInvokedOutcome, rejectedOutcome,
       callbackOutcome, CallbackStatus, Outcome, Acceptance, Credible

LEMMA PreparedOK ==
  ASSUME NEW H, NEW n, RowsOK(db, H, n), NEW position \in Position
  PROVE  RowsOK(prepared(position), H, n)
BY DEF RowsOK, Rows, Operation, prepared

LEMMA AttachedCodeOK ==
  ASSUME NEW s, NEW H, NEW n, RowsOK(s, H, n)
  PROVE  RowsOK(attachedCode(s), H, n)
BY DEF RowsOK, Rows, Operation, attachedCode

LEMMA SupersedeOK ==
  ASSUME NEW s, NEW H, NEW n, RowsOK(s, H, n)
  PROVE  RowsOK(supersede(s), H, n)
<1> DEFINE after == suppressPendingAttempts(s.attempts, Reason)
<1>1. /\ after \in [AttemptId -> Attempt]
      /\ \A a \in AttemptId : AttemptOK(after[a], n[a], a \in H)
  BY SuppressPendingOK DEF RowsOK, Rows
<1>2. [s.op EXCEPT !.routing_revision = s.op.routing_revision + 1,
                   !.automatic_stopped = FALSE] \in Operation
  <2>1. s.op \in Operation
    BY DEF RowsOK, Rows
  <2>2. s.op.routing_revision + 1 \in Nat
    BY <2>1 DEF Operation
  <2>3. QED
    BY <2>1, <2>2 DEF Operation
<1>3. QED
  BY <1>1, <1>2 DEF RowsOK, Rows, supersede

\* The gate's own two writes, on an attempt that waits.
LEMMA SuppressedOK ==
  ASSUME NEW s, NEW H, NEW n, RowsOK(s, H, n),
         NEW a \in AttemptId, s.attempts[a].state = "pending"
  PROVE  RowsOK(suppressed(s, a), H, n)
<1> DEFINE y == [s.attempts[a] EXCEPT !.state = "suppressed", !.invocation = "not_invoked"]
<1>1. s.attempts[a] \in Attempt /\ AttemptOK(s.attempts[a], n[a], a \in H)
  BY DEF RowsOK, Rows
<1>2. y \in Attempt /\ AttemptOK(y, n[a], a \in H)
  BY <1>1 DEF Attempt, AttemptState, AttemptOK
<1>3. QED
  BY <1>2 DEF RowsOK, Rows, suppressed

LEMMA ReserveOK ==
  ASSUME NEW s, NEW H, NEW n, RowsOK(s, H, n),
         NEW a \in AttemptId, s.attempts[a].state = "pending"
  PROVE  n[a] = 0 /\ a \notin H /\ RowsOK(reserve(s, a), H \cup {a}, n)
<1> DEFINE y == [s.attempts[a] EXCEPT !.state = "dispatching", !.acceptance = "unknown",
                                      !.invocation = "committed", !.committed = TRUE]
<1>1. s.attempts[a] \in Attempt /\ AttemptOK(s.attempts[a], n[a], a \in H)
  BY DEF RowsOK, Rows
<1>2. n[a] = 0 /\ a \notin H
  BY <1>1 DEF AttemptOK
<1>3. y \in Attempt /\ AttemptOK(y, n[a], TRUE)
  BY <1>1, <1>2 DEF Attempt, AttemptState, Acceptance, AttemptOK
<1>4. reserve(s, a) \in Rows
  BY <1>3 DEF RowsOK, Rows, reserve
<1>5. ASSUME NEW b \in AttemptId
      PROVE  AttemptOK(reserve(s, a).attempts[b], n[b], b \in H \cup {a})
  <2>1. CASE b = a
    <3>1. reserve(s, a).attempts[b] = y
      BY <2>1 DEF RowsOK, Rows, reserve
    <3>2. QED
      BY <1>3, <2>1, <3>1 DEF AttemptOK
  <2>2. CASE b # a
    <3>1. reserve(s, a).attempts[b] = s.attempts[b]
      BY <2>2 DEF RowsOK, Rows, reserve
    <3>2. AttemptOK(s.attempts[b], n[b], b \in H)
      BY DEF RowsOK
    <3>3. QED
      BY <2>2, <3>1, <3>2 DEF AttemptOK
  <2>3. QED
    BY <2>1, <2>2
<1>6. QED
  BY <1>2, <1>4, <1>5 DEF RowsOK

-----------------------------------------------------------------------------
(***************************************************************************)
(* The steps keep DispatchInv.                                             *)
(***************************************************************************)

LEMMA InitDispatch == Init => DispatchInv
<1> SUFFICES ASSUME Init PROVE DispatchInv
  OBVIOUS
<1>1. Unused \in Attempt
  BY RouteAssumption DEF Unused, Attempt, Acceptance, Reason, Position, Intent
<1>2. db.op \in Operation
  BY RouteAssumption DEF Init, Operation, Position
<1>3. db \in Rows
  BY <1>1, <1>2 DEF Init, Rows
<1>4. inFlight = {}
  BY DEF Init, inFlight
<1>5. RowsOK(db, inFlight, sends)
  BY <1>3, <1>4 DEF Init, RowsOK, AttemptOK, Unused
<1>6. QED
  BY <1>3, <1>5 DEF Init, DispatchInv, TypeOK, WorkersOK, Rows, Authority

\* A step that leaves the workers alone need only account for the rows.
LEMMA RowsSuffice ==
  ASSUME DispatchInv, UNCHANGED workerVars,
         authority' \in Authority, overdue' \in BOOLEAN, RowsOK(db', inFlight, sends)
  PROVE  DispatchInv'
<1>1. inFlight' = inFlight
  BY DEF workerVars, inFlight
<1>2. sends' = sends
  BY DEF workerVars
<1>3. RowsOK(db', inFlight', sends')
  BY <1>1, <1>2
<1>4. TypeOK'
  BY DEF DispatchInv, TypeOK, workerVars, RowsOK, Rows
<1>5. WorkersOK'
  BY DEF DispatchInv, WorkersOK, workerVars
<1>6. QED
  BY <1>3, <1>4, <1>5 DEF DispatchInv

LEMMA CommandsKeep == DispatchInv /\ Commands => DispatchInv'
<1> SUFFICES ASSUME DispatchInv, Commands PROVE DispatchInv'
  OBVIOUS
<1> DEFINE OK(s) == RowsOK(s, inFlight, sends)
<1>1. OK(db) /\ OK(expired(db)) /\ capturedAuthority \in Intent
  BY ExpiredOK DEF DispatchInv, TypeOK, Authority, Intent, capturedAuthority
<1>2. UNCHANGED workerVars /\ UNCHANGED envVars
  BY DEF Commands, Prepare, Create, SubmitCode, SubmitCodeRejected, RequestSend, Close,
         Invalidate, Expire
<1>3. authority' \in Authority /\ overdue' \in BOOLEAN
  BY <1>2 DEF DispatchInv, TypeOK, envVars
<1> SUFFICES OK(db')
  BY <1>2, <1>3, RowsSuffice
<1> HIDE DEF OK
<1>4. CASE \E position \in Position : Prepare(position)
  BY <1>1, <1>4, PreparedOK DEF Prepare, OK
<1>5. ASSUME NEW position \in Position, NEW id \in AttemptId, Create(position, id)
      PROVE  OK(db')
  <2> DEFINE s == attachedCode(prepared(position))
  <2>1. OK(s)
    BY <1>1, PreparedOK, AttachedCodeOK DEF OK
  <2>2. id \in fresh(s)
    BY <1>1, <1>5 DEF Create, fresh, attachedCode, prepared, OK, RowsOK, Rows
  <2>3. "initial" \in Reason
    BY DEF Reason
  <2>4. db' = schedule(s, id, position, "initial", capturedAuthority)
    BY <1>5 DEF Create
  <2>5. QED
    BY <1>1, <2>1, <2>2, <2>3, <2>4, ScheduleOK DEF OK
<1>6. ASSUME NEW id \in AttemptId, SubmitCode(id)
      PROVE  OK(db')
  <2> DEFINE s == attachedCode(expired(db))
  <2>1. OK(s)
    BY <1>1, AttachedCodeOK DEF OK
  <2>2. id \in fresh(s)
    BY <1>1, <1>6 DEF SubmitCode, fresh, attachedCode, OK, RowsOK, Rows
  <2>3. "initial" \in Reason /\ expired(db).op.initial_position \in Position
    BY <1>1 DEF Reason, OK, RowsOK, Rows, Operation
  <2>4. db' = schedule(s, id, expired(db).op.initial_position, "initial", capturedAuthority)
    BY <1>6 DEF SubmitCode
  <2>5. QED
    BY <1>1, <2>1, <2>2, <2>3, <2>4, ScheduleOK DEF OK
<1>7. CASE SubmitCodeRejected
  BY <1>1, <1>7, AttachedCodeOK DEF SubmitCodeRejected, OK
<1>8. ASSUME NEW id \in AttemptId, NEW reason \in {"resend", "next", "select"},
             NEW ready \in SUBSET Position, RequestSend(id, reason, ready)
      PROVE  OK(db')
  <2> DEFINE s == supersede(expired(db))
  <2>1. OK(s)
    BY <1>1, SupersedeOK DEF OK
  <2>2. id \in fresh(s)
    BY <1>1, <1>8 DEF RequestSend, fresh, supersede, suppressPendingAttempts, OK, RowsOK, Rows
  <2>3. PICK position \in selectTarget(expired(db), reason, ready) :
          db' = schedule(s, id, position, reason, capturedAuthority)
    BY <1>8 DEF RequestSend
  <2>4. position \in Position
    BY DEF selectTarget, nextProvider
  <2>5. reason \in Reason
    BY DEF Reason
  <2>6. QED
    BY <1>1, <2>1, <2>2, <2>3, <2>4, <2>5, ScheduleOK DEF OK
<1>9. CASE Close
  BY <1>1, <1>9, TerminateOK DEF Close, OK
<1>10. CASE Expire
  BY <1>1, <1>10 DEF Expire
<1>11. CASE Invalidate
  BY <1>1, <1>11, TerminateOK DEF Invalidate, OK
<1>12. QED
  BY <1>4, <1>5, <1>6, <1>7, <1>8, <1>9, <1>10, <1>11 DEF Commands

LEMMA GateKeeps ==
  ASSUME DispatchInv, NEW w \in Worker, NEW job \in db.jobs, Gate(w, job)
  PROVE  DispatchInv'
<1> DEFINE OK(s) == RowsOK(s, inFlight, sends)
           a == job.attemptId
           s == expired(db)
<1>1. /\ RowsOK(db, inFlight, sends)
      /\ TypeOK
      /\ WorkersOK
      /\ job \in Job
      /\ a \in AttemptId
  BY DEF DispatchInv, TypeOK, Job
<1>2. OK(s)
  BY <1>1, ExpiredOK
<1>3. UNCHANGED envVars
  BY DEF Gate, GateDuplicate, GateSuppress, GateRefused, GateUnavailable, GateReserve,
         gateCloses
<1>4. authority' \in Authority /\ overdue' \in BOOLEAN
  BY <1>1, <1>3 DEF TypeOK, envVars
<1>5. ASSUME gateCloses, OK(db') PROVE DispatchInv'
  BY <1>4, <1>5, RowsSuffice DEF gateCloses
<1> HIDE DEF OK
<1>6. CASE GateDuplicate(w, job)
  <2>1. db' = s \/ db' = recovered(s, {a})
    BY <1>6 DEF GateDuplicate
  <2>2. OK(db')
    BY <1>2, <2>1, RecoveredOK DEF OK
  <2>3. QED
    BY <1>5, <1>6, <2>2 DEF GateDuplicate
<1>7. CASE GateSuppress(w, job) \/ GateRefused(w, job)
  <2>1. db' = suppressed(s, a) /\ s.attempts[a].state = "pending"
    BY <1>7 DEF GateSuppress, GateRefused, gateOpens
  <2>2. OK(db')
    BY <1>1, <1>2, <2>1, SuppressedOK DEF OK
  <2>3. QED
    BY <1>5, <1>7, <2>2 DEF GateSuppress, GateRefused
<1>8. CASE GateUnavailable(w, job)
  <2>1. db' \in mergeLockedOutcome(s, a, notInvokedOutcome) /\ s.attempts[a].state = "pending"
    BY <1>8 DEF GateUnavailable, gateOpens
  <2>2. sends[a] = 0 /\ a \notin inFlight
    BY <1>1, <1>2, <2>1 DEF OK, RowsOK, AttemptOK
  <2>3. OK(db')
    BY <1>1, <1>2, <2>1, <2>2, MergeOK, OutcomesTyped DEF OK
  <2>4. QED
    BY <1>5, <1>8, <2>3 DEF GateUnavailable
<1>9. CASE GateReserve(w, job)
  <2>1. /\ db' = reserve(s, a)
        /\ s.attempts[a].state = "pending"
        /\ pc[w] = "idle"
        /\ pc' = [pc EXCEPT ![w] = "reserved"]
        /\ held' = [held EXCEPT ![w] = job]
        /\ sends' = sends
    BY <1>9 DEF GateReserve, gateOpens
  <2>2. sends[a] = 0 /\ a \notin inFlight /\ RowsOK(db', inFlight \cup {a}, sends)
    BY <1>1, <1>2, <2>1, ReserveOK DEF OK
  <2>3. \A v \in Worker : v # w => pc'[v] = pc[v] /\ held'[v] = held[v]
    BY <1>1, <2>1 DEF TypeOK
  <2>4. pc'[w] = "reserved" /\ held'[w] = job
    BY <1>1, <2>1 DEF TypeOK
  <2>5. inFlight' = inFlight \cup {a}
    BY <2>1, <2>3, <2>4 DEF inFlight
  <2>6. WorkersOK'
    <3>1. \A v \in Worker : pc[v] # "idle" => held[v].attemptId # a
      BY <2>2 DEF inFlight
    <3>2. QED
      BY <1>1, <2>1, <2>2, <2>3, <2>4, <3>1 DEF WorkersOK
  <2>7. TypeOK'
    BY <1>1, <1>4, <2>1, <2>2 DEF TypeOK, RowsOK, Rows
  <2>8. QED
    BY <2>1, <2>2, <2>5, <2>6, <2>7 DEF DispatchInv
<1>10. QED
  BY <1>6, <1>7, <1>8, <1>9 DEF Gate

\* A worker that stops dispatching only gives up its place in flight.
LEMMA FinishKeeps ==
  ASSUME DispatchInv, NEW w \in Worker, pc[w] # "idle", Finish(w),
         RowsOK(db', inFlight \ {held[w].attemptId}, sends)
  PROVE  DispatchInv'
<1>1. TypeOK /\ WorkersOK
  BY DEF DispatchInv
<1>2. /\ pc' = [pc EXCEPT ![w] = "idle"]
      /\ held' = [held EXCEPT ![w] = NoJob]
      /\ sends' = sends /\ authority' = authority /\ overdue' = overdue
  BY DEF Finish, envVars
<1>3. \A v \in Worker : v # w => pc'[v] = pc[v] /\ held'[v] = held[v]
  BY <1>1, <1>2 DEF TypeOK
<1>4. pc'[w] = "idle"
  BY <1>1, <1>2 DEF TypeOK
<1>5. inFlight' = inFlight \ {held[w].attemptId}
  BY <1>1, <1>3, <1>4 DEF inFlight, WorkersOK
<1>6. WorkersOK'
  BY <1>1, <1>2, <1>3, <1>4 DEF WorkersOK
<1>7. TypeOK'
  BY <1>1, <1>2 DEF TypeOK, RowsOK, Rows
<1>8. QED
  BY <1>2, <1>5, <1>6, <1>7 DEF DispatchInv

LEMMA RowsWeaken ==
  ASSUME NEW s, NEW H, NEW n, RowsOK(s, H, n), NEW G \in SUBSET H
  PROVE  RowsOK(s, G, n)
BY DEF RowsOK, AttemptOK

LEMMA DispatchKeeps ==
  ASSUME DispatchInv, NEW w \in Worker, Dispatch(w)
  PROVE  DispatchInv'
<1> DEFINE a == held[w].attemptId
           H == inFlight \ {a}
           s == expired(db)
<1>1. TypeOK /\ WorkersOK /\ RowsOK(db, inFlight, sends)
  BY DEF DispatchInv
<1>2. pc[w] # "idle"
  BY DEF Dispatch, SkipSend, Send, SendFailed, SendAccepted, Crash
<1>3. held[w] \in Job /\ a \in AttemptId /\ a \in inFlight
  BY <1>1, <1>2 DEF WorkersOK, Job, inFlight
<1>4. RowsOK(db, H, sends) /\ RowsOK(s, H, sends)
  BY <1>1, RowsWeaken, ExpiredOK
<1>5. CASE SkipSend(w)
  <2>1. sends[a] = 0 /\ a \notin H
    BY <1>1, <1>5 DEF SkipSend, WorkersOK
  <2>2. db' \in mergeLockedOutcome(s, a, notInvokedOutcome)
    BY <1>5 DEF SkipSend, recordOutcome
  <2>3. RowsOK(db', H, sends)
    BY <1>3, <1>4, <2>1, <2>2, MergeOK, OutcomesTyped
  <2>4. QED
    BY <1>2, <1>5, <2>3, FinishKeeps DEF SkipSend
<1>6. CASE Send(w)
  <2>1. /\ pc[w] = "reserved"
        /\ pc' = [pc EXCEPT ![w] = "invoking"]
        /\ sends' = [sends EXCEPT ![a] = sends[a] + 1]
        /\ db' = db /\ held' = held /\ authority' = authority /\ overdue' = overdue
    BY <1>6 DEF Send, envVars
  <2>2. sends[a] = 0
    BY <1>1, <2>1 DEF WorkersOK
  <2>3. sends' = [sends EXCEPT ![a] = 1]
    BY <2>1, <2>2
  <2>4. TypeOK'
    BY <1>1, <1>3, <2>1, <2>3 DEF TypeOK
  <2>5. \A v \in Worker : (pc'[v] # "idle") = (pc[v] # "idle")
    BY <1>1, <2>1 DEF TypeOK
  <2>6. inFlight' = inFlight
    BY <2>1, <2>5 DEF inFlight
  <2>7. \A v \in Worker : v # w /\ pc[v] # "idle" => held[v].attemptId # a
    BY <1>1, <1>2 DEF WorkersOK
  <2>8. WorkersOK'
    <3>1. ASSUME NEW v \in Worker, pc'[v] # "idle"
          PROVE  held'[v] \in Job /\ (pc'[v] = "reserved" => sends'[held'[v].attemptId] = 0)
      <4>1. CASE v = w
        BY <1>1, <1>3, <2>1, <4>1 DEF TypeOK
      <4>2. CASE v # w
        <5>1. pc'[v] = pc[v] /\ held'[v] = held[v]
          BY <1>1, <2>1, <4>2 DEF TypeOK
        <5>2. held[v] \in Job /\ held[v].attemptId # a /\ held[v].attemptId \in AttemptId
          BY <1>1, <2>7, <3>1, <4>2, <5>1 DEF WorkersOK, Job
        <5>3. sends'[held[v].attemptId] = sends[held[v].attemptId]
          BY <1>1, <2>3, <5>2 DEF TypeOK
        <5>4. QED
          BY <1>1, <3>1, <5>1, <5>2, <5>3 DEF WorkersOK
      <4>3. QED
        BY <4>1, <4>2
    <3>2. QED
      BY <1>1, <2>1, <2>5, <3>1 DEF WorkersOK
  <2>9. RowsOK(db, inFlight, sends')
    <3>1. ASSUME NEW b \in AttemptId PROVE AttemptOK(db.attempts[b], sends'[b], b \in inFlight)
      <4>1. AttemptOK(db.attempts[b], sends[b], b \in inFlight)
        BY <1>1 DEF RowsOK
      <4>2. CASE b # a
        BY <1>1, <2>3, <4>1, <4>2 DEF TypeOK
      <4>3. CASE b = a
        <5>1. sends'[b] = 1
          BY <1>1, <1>3, <2>3, <4>3 DEF TypeOK
        <5>2. db.attempts[b] \in Attempt
          BY <1>1 DEF RowsOK, Rows
        <5>3. QED
          BY <1>3, <4>1, <4>3, <5>1, <5>2 DEF AttemptOK, Attempt
      <4>4. QED
        BY <4>2, <4>3
    <3>2. QED
      BY <1>1, <3>1 DEF RowsOK
  <2>10. QED
    BY <2>1, <2>4, <2>6, <2>8, <2>9 DEF DispatchInv
<1>7. ASSUME NEW outcome \in Outcome, SendFailed(w, outcome)
      PROVE  DispatchInv'
  <2>1. Credible(outcome) /\ ~outcome.notInvoked
    BY <1>7, OutcomesTyped DEF SendFailed
  <2>2. db' \in mergeLockedOutcome(s, a, outcome)
    BY <1>7 DEF SendFailed, recordOutcome
  <2>3. RowsOK(db', H, sends)
    BY <1>3, <1>4, <2>1, <2>2, MergeOK
  <2>4. QED
    BY <1>2, <1>7, <2>3, FinishKeeps DEF SendFailed
<1>8. CASE SendAccepted(w)
  <2>1. PICK t \in mergeLockedOutcome(s, a, acceptedOutcome) :
          \/ db' = t
          \/ \E status \in CallbackStatus :
               db' \in mergeLockedOutcome(t, a, callbackOutcome(status))
    BY <1>8 DEF SendAccepted
  <2>2. RowsOK(t, H, sends)
    BY <1>3, <1>4, MergeOK, OutcomesTyped
  <2>3. RowsOK(db', H, sends)
    BY <1>3, <2>1, <2>2, MergeOK, OutcomesTyped
  <2>4. QED
    BY <1>2, <1>8, <2>3, FinishKeeps DEF SendAccepted
<1>9. CASE Crash(w)
  BY <1>2, <1>4, <1>9, FinishKeeps DEF Crash
<1>10. QED
  BY <1>5, <1>6, <1>7, <1>8, <1>9 DEF Dispatch

LEMMA BackgroundKeeps == DispatchInv /\ Background => DispatchInv'
<1> SUFFICES ASSUME DispatchInv, Background PROVE DispatchInv'
  OBVIOUS
<1>1. TypeOK /\ RowsOK(db, inFlight, sends) /\ RowsOK(expired(db), inFlight, sends)
  BY ExpiredOK DEF DispatchInv
<1>2. UNCHANGED workerVars
  BY DEF Background, Callback, recoverDispatches, PassDeadline, WithdrawProject,
         RestoreProject, WithdrawPolicy, RestorePolicy, workerVars
<1>3. authority' \in Authority /\ overdue' \in BOOLEAN
  <2>1. authority \in Authority /\ authority.projectEpoch + 1 \in Nat
        /\ authority.policyEpoch + 1 \in Nat /\ overdue \in BOOLEAN
    BY <1>1 DEF TypeOK, Authority
  <2>2. CASE WithdrawProject \/ RestoreProject \/ WithdrawPolicy \/ RestorePolicy
    BY <2>1, <2>2 DEF WithdrawProject, RestoreProject, WithdrawPolicy, RestorePolicy, Authority
  <2>3. CASE ~(WithdrawProject \/ RestoreProject \/ WithdrawPolicy \/ RestorePolicy)
    BY <2>1, <2>3 DEF Background, Callback, recoverDispatches, PassDeadline, envVars
  <2>4. QED
    BY <2>2, <2>3
<1>4. RowsOK(db', inFlight, sends)
  <2>1. ASSUME NEW a \in AttemptId, NEW status \in CallbackStatus, Callback(a, status)
        PROVE  RowsOK(db', inFlight, sends)
    <3>1. db' \in mergeLockedOutcome(expired(db), a, callbackOutcome(status))
      BY <2>1 DEF Callback, recordOutcome
    <3>2. QED
      BY <1>1, <3>1, MergeOK, OutcomesTyped
  <2>2. ASSUME NEW S, recoverDispatches(S)
        PROVE  RowsOK(db', inFlight, sends)
    BY <1>1, <2>2, RecoveredOK DEF recoverDispatches
  <2>3. CASE PassDeadline \/ WithdrawProject \/ RestoreProject \/ WithdrawPolicy
             \/ RestorePolicy
    <3>1. db' = db
      BY <2>3 DEF PassDeadline, WithdrawProject, RestoreProject, WithdrawPolicy, RestorePolicy
    <3>2. QED
      BY <1>1, <3>1
  <2>4. QED
    BY <2>1, <2>2, <2>3 DEF Background
<1>5. QED
  BY <1>2, <1>3, <1>4, RowsSuffice

LEMMA DispatchInvariant == Spec => []DispatchInv
<1>1. DispatchInv /\ [Next]_vars => DispatchInv'
  <2> SUFFICES ASSUME DispatchInv, [Next]_vars PROVE DispatchInv'
    OBVIOUS
  <2>1. CASE UNCHANGED vars
    <3>1. inFlight' = inFlight
      BY <2>1 DEF vars, inFlight
    <3>2. QED
      BY <2>1, <3>1 DEF vars, DispatchInv, TypeOK, WorkersOK, RowsOK, Rows
  <2>2. CASE Next
    BY <2>2, CommandsKeep, GateKeeps, DispatchKeeps, BackgroundKeeps DEF Next
  <2>3. QED
    BY <2>1, <2>2
<1>2. QED
  BY InitDispatch, <1>1, PTL DEF Spec

-----------------------------------------------------------------------------
(***************************************************************************)
(* The theorems.                                                           *)
(***************************************************************************)

\* Every reachable state is well typed: no transaction of the delivery writes a row
\* outside the schema, at any position of any route.
THEOREM TypeCorrect == Spec => []TypeOK
BY DispatchInvariant, PTL DEF DispatchInv

\* However often its job is delivered and whoever crashes, an attempt's provider is
\* called at most once (dispatch.ts).
THEOREM SendsAtMostOnce == Spec => []AtMostOneSend
<1>1. DispatchInv => AtMostOneSend
  BY DEF DispatchInv, RowsOK, AttemptOK, AtMostOneSend
<1>2. QED
  BY DispatchInvariant, <1>1, PTL

\* An attempt recorded as not invoked never was, and no worker is still to send it.
THEOREM NoninvocationHolds == Spec => []NoninvocationIsTrue
<1>1. DispatchInv => NoninvocationIsTrue
  BY DEF DispatchInv, RowsOK, AttemptOK, NoninvocationIsTrue, inFlight
<1>2. QED
  BY DispatchInvariant, <1>1, PTL

\* The CHECK constraints of delivery_attempts hold of every row ever committed.
THEOREM ConstraintsHold == Spec => []RowConstraints
<1>1. DispatchInv => RowConstraints
  <2> SUFFICES ASSUME DispatchInv, NEW a \in AttemptId
               PROVE  LET row == db.attempts[a] IN
                      /\ row.invocation = "committed" => row.committed
                      /\ row.invocation = "not_started" => ~row.committed
                      /\ row.state = "dispatching" => row.invocation = "committed"
                      /\ row.state \in {"accepted", "delivered"} => row.acceptance = "accepted"
    BY DEF RowConstraints
  <2>1. db.attempts[a] \in Attempt /\ AttemptOK(db.attempts[a], sends[a], a \in inFlight)
    BY DEF DispatchInv, RowsOK, Rows
  <2>2. QED
    BY <2>1 DEF AttemptOK, Attempt
<1>2. QED
  BY DispatchInvariant, <1>1, PTL

-----------------------------------------------------------------------------
(***************************************************************************)
(* Routing.  Aged is what a transaction may do to an attempt that exists:  *)
(* it keeps its place on the route and its reservation, waiting work is    *)
(* not created, and a failure or a delivery is never taken back.  Routes   *)
(* is the shape of the route that every transaction leaves behind.         *)
(***************************************************************************)
Aged(f, g) ==
  \A a \in AttemptId :
    /\ (g[a].state = "unused") = (f[a].state = "unused")
    /\ g[a].routing_revision = f[a].routing_revision
    /\ g[a].route_position = f[a].route_position
    /\ g[a].reason = f[a].reason
    /\ g[a].intent = f[a].intent
    /\ g[a].committed = f[a].committed
    /\ g[a].invocation \in {f[a].invocation, "not_invoked"}
    /\ g[a].state = "pending" => f[a].state = "pending"
    /\ f[a].state = "delivered" => g[a].state = "delivered"
    /\ f[a].state = "failed" => g[a].state \in {"failed", "delivered"}

present(s, a) == s.attempts[a].state # "unused"
together(s, a, b) ==
  /\ present(s, a) /\ present(s, b)
  /\ s.attempts[a].routing_revision = s.attempts[b].routing_revision

\* No row belongs to a revision to come, and there is none before code is attached.
Started(s) ==
  /\ \A a \in AttemptId : present(s, a) =>
       s.attempts[a].routing_revision <= s.op.routing_revision
  /\ s.op.state \in {"absent", "prepared"} =>
       ~s.op.recipient_invalid /\ \A a \in AttemptId : ~present(s, a)

Waiting(s) ==
  \A a \in AttemptId : s.attempts[a].state = "pending" =>
    /\ s.op.state = "active"
    /\ s.op.current_attempt_id = a
    /\ s.op.routing_revision = s.attempts[a].routing_revision
    /\ ~s.op.recipient_invalid

\* The current attempt is the furthest of the current revision.
Front(s) ==
  \A a \in AttemptId :
    present(s, a) /\ s.attempts[a].routing_revision = s.op.routing_revision =>
      LET current == s.op.current_attempt_id IN
      /\ current \in AttemptId
      /\ together(s, a, current)
      /\ a # current => s.attempts[a].route_position < s.attempts[current].route_position

\* Two attempts of one revision are steps of one route, the later one a fallback.
Ordered(s) ==
  \A a, b \in AttemptId : a # b /\ together(s, a, b) =>
    /\ s.attempts[a].route_position # s.attempts[b].route_position
    /\ a = s.op.current_attempt_id => s.attempts[b].route_position < s.attempts[a].route_position
    /\ s.attempts[b].route_position < s.attempts[a].route_position =>
         /\ s.attempts[a].reason = "fallback"
         /\ s.attempts[b].state \in {"failed", "delivered"}

Stopped(s) ==
  \A a \in AttemptId :
    s.attempts[a].state = "delivered" /\ s.attempts[a].routing_revision = s.op.routing_revision
      => s.op.automatic_stopped

Budget(s) == IsFiniteSet(committed(s)) /\ Cardinality(committed(s)) <= MaxSends

Routes(s) ==
  /\ s \in Rows
  /\ Started(s) /\ Waiting(s) /\ Front(s) /\ Ordered(s) /\ Stopped(s) /\ Budget(s)

\* Recording evidence or recovering work leaves the operation's place on the route alone.
LEMMA AgedRoutes ==
  ASSUME NEW s, Routes(s), NEW t \in Rows, Aged(s.attempts, t.attempts),
         t.op.state = s.op.state, t.op.routing_revision = s.op.routing_revision,
         t.op.current_attempt_id = s.op.current_attempt_id,
         s.op.automatic_stopped => t.op.automatic_stopped,
         t.op.recipient_invalid =>
           \/ s.op.recipient_invalid
           \/ /\ \E a \in AttemptId : present(s, a)
              /\ \A a \in AttemptId : t.attempts[a].state # "pending",
         \A a \in AttemptId :
           t.attempts[a].state = "delivered" /\ s.attempts[a].state # "delivered"
             => t.op.automatic_stopped
  PROVE  Routes(t)
<1>1. \A a \in AttemptId : present(t, a) = present(s, a)
  BY DEF Aged, present
<1>2. Started(t)
  BY <1>1 DEF Routes, Started, Aged
<1>3. Waiting(t)
  BY DEF Routes, Waiting, Aged
<1>4. Front(t)
  BY <1>1 DEF Routes, Front, Aged, together
<1>5. Ordered(t)
  BY <1>1 DEF Routes, Ordered, Aged, together
<1>6. Stopped(t)
  BY DEF Routes, Stopped, Aged
<1>7. committed(t) = committed(s)
  BY DEF Aged, committed
<1>8. QED
  BY <1>2, <1>3, <1>4, <1>5, <1>6, <1>7 DEF Routes, Budget

\* A finished or superseded revision leaves nothing waiting.
LEMMA NextRevision ==
  ASSUME NEW s, Routes(s), NEW t \in Rows, Aged(s.attempts, t.attempts),
         t.op.routing_revision = s.op.routing_revision + 1,
         t.op.state \notin {"absent", "prepared"},
         t.op.current_attempt_id = s.op.current_attempt_id,
         \A a \in AttemptId : t.attempts[a].state # "pending"
  PROVE  /\ Routes(t)
         /\ \A a \in AttemptId :
              present(t, a) => t.attempts[a].routing_revision < t.op.routing_revision
<1>1. \A a \in AttemptId : present(t, a) = present(s, a)
  BY DEF Aged, present
<1>2. /\ s.op.routing_revision \in Nat
      /\ \A a \in AttemptId : s.attempts[a].routing_revision \in Nat
  BY DEF Routes, Rows, Operation, Attempt
<1>3. \A a \in AttemptId :
        present(t, a) => t.attempts[a].routing_revision < t.op.routing_revision
  BY <1>1, <1>2 DEF Routes, Started, Aged
<1>4. Started(t)
  BY <1>2, <1>3 DEF Started, Aged
<1>5. Waiting(t)
  BY DEF Waiting
<1>6. Front(t)
  BY <1>2, <1>3 DEF Front, Aged
<1>7. Ordered(t)
  BY <1>1 DEF Routes, Ordered, Aged, together
<1>8. Stopped(t)
  <2>1. \A a \in AttemptId : t.attempts[a].state = "delivered" => present(t, a)
    BY DEF present
  <2>2. QED
    BY <1>2, <1>3, <2>1 DEF Stopped, Aged
<1>9. committed(t) = committed(s)
  BY DEF Aged, committed
<1>10. QED
  BY <1>3, <1>4, <1>5, <1>6, <1>7, <1>8, <1>9 DEF Routes, Budget

LEMMA SuppressAges ==
  ASSUME NEW f \in [AttemptId -> Attempt], NEW reasons
  PROVE  LET g == suppressPendingAttempts(f, reasons) IN
         /\ Aged(f, g)
         /\ reasons = Reason => \A a \in AttemptId : g[a].state # "pending"
         /\ \A a \in AttemptId : g[a].state = "delivered" => f[a].state = "delivered"
<1> DEFINE g == suppressPendingAttempts(f, reasons)
<1> SUFFICES ASSUME NEW a \in AttemptId
             PROVE  /\ Aged(f, g)!(a)
                    /\ reasons = Reason => g[a].state # "pending"
                    /\ g[a].state = "delivered" => f[a].state = "delivered"
  BY DEF Aged
<1>1. f[a] \in Attempt
  OBVIOUS
<1>2. CASE f[a].state = "pending" /\ f[a].reason \in reasons
  <2>1. g[a] = [f[a] EXCEPT !.state = "suppressed", !.invocation = "not_invoked"]
    BY <1>2 DEF suppressPendingAttempts
  <2>2. QED
    BY <1>1, <1>2, <2>1 DEF Attempt
<1>3. CASE ~(f[a].state = "pending" /\ f[a].reason \in reasons)
  <2>1. g[a] = f[a]
    BY <1>3 DEF suppressPendingAttempts
  <2>2. QED
    BY <1>1, <1>3, <2>1 DEF Attempt
<1>4. QED
  BY <1>2, <1>3

LEMMA AgedTransitive ==
  ASSUME NEW f, NEW g, NEW h, Aged(f, g), Aged(g, h)
  PROVE  Aged(f, h)
BY DEF Aged

LEMMA TerminateRoutes ==
  ASSUME NEW s, Routes(s), NEW state \in {"closed", "expired"}, terminate(s, state) \in Rows
  PROVE  Routes(terminate(s, state)) /\ Aged(s.attempts, terminate(s, state).attempts)
<1> DEFINE t == terminate(s, state)
<1>1. /\ t.attempts = suppressPendingAttempts(s.attempts, Reason)
      /\ t.op.routing_revision = s.op.routing_revision + 1
      /\ t.op.state = state
      /\ t.op.current_attempt_id = s.op.current_attempt_id
  BY DEF terminate, Routes, Rows, Operation
<1>2. Aged(s.attempts, t.attempts) /\ \A a \in AttemptId : t.attempts[a].state # "pending"
  BY <1>1, SuppressAges DEF Routes, Rows
<1>3. QED
  BY <1>1, <1>2, NextRevision

LEMMA SupersedeRoutes ==
  ASSUME NEW s, Routes(s), supersede(s) \in Rows, s.op.state = "active"
  PROVE  /\ Routes(supersede(s)) /\ Aged(s.attempts, supersede(s).attempts)
         /\ supersede(s).op.state = "active"
         /\ supersede(s).op.recipient_invalid = s.op.recipient_invalid
         /\ \A a \in AttemptId : supersede(s).attempts[a].state # "pending"
         /\ \A a \in AttemptId :
              present(supersede(s), a) =>
                supersede(s).attempts[a].routing_revision < supersede(s).op.routing_revision
<1> DEFINE t == supersede(s)
<1>1. /\ t.attempts = suppressPendingAttempts(s.attempts, Reason)
      /\ t.op.routing_revision = s.op.routing_revision + 1
      /\ t.op.state = s.op.state
      /\ t.op.current_attempt_id = s.op.current_attempt_id
      /\ t.op.recipient_invalid = s.op.recipient_invalid
  BY DEF supersede, Routes, Rows, Operation
<1>2. Aged(s.attempts, t.attempts) /\ \A a \in AttemptId : t.attempts[a].state # "pending"
  BY <1>1, SuppressAges DEF Routes, Rows
<1>3. QED
  BY <1>1, <1>2, NextRevision

\* A new attempt is the current one and the furthest: the first of its revision, or
\* the fallback of the current attempt, which has failed.
LEMMA ScheduleRoutes ==
  ASSUME NEW s, Routes(s), NEW id \in fresh(s), NEW position \in Position,
         NEW reason \in Reason, NEW intent,
         schedule(s, id, position, reason, intent) \in Rows,
         ~s.attempts[id].committed,
         s.op.state = "active", ~s.op.recipient_invalid,
         \A a \in AttemptId : s.attempts[a].state # "pending",
         \/ \A a \in AttemptId :
              present(s, a) => s.attempts[a].routing_revision # s.op.routing_revision
         \/ /\ reason = "fallback"
            /\ LET current == s.op.current_attempt_id IN
               /\ current \in AttemptId
               /\ s.attempts[current].routing_revision = s.op.routing_revision
               /\ s.attempts[current].state = "failed"
               /\ s.attempts[current].route_position < position
  PROVE  Routes(schedule(s, id, position, reason, intent))
<1> DEFINE t == schedule(s, id, position, reason, intent)
           current == s.op.current_attempt_id
           r == s.op.routing_revision
<1>1. /\ s \in Rows /\ id \in AttemptId /\ s.attempts[id].state = "unused"
      /\ r \in Nat
      /\ \A a \in AttemptId : /\ s.attempts[a].routing_revision \in Nat
                              /\ s.attempts[a].route_position \in Nat
  BY DEF Routes, Rows, Operation, Attempt, fresh, Position
<1>2. /\ t.attempts[id].state = "pending" /\ t.attempts[id].routing_revision = r
      /\ t.attempts[id].route_position = position /\ t.attempts[id].reason = reason
      /\ ~t.attempts[id].committed
      /\ \A a \in AttemptId : a # id => t.attempts[a] = s.attempts[a]
  BY <1>1 DEF schedule, Rows
<1>3. /\ t.op.state = "active" /\ ~t.op.recipient_invalid
      /\ t.op.routing_revision = r
      /\ t.op.current_attempt_id = id
      /\ t.op.automatic_stopped = s.op.automatic_stopped
  BY <1>1 DEF schedule, Rows, Operation
<1>4. \A a \in AttemptId : present(s, a) => a # id /\ present(t, a)
  BY <1>1, <1>2 DEF present
<1>5. \A a \in AttemptId : present(t, a) /\ a # id => present(s, a)
  BY <1>2 DEF present
<1>6. \A a \in AttemptId : present(s, a) /\ s.attempts[a].routing_revision = r =>
        /\ s.attempts[a].route_position < position
        /\ reason = "fallback" /\ s.attempts[a].state \in {"failed", "delivered"}
  <2> SUFFICES ASSUME NEW a \in AttemptId, present(s, a), s.attempts[a].routing_revision = r
               PROVE  /\ s.attempts[a].route_position < position
                      /\ reason = "fallback" /\ s.attempts[a].state \in {"failed", "delivered"}
    OBVIOUS
  <2>1. /\ reason = "fallback" /\ current \in AttemptId
        /\ s.attempts[current].state = "failed"
        /\ s.attempts[current].route_position < position
    OBVIOUS
  <2>2. CASE a = current
    BY <2>1, <2>2
  <2>3. CASE a # current
    <3>1. together(s, a, current) /\ s.attempts[a].route_position < s.attempts[current].route_position
      BY <2>3 DEF Routes, Front
    <3>2. s.attempts[a].state \in {"failed", "delivered"}
      BY <2>1, <2>3, <3>1 DEF Routes, Ordered, together
    <3>3. position \in Nat
      BY DEF Position
    <3>4. QED
      BY <1>1, <2>1, <3>1, <3>2, <3>3
  <2>4. QED
    BY <2>2, <2>3
<1>7. Started(t)
  BY <1>1, <1>2, <1>3, <1>5 DEF Routes, Started
<1>8. Waiting(t)
  BY <1>2, <1>3 DEF Waiting
<1>9. Front(t)
  <2> SUFFICES ASSUME NEW a \in AttemptId, present(t, a), t.attempts[a].routing_revision = r
               PROVE  together(t, a, id) /\ (a # id => t.attempts[a].route_position < t.attempts[id].route_position)
    BY <1>1, <1>3 DEF Front
  <2>1. CASE a = id
    BY <1>2, <2>1 DEF together, present
  <2>2. CASE a # id
    BY <1>2, <1>5, <1>6, <2>2 DEF together, present
  <2>3. QED
    BY <2>1, <2>2
<1>10. Ordered(t)
  <2> SUFFICES ASSUME NEW a \in AttemptId, NEW b \in AttemptId, a # b, together(t, a, b)
               PROVE  /\ t.attempts[a].route_position # t.attempts[b].route_position
                      /\ a = id => t.attempts[b].route_position < t.attempts[a].route_position
                      /\ t.attempts[b].route_position < t.attempts[a].route_position =>
                           /\ t.attempts[a].reason = "fallback"
                           /\ t.attempts[b].state \in {"failed", "delivered"}
    BY <1>3 DEF Ordered
  <2>1. position \in Nat
    BY DEF Position
  <2>2. CASE a = id
    <3>1. present(s, b) /\ s.attempts[b].routing_revision = r /\ t.attempts[b] = s.attempts[b]
      BY <1>2, <1>5, <2>2 DEF together
    <3>2. QED
      BY <1>1, <1>2, <1>6, <2>1, <2>2, <3>1
  <2>3. CASE b = id
    <3>1. present(s, a) /\ s.attempts[a].routing_revision = r /\ t.attempts[a] = s.attempts[a]
      BY <1>2, <1>5, <2>3 DEF together
    <3>2. s.attempts[a].route_position < position
      BY <1>6, <3>1
    <3>3. QED
      BY <1>1, <1>2, <2>1, <2>3, <3>1, <3>2
  <2>4. CASE a # id /\ b # id
    <3>1. together(s, a, b) /\ t.attempts[a] = s.attempts[a] /\ t.attempts[b] = s.attempts[b]
      BY <1>2, <1>5, <2>4 DEF together
    <3>2. QED
      BY <2>4, <3>1 DEF Routes, Ordered
  <2>5. QED
    BY <2>2, <2>3, <2>4
<1>11. Stopped(t)
  BY <1>2, <1>3 DEF Routes, Stopped
<1>12. committed(t) = committed(s)
  BY <1>1, <1>2 DEF committed
<1>13. QED
  BY <1>7, <1>8, <1>9, <1>10, <1>11, <1>12 DEF Routes, Budget

\* Reading s after a lock is reading it after logical expiry, and what is still live
\* then is what was there, before its deadline.
LEMMA ExpiredCases ==
  ASSUME NEW s
  PROVE  \/ expired(s) = s /\ (Live(s.op) => ~overdue)
         \/ Live(s.op) /\ overdue /\ expired(s) = terminate(s, "expired")
BY DEF expired

(***************************************************************************)
(* What a transaction does to the operation as a whole.  A quiet one       *)
(* schedules nothing; evidence is quiet or starts one fallback.            *)
(***************************************************************************)
Quiet(s, t) ==
  /\ Aged(s.attempts, t.attempts)
  /\ s.op.recipient_invalid => t.op.recipient_invalid
  /\ \/ t.op.state = s.op.state
     \/ Live(s.op) /\ t.op.state \in {"closed", "expired"}
  /\ t.op.state = "active" =>
       /\ t.op.routing_revision = s.op.routing_revision
       /\ s.op.automatic_stopped => t.op.automatic_stopped

Fallback(s, t) ==
  \E r \in Rows : \E id \in fresh(r), position \in Position, intent \in Intent :
    /\ Quiet(s, r)
    /\ r.op.state = "active" /\ ~r.op.automatic_stopped /\ ~r.op.recipient_invalid
    /\ t = schedule(r, id, position, "fallback", intent)

Evidence(s, t) == Quiet(s, t) \/ Fallback(s, t)

LEMMA QuietTransitive ==
  ASSUME NEW s, NEW r, NEW t, Quiet(s, r), Quiet(r, t)
  PROVE  Quiet(s, t)
<1>1. Aged(s.attempts, t.attempts)
  BY AgedTransitive DEF Quiet
<1>2. QED
  BY <1>1 DEF Quiet, Live

LEMMA EvidenceAfter ==
  ASSUME NEW s, NEW r, NEW t, Quiet(s, r), Evidence(r, t)
  PROVE  Evidence(s, t)
<1>1. CASE Quiet(r, t)
  BY <1>1, QuietTransitive DEF Evidence
<1>2. CASE Fallback(r, t)
  <2>1. PICK q \in Rows : \E id \in fresh(q), position \in Position, intent \in Intent :
          /\ Quiet(r, q)
          /\ q.op.state = "active" /\ ~q.op.automatic_stopped /\ ~q.op.recipient_invalid
          /\ t = schedule(q, id, position, "fallback", intent)
    BY <1>2 DEF Fallback
  <2>2. Quiet(s, q)
    BY <2>1, QuietTransitive
  <2>3. QED
    BY <2>1, <2>2 DEF Evidence, Fallback
<1>3. QED
  BY <1>1, <1>2 DEF Evidence

LEMMA TerminateQuiet ==
  ASSUME NEW s, Routes(s), Live(s.op), NEW state \in {"closed", "expired"},
         terminate(s, state) \in Rows
  PROVE  Quiet(s, terminate(s, state)) /\ Routes(terminate(s, state))
<1>1. /\ terminate(s, state).op.state = state
      /\ terminate(s, state).op.recipient_invalid = s.op.recipient_invalid
  BY DEF terminate, Routes, Rows, Operation
<1>2. QED
  BY <1>1, TerminateRoutes DEF Quiet

LEMMA AgedItself ==
  ASSUME NEW f
  PROVE  Aged(f, f)
BY DEF Aged

LEMMA ExpiredQuiet ==
  ASSUME NEW s, Routes(s), expired(s) \in Rows
  PROVE  Quiet(s, expired(s)) /\ Routes(expired(s))
<1>1. CASE expired(s) = s
  BY <1>1, AgedItself DEF Quiet
<1>2. CASE Live(s.op) /\ expired(s) = terminate(s, "expired")
  BY <1>2, TerminateQuiet
<1>3. QED
  BY <1>1, <1>2, ExpiredCases

LEMMA RecoveredQuiet ==
  ASSUME NEW s, Routes(s), NEW S, recovered(s, S) \in Rows
  PROVE  Quiet(s, recovered(s, S)) /\ Routes(recovered(s, S))
<1> DEFINE t == recovered(s, S)
<1>1. t.op = s.op
  BY DEF recovered, Routes, Rows
<1>2. ASSUME NEW a \in AttemptId
      PROVE  /\ Aged(s.attempts, t.attempts)!(a)
             /\ t.attempts[a].state = "delivered" => s.attempts[a].state = "delivered"
  <2>1. s.attempts[a] \in Attempt
    BY DEF Routes, Rows
  <2>2. t.attempts[a] =
          IF a \in S /\ s.attempts[a].state = "dispatching"
          THEN [s.attempts[a] EXCEPT !.state = "uncertain", !.acceptance = "unknown"]
          ELSE s.attempts[a]
    BY DEF recovered, Routes, Rows
  <2>3. QED
    BY <2>1, <2>2 DEF Attempt
<1>3. Aged(s.attempts, t.attempts)
  BY <1>2 DEF Aged
<1>4. QED
  BY <1>1, <1>2, <1>3, AgedRoutes DEF Quiet

LEMMA SuppressedQuiet ==
  ASSUME NEW s, Routes(s), NEW a \in AttemptId, s.attempts[a].state = "pending",
         suppressed(s, a) \in Rows
  PROVE  Quiet(s, suppressed(s, a)) /\ Routes(suppressed(s, a))
<1> DEFINE t == suppressed(s, a)
<1>1. t.op = s.op
  BY DEF suppressed, Routes, Rows
<1>2. ASSUME NEW b \in AttemptId
      PROVE  /\ Aged(s.attempts, t.attempts)!(b)
             /\ t.attempts[b].state = "delivered" => s.attempts[b].state = "delivered"
  <2>1. s.attempts[b] \in Attempt
    BY DEF Routes, Rows
  <2>2. t.attempts[b] =
          IF b = a THEN [s.attempts[b] EXCEPT !.state = "suppressed", !.invocation = "not_invoked"]
          ELSE s.attempts[b]
    BY DEF suppressed, Routes, Rows
  <2>3. QED
    BY <2>1, <2>2 DEF Attempt
<1>3. Aged(s.attempts, t.attempts)
  BY <1>2 DEF Aged
<1>4. QED
  BY <1>1, <1>2, <1>3, AgedRoutes DEF Quiet

\* Evidence (outcomes.ts) about an attempt that exists.
LEMMA RecordedFacts ==
  ASSUME NEW s \in Rows, NEW a \in AttemptId, present(s, a), NEW outcome \in Outcome
  PROVE  LET r == recordedEvidence(s, a, outcome) IN
         /\ Aged(s.attempts, r.attempts)
         /\ \A b \in AttemptId :
              r.attempts[b].state = "delivered" /\ s.attempts[b].state # "delivered"
                => newly("delivered", s.attempts[a], outcome)
         /\ newly("failed", s.attempts[a], outcome) => r.attempts[a].state = "failed"
         /\ applies(s.attempts[a], outcome) /\ outcome.stop =>
              \A b \in AttemptId : r.attempts[b].state # "pending"
         /\ r.op = IF applies(s.attempts[a], outcome) /\ stopAutomatic(s.op, s.attempts[a], outcome)
                   THEN [s.op EXCEPT
                           !.automatic_stopped = TRUE,
                           !.recipient_invalid = recipientInvalid(s.op, s.attempts[a], outcome)]
                   ELSE s.op
<1> DEFINE x == s.attempts[a]
           invocation == IF outcome.notInvoked THEN "not_invoked" ELSE x.invocation
           r == recordedEvidence(s, a, outcome)
<1>1. x \in Attempt /\ s.attempts \in [AttemptId -> Attempt] /\ x.state # "unused"
  BY DEF Rows, present
<1>2. CASE ~applies(x, outcome)
  <2> DEFINE y == [x EXCEPT !.invocation = invocation]
  <2>1. r = [s EXCEPT !.attempts = [s.attempts EXCEPT ![a] = y]]
    BY <1>2 DEF recordedEvidence
  <2>2. r.op = s.op /\ r.attempts = [s.attempts EXCEPT ![a] = y]
    BY <2>1 DEF Rows
  <2>3. Aged(s.attempts, r.attempts)
    BY <1>1, <2>2 DEF Aged, Attempt
  <2>4. \A b \in AttemptId : r.attempts[b].state = s.attempts[b].state
    BY <1>1, <2>2 DEF Attempt
  <2>5. QED
    BY <1>2, <2>2, <2>3, <2>4 DEF newly
<1>3. CASE applies(x, outcome)
  <2> DEFINE y == [x EXCEPT !.state = outcome.state,
                            !.acceptance = mergedAcceptance(x, outcome),
                            !.invocation = invocation]
             merged == [s.attempts EXCEPT ![a] = y]
             reasons == suppressPending(x, outcome)
             op == IF stopAutomatic(s.op, x, outcome)
                   THEN [s.op EXCEPT
                           !.automatic_stopped = TRUE,
                           !.recipient_invalid = recipientInvalid(s.op, x, outcome)]
                   ELSE s.op
  <2>1. r.attempts = suppressPendingAttempts(merged, reasons) /\ r.op = op
    BY <1>3 DEF recordedEvidence, Rows
  <2>2. outcome.state \in {"accepted", "delivered", "failed", "uncertain"}
    BY DEF Outcome
  <2>3. y.state = outcome.state /\ y \in Attempt
    <3>1. mergedAcceptance(x, outcome) \in Acceptance
      BY DEF mergedAcceptance, Acceptance, Outcome
    <3>2. invocation \in {"not_started", "committed", "not_invoked"}
      BY <1>1 DEF Attempt
    <3>3. QED
      BY <1>1, <2>2, <3>1, <3>2 DEF Attempt, AttemptState
  <2>4. /\ x.state = "delivered" => outcome.state = "delivered"
        /\ x.state = "failed" => outcome.state \in {"failed", "delivered"}
    BY <1>3 DEF applies, resultingState
  <2>5. Aged(s.attempts, merged)
    <3>1. y.routing_revision = x.routing_revision /\ y.route_position = x.route_position
          /\ y.reason = x.reason /\ y.intent = x.intent /\ y.committed = x.committed
          /\ y.invocation \in {x.invocation, "not_invoked"}
      BY <1>1 DEF Attempt
    <3>2. QED
      BY <1>1, <2>2, <2>3, <2>4, <3>1 DEF Aged
  <2>6. merged \in [AttemptId -> Attempt]
    BY <1>1, <2>3
  <2>7. /\ Aged(merged, r.attempts)
        /\ reasons = Reason => \A b \in AttemptId : r.attempts[b].state # "pending"
        /\ \A b \in AttemptId : r.attempts[b].state = "delivered" => merged[b].state = "delivered"
    <3> HIDE DEF merged, reasons
    <3>1. QED
      BY <2>1, <2>6, SuppressAges
  <2>8. Aged(s.attempts, r.attempts)
    BY <2>5, <2>7, AgedTransitive
  <2>9. ASSUME NEW b \in AttemptId, r.attempts[b].state = "delivered", s.attempts[b].state # "delivered"
        PROVE  newly("delivered", x, outcome)
    <3>1. merged[b].state = "delivered"
      BY <2>7, <2>9
    <3>2. b = a
      BY <1>1, <2>9, <3>1
    <3>3. QED
      BY <1>1, <1>3, <2>3, <2>9, <3>1, <3>2 DEF newly
  <2>10. ASSUME newly("failed", x, outcome) PROVE r.attempts[a].state = "failed"
    <3>1. merged[a].state = "failed"
      BY <1>1, <2>3, <2>10 DEF newly
    <3>2. QED
      BY <2>1, <3>1 DEF suppressPendingAttempts
  <2>11. outcome.stop => reasons = Reason
    BY <1>3 DEF suppressPending
  <2>12. QED
    BY <1>3, <2>1, <2>7, <2>8, <2>9, <2>10, <2>11
<1>4. QED
  BY <1>2, <1>3

LEMMA RecordedQuiet ==
  ASSUME NEW s, Routes(s), NEW a \in AttemptId, present(s, a), NEW outcome \in Outcome,
         recordedEvidence(s, a, outcome) \in Rows
  PROVE  LET r == recordedEvidence(s, a, outcome) IN Quiet(s, r) /\ Routes(r)
<1> DEFINE x == s.attempts[a]
           r == recordedEvidence(s, a, outcome)
<1>1. s \in Rows /\ s.op \in Operation
  BY DEF Routes, Rows
<1>2. /\ Aged(s.attempts, r.attempts)
      /\ \A b \in AttemptId :
           r.attempts[b].state = "delivered" /\ s.attempts[b].state # "delivered"
             => newly("delivered", x, outcome)
      /\ applies(x, outcome) /\ outcome.stop =>
           \A b \in AttemptId : r.attempts[b].state # "pending"
      /\ r.op = IF applies(x, outcome) /\ stopAutomatic(s.op, x, outcome)
                THEN [s.op EXCEPT
                        !.automatic_stopped = TRUE,
                        !.recipient_invalid = recipientInvalid(s.op, x, outcome)]
                ELSE s.op
  BY <1>1, RecordedFacts
<1>3. /\ r.op.state = s.op.state /\ r.op.routing_revision = s.op.routing_revision
      /\ r.op.current_attempt_id = s.op.current_attempt_id
  BY <1>1, <1>2 DEF Operation
<1>4. /\ s.op.automatic_stopped => r.op.automatic_stopped
      /\ newly("delivered", x, outcome) => r.op.automatic_stopped
  BY <1>1, <1>2 DEF Operation, stopAutomatic, newly
<1>5. /\ s.op.recipient_invalid => r.op.recipient_invalid
      /\ r.op.recipient_invalid => s.op.recipient_invalid \/ (applies(x, outcome) /\ outcome.stop)
  BY <1>1, <1>2 DEF Operation, recipientInvalid
<1>6. Routes(r)
  BY <1>2, <1>3, <1>4, <1>5, AgedRoutes
<1>7. QED
  BY <1>2, <1>3, <1>4, <1>5, <1>6 DEF Quiet

\* The whole of mergeLockedOutcome, with the fallback it may start.
LEMMA MergeEvidence ==
  ASSUME NEW s, NEW H, NEW n, RowsOK(s, H, n), Routes(s),
         NEW a \in AttemptId, present(s, a), NEW outcome \in Outcome, Credible(outcome),
         outcome.notInvoked => n[a] = 0 /\ a \notin H,
         NEW t \in mergeLockedOutcome(s, a, outcome)
  PROVE  /\ Evidence(s, t) /\ Routes(t)
         /\ outcome.state # "failed" => Quiet(s, t)
<1> DEFINE x == s.attempts[a]
           r == recordedEvidence(s, a, outcome)
<1>1. RowsOK(r, H, n) /\ r \in Rows /\ RowsOK(t, H, n) /\ t \in Rows
  <2>1. RowsOK(r, H, n)
    BY RecordedEvidenceOK
  <2>2. RowsOK(t, H, n)
    BY MergeOK
  <2>3. QED
    BY <2>1, <2>2 DEF RowsOK
<1>2. Quiet(s, r) /\ Routes(r)
  BY <1>1, RecordedQuiet
<1>3. CASE t = r
  BY <1>2, <1>3 DEF Evidence
<1>4. CASE t # r
  <2>1. advances(s, a, outcome) /\ \E ready \in SUBSET Position : t \in fallbacks(r, a, ready)
    BY <1>4 DEF mergeLockedOutcome
  <2>2. PICK ready \in SUBSET Position : t \in fallbacks(r, a, ready)
    BY <2>1
  <2>3. PICK id \in fresh(r), p \in nextProvider(ready, r.attempts[a].route_position) :
          t = schedule(r, id, p, "fallback", r.attempts[a].intent)
    BY <2>2 DEF fallbacks
  <2>4. /\ newly("failed", x, outcome)
        /\ s.op.state = "active" /\ ~s.op.automatic_stopped
        /\ ~recipientInvalid(s.op, x, outcome)
        /\ s.op.current_attempt_id = a
        /\ s.op.routing_revision = x.routing_revision
    BY <2>1 DEF advances, advance, mayAdvance
  <2>5. /\ Aged(s.attempts, r.attempts)
        /\ r.attempts[a].state = "failed"
        /\ r.op = IF applies(x, outcome) /\ stopAutomatic(s.op, x, outcome)
                  THEN [s.op EXCEPT
                          !.automatic_stopped = TRUE,
                          !.recipient_invalid = recipientInvalid(s.op, x, outcome)]
                  ELSE s.op
    BY <2>4, RecordedFacts DEF Routes
  <2>6. r.op = s.op /\ ~s.op.recipient_invalid /\ outcome.state = "failed"
    BY <2>4, <2>5 DEF stopAutomatic, recipientInvalid, newly
  <2>7. p \in Position /\ r.attempts[a].route_position < p
    BY <2>3 DEF nextProvider
  <2>8. r.attempts[a].intent \in Intent /\ "fallback" \in Reason /\ ~r.attempts[id].committed
    <3>1. id \in AttemptId /\ r.attempts[id].state = "unused"
      BY <2>3 DEF fresh
    <3>2. r.attempts[id] \in Attempt /\ AttemptOK(r.attempts[id], n[id], id \in H)
      BY <1>1, <3>1 DEF RowsOK, Rows
    <3>3. r.attempts[a].intent \in Intent
      BY <1>1 DEF Rows, Attempt
    <3>4. QED
      BY <3>1, <3>2, <3>3 DEF AttemptOK, Reason
  <2>9. \A b \in AttemptId : r.attempts[b].state # "pending"
    BY <2>4, <2>5 DEF Routes, Waiting, Aged
  <2>10. r.attempts[a].routing_revision = r.op.routing_revision
    BY <2>4, <2>5, <2>6 DEF Aged
  <2>11. Routes(t)
    BY <1>1, <1>2, <2>3, <2>4, <2>5, <2>6, <2>7, <2>8, <2>9, <2>10, ScheduleRoutes
  <2>12. Fallback(s, t)
    BY <1>1, <1>2, <2>3, <2>4, <2>6, <2>7, <2>8 DEF Fallback
  <2>13. QED
    BY <2>6, <2>11, <2>12 DEF Evidence
<1>5. QED
  BY <1>3, <1>4

\* The rows of an operation whose attempts do not exist yet.
LEMMA FreshRoutes ==
  ASSUME NEW s, Routes(s), NEW t \in Rows, t.attempts = s.attempts,
         s.op.state \in {"absent", "prepared"}, ~t.op.recipient_invalid
  PROVE  Routes(t) /\ \A a \in AttemptId : ~present(t, a)
<1>1. \A a \in AttemptId : ~present(t, a)
  BY DEF Routes, Started, present
<1>2. \A a \in AttemptId : t.attempts[a].state = "unused"
  BY <1>1 DEF present
<1>3. committed(t) = committed(s)
  BY DEF committed
<1>4. QED
  BY <1>1, <1>2, <1>3 DEF Routes, Started, Waiting, Front, Ordered, together, Stopped, Budget

\* The gate's reservation (reserve.ts).
LEMMA ReserveRoutes ==
  ASSUME NEW s, Routes(s), NEW a \in AttemptId, s.attempts[a].state = "pending",
         send_count(s) < MaxSends, reserve(s, a) \in Rows
  PROVE  Routes(reserve(s, a))
<1> DEFINE t == reserve(s, a)
           y == [s.attempts[a] EXCEPT !.state = "dispatching", !.acceptance = "unknown",
                                      !.invocation = "committed", !.committed = TRUE]
<1>1. s \in Rows /\ s.attempts[a] \in Attempt
  BY DEF Routes, Rows
<1>2. t.op = s.op /\ t.attempts = [s.attempts EXCEPT ![a] = y]
  BY <1>1 DEF reserve, Rows
<1>3. /\ y.state = "dispatching" /\ y.committed
      /\ y.routing_revision = s.attempts[a].routing_revision
      /\ y.route_position = s.attempts[a].route_position
      /\ y.reason = s.attempts[a].reason
  BY <1>1 DEF Attempt
<1>4. \A b \in AttemptId :
        /\ t.attempts[b].routing_revision = s.attempts[b].routing_revision
        /\ t.attempts[b].route_position = s.attempts[b].route_position
        /\ t.attempts[b].reason = s.attempts[b].reason
        /\ b # a => t.attempts[b] = s.attempts[b]
        /\ present(t, b) = present(s, b)
  BY <1>1, <1>2, <1>3 DEF Rows, present
<1>5. t.attempts[a] = y
  BY <1>1, <1>2 DEF Rows
<1>6. Started(t)
  BY <1>2, <1>4 DEF Routes, Started
<1>7. Waiting(t)
  BY <1>2, <1>3, <1>4, <1>5 DEF Routes, Waiting
<1>8. Front(t)
  BY <1>2, <1>4 DEF Routes, Front, together
<1>9. Ordered(t)
  BY <1>2, <1>4 DEF Routes, Ordered, together
<1>10. Stopped(t)
  BY <1>2, <1>3, <1>4, <1>5 DEF Routes, Stopped
<1>11. Budget(t)
  <2>1. committed(t) = committed(s) \cup {a}
    BY <1>3, <1>4, <1>5 DEF committed
  <2>2. IsFiniteSet(committed(s)) /\ Cardinality(committed(s)) \in Nat
    BY FS_CardinalityType DEF Routes, Budget
  <2>3. IsFiniteSet(committed(t)) /\ Cardinality(committed(t)) <= Cardinality(committed(s)) + 1
    <3>1. /\ IsFiniteSet(committed(s) \cup {a})
          /\ Cardinality(committed(s) \cup {a}) =
               IF a \in committed(s) THEN Cardinality(committed(s))
               ELSE Cardinality(committed(s)) + 1
      BY <2>2, FS_AddElement
    <3>2. QED
      BY <2>1, <2>2, <3>1
  <2>4. Cardinality(committed(t)) \in Nat
    BY <2>3, FS_CardinalityType
  <2>5. QED
    BY <2>2, <2>3, <2>4, MaxSendsAssumption DEF send_count, Budget
<1>12. QED
  BY <1>6, <1>7, <1>8, <1>9, <1>10, <1>11 DEF Routes

-----------------------------------------------------------------------------
(***************************************************************************)
(* Every step keeps Routes and is one of five kinds.                       *)
(***************************************************************************)
\* A command schedules the first attempt of a revision.
Scheduled ==
  \E r \in Rows : \E id \in fresh(r), position \in Position, reason \in Reason :
    /\ Aged(db.attempts, r.attempts)
    /\ db.op.state = "absent" \/ Live(db.op)
    /\ ~overdue /\ ~db.op.recipient_invalid
    /\ r.op.state = "active" /\ ~r.op.recipient_invalid
    /\ reason # "fallback"
    /\ db' = schedule(r, id, position, reason, capturedAuthority)

\* The operation starts, without an attempt.
Opened ==
  /\ db.op.state \in {"absent", "prepared"}
  /\ db'.op.state \in {"prepared", "active"}
  /\ db'.attempts = db.attempts
  /\ ~db.op.recipient_invalid

\* The gate reserves the one send of a waiting attempt.
Reserved(job) ==
  LET a == job.attemptId IN
  /\ a \in AttemptId
  /\ ~overdue
  /\ db.op.state = "active"
  /\ db.attempts[a].state = "pending"
  /\ eligible(db, job)
  /\ send_count(db) < MaxSends
  /\ db' = reserve(db, a)

Step ==
  \/ Quiet(db, db')
  \/ Evidence(expired(db), db')
  \/ Scheduled
  \/ Opened
  \/ \E job \in db.jobs : Reserved(job)

RoutingInv == DispatchInv /\ Routes(db)

LEMMA Foundations ==
  ASSUME RoutingInv
  PROVE  /\ RowsOK(db, inFlight, sends) /\ RowsOK(expired(db), inFlight, sends)
         /\ db \in Rows /\ expired(db) \in Rows
         /\ Routes(db) /\ Routes(expired(db))
         /\ Quiet(db, expired(db))
         /\ Live(expired(db).op) => expired(db) = db /\ ~overdue
         /\ \A a \in AttemptId : present(db, a) = present(expired(db), a)
         /\ \A a \in AttemptId : expired(db).attempts[a].state = "unused" =>
              ~expired(db).attempts[a].committed
         /\ \A a \in AttemptId : sends[a] > 0 \/ a \in inFlight => present(db, a)
<1>1. RowsOK(db, inFlight, sends) /\ RowsOK(expired(db), inFlight, sends)
  BY ExpiredOK DEF RoutingInv, DispatchInv
<1>2. db \in Rows /\ expired(db) \in Rows
  BY <1>1 DEF RowsOK
<1>3. Routes(db) /\ Quiet(db, expired(db)) /\ Routes(expired(db))
  BY <1>2, ExpiredQuiet DEF RoutingInv
<1>4. Live(expired(db).op) => expired(db) = db /\ ~overdue
  <2>1. CASE expired(db) = db /\ (Live(db.op) => ~overdue)
    BY <2>1
  <2>2. CASE expired(db) = terminate(db, "expired")
    <3>1. expired(db).op.state = "expired"
      BY <1>2, <2>2, TerminateState
    <3>2. QED
      BY <3>1 DEF Live
  <2>3. QED
    BY <2>1, <2>2, ExpiredCases
<1>5. \A a \in AttemptId : present(db, a) = present(expired(db), a)
  BY <1>3 DEF Quiet, Aged, present
<1>6. \A a \in AttemptId : expired(db).attempts[a].state = "unused" =>
        ~expired(db).attempts[a].committed
  BY <1>1 DEF RowsOK, AttemptOK
<1>7. \A a \in AttemptId : sends[a] > 0 \/ a \in inFlight => present(db, a)
  <2> SUFFICES ASSUME NEW a \in AttemptId, sends[a] > 0 \/ a \in inFlight
               PROVE  present(db, a)
    OBVIOUS
  <2>1. sends[a] \in Nat
    BY DEF RoutingInv, DispatchInv, TypeOK
  <2>2. AttemptOK(db.attempts[a], sends[a], a \in inFlight)
    BY <1>1 DEF RowsOK
  <2>3. QED
    BY <2>1, <2>2 DEF AttemptOK, present
<1>8. QED
  BY <1>1, <1>2, <1>3, <1>4, <1>5, <1>6, <1>7

\* Evidence recorded in a transaction of its own.
LEMMA OutcomeSteps ==
  ASSUME RoutingInv, NEW a \in AttemptId, present(db, a),
         NEW outcome \in Outcome, Credible(outcome),
         NEW H \in SUBSET inFlight,
         outcome.notInvoked => sends[a] = 0 /\ a \notin H,
         NEW t \in mergeLockedOutcome(expired(db), a, outcome)
  PROVE  /\ Evidence(expired(db), t) /\ Routes(t) /\ RowsOK(t, H, sends)
         /\ outcome.state # "failed" => Quiet(expired(db), t)
<1>1. RowsOK(expired(db), H, sends) /\ Routes(expired(db)) /\ present(expired(db), a)
  BY Foundations, RowsWeaken
<1>2. /\ Evidence(expired(db), t) /\ Routes(t)
      /\ outcome.state # "failed" => Quiet(expired(db), t)
  BY <1>1, MergeEvidence
<1>3. RowsOK(t, H, sends)
  BY <1>1, MergeOK
<1>4. QED
  BY <1>2, <1>3

LEMMA CommandSteps ==
  ASSUME RoutingInv, Commands, db' \in Rows
  PROVE  Step /\ Routes(db')
<1> DEFINE s == expired(db)
<1>1. /\ db \in Rows /\ s \in Rows /\ Routes(db) /\ Routes(s) /\ Quiet(db, s)
      /\ Live(s.op) => s = db /\ ~overdue
      /\ \A a \in AttemptId : present(db, a) = present(s, a)
      /\ \A a \in AttemptId : s.attempts[a].state = "unused" => ~s.attempts[a].committed
  BY Foundations
<1>2. ASSUME NEW position \in Position, Prepare(position)
      PROVE  Step /\ Routes(db')
  <2>1. /\ db.op.state = "absent" /\ ~db.op.recipient_invalid
        /\ db'.attempts = db.attempts /\ db'.op.state = "prepared" /\ ~db'.op.recipient_invalid
    BY <1>1, <1>2 DEF Prepare, prepared, Rows, Operation, Routes, Started
  <2>2. QED
    BY <1>1, <2>1, FreshRoutes DEF Step, Opened
<1>3. ASSUME NEW position \in Position, NEW id \in AttemptId, Create(position, id)
      PROVE  Step /\ Routes(db')
  <2> DEFINE r == attachedCode(prepared(position))
  <2>1. /\ db.op.state = "absent" /\ ~overdue /\ ~db.op.recipient_invalid
        /\ id \in fresh(db)
        /\ db' = schedule(r, id, position, "initial", capturedAuthority)
    BY <1>1, <1>3 DEF Create, admissible, Routes, Started
  <2>2. /\ r \in Rows /\ r.attempts = db.attempts
        /\ r.op.state = "active" /\ ~r.op.recipient_invalid
    BY <1>1, <2>1 DEF attachedCode, prepared, Rows, Operation
  <2>3. Routes(r) /\ \A a \in AttemptId : ~present(r, a)
    BY <1>1, <2>1, <2>2, FreshRoutes
  <2>4. id \in fresh(r) /\ \A a \in AttemptId : r.attempts[a].state # "pending"
    BY <2>1, <2>2, <2>3 DEF fresh, present
  <2>5. ~r.attempts[id].committed
    <3>1. RowsOK(db, inFlight, sends)
      BY Foundations
    <3>2. QED
      BY <2>1, <2>2, <3>1 DEF RowsOK, AttemptOK, fresh
  <2>6. "initial" \in Reason
    BY DEF Reason
  <2>7. Routes(db')
    BY <2>1, <2>2, <2>3, <2>4, <2>5, <2>6, ScheduleRoutes
  <2>8. Scheduled
    BY <2>1, <2>2, <2>4, <2>6, AgedItself DEF Scheduled
  <2>9. QED
    BY <2>7, <2>8 DEF Step
<1>4. ASSUME NEW id \in AttemptId, SubmitCode(id)
      PROVE  Step /\ Routes(db')
  <2> DEFINE r == attachedCode(s)
             position == s.op.initial_position
  <2>1. /\ s.op.state = "prepared" /\ s = db /\ ~overdue /\ ~db.op.recipient_invalid
        /\ id \in fresh(s)
        /\ db' = schedule(r, id, position, "initial", capturedAuthority)
    BY <1>1, <1>4 DEF SubmitCode, Live, Routes, Started
  <2>2. /\ r \in Rows /\ r.attempts = s.attempts
        /\ r.op.state = "active" /\ ~r.op.recipient_invalid
    BY <1>1, <2>1 DEF attachedCode, Rows, Operation
  <2>3. Routes(r) /\ \A a \in AttemptId : ~present(r, a)
    BY <1>1, <2>1, <2>2, FreshRoutes
  <2>4. id \in fresh(r) /\ \A a \in AttemptId : r.attempts[a].state # "pending"
    BY <2>1, <2>2, <2>3 DEF fresh, present
  <2>5. ~r.attempts[id].committed
    BY <1>1, <2>1, <2>2 DEF fresh
  <2>6. "initial" \in Reason /\ position \in Position
    BY <1>1 DEF Reason, Rows, Operation
  <2>7. Routes(db')
    BY <2>1, <2>2, <2>3, <2>4, <2>5, <2>6, ScheduleRoutes
  <2>8. Aged(db.attempts, r.attempts) /\ Live(db.op)
    BY <2>1, <2>2, AgedItself DEF Live
  <2>9. Scheduled
    BY <2>1, <2>2, <2>4, <2>6, <2>8 DEF Scheduled
  <2>10. QED
    BY <2>7, <2>9 DEF Step
<1>5. CASE SubmitCodeRejected
  <2>1. s.op.state = "prepared" /\ s = db /\ db' = attachedCode(s)
    BY <1>1, <1>5 DEF SubmitCodeRejected, Live
  <2>2. ~db.op.recipient_invalid
    BY <1>1, <2>1 DEF Routes, Started
  <2>3. /\ db'.attempts = db.attempts /\ db'.op.state = "active" /\ ~db'.op.recipient_invalid
    BY <1>1, <2>1, <2>2 DEF attachedCode, Rows, Operation
  <2>4. QED
    BY <1>1, <2>1, <2>2, <2>3, FreshRoutes DEF Step, Opened
<1>6. ASSUME NEW id \in AttemptId, NEW reason \in {"resend", "next", "select"},
             NEW ready \in SUBSET Position, RequestSend(id, reason, ready)
      PROVE  Step /\ Routes(db')
  <2> DEFINE r == supersede(s)
  <2>1. /\ s.op.state = "active" /\ s = db /\ ~overdue /\ ~db.op.recipient_invalid
        /\ id \in fresh(s)
    BY <1>1, <1>6 DEF RequestSend, Live
  <2>2. PICK position \in selectTarget(s, reason, ready) :
          db' = schedule(r, id, position, reason, capturedAuthority)
    BY <1>6 DEF RequestSend
  <2>3. position \in Position /\ reason \in Reason /\ reason # "fallback"
    BY <2>2 DEF selectTarget, nextProvider, Reason
  <2>4. r \in Rows
    <3>1. RowsOK(r, inFlight, sends)
      BY Foundations, SupersedeOK
    <3>2. QED
      BY <3>1 DEF RowsOK
  <2>5. /\ Routes(r) /\ Aged(s.attempts, r.attempts)
        /\ r.op.state = "active" /\ r.op.recipient_invalid = s.op.recipient_invalid
        /\ \A a \in AttemptId : r.attempts[a].state # "pending"
        /\ \A a \in AttemptId :
             present(r, a) => r.attempts[a].routing_revision < r.op.routing_revision
    BY <1>1, <2>1, <2>4, SupersedeRoutes
  <2>6. \A a \in AttemptId :
          present(r, a) => r.attempts[a].routing_revision # r.op.routing_revision
    BY <2>4, <2>5 DEF Rows, Attempt, Operation
  <2>7. id \in fresh(r) /\ ~r.attempts[id].committed
    BY <1>1, <2>1, <2>5 DEF fresh, Aged
  <2>8. Routes(db')
    BY <2>1, <2>2, <2>3, <2>5, <2>6, <2>7, ScheduleRoutes
  <2>9. Scheduled
    BY <2>1, <2>2, <2>3, <2>4, <2>5, <2>7 DEF Scheduled, Live
  <2>10. QED
    BY <2>8, <2>9 DEF Step
<1>7. CASE Close
  <2>1. CASE Live(s.op)
    <3>1. db' = terminate(db, "closed") /\ Live(db.op)
      BY <1>1, <1>7, <2>1 DEF Close
    <3>2. QED
      BY <1>1, <3>1, TerminateQuiet DEF Step
  <2>2. CASE ~Live(s.op)
    BY <1>1, <1>7, <2>2 DEF Close, Step
  <2>3. QED
    BY <2>1, <2>2
<1>8. CASE Invalidate
  BY <1>1, <1>8, TerminateQuiet DEF Invalidate, Step
<1>9. CASE Expire
  BY <1>1, <1>9 DEF Expire, Step
<1>10. QED
  BY <1>2, <1>3, <1>4, <1>5, <1>6, <1>7, <1>8, <1>9 DEF Commands

LEMMA GateSteps ==
  ASSUME RoutingInv, NEW w \in Worker, NEW job \in db.jobs, Gate(w, job), db' \in Rows
  PROVE  Step /\ Routes(db')
<1> DEFINE s == expired(db)
           a == job.attemptId
<1>1. /\ db \in Rows /\ s \in Rows /\ Routes(db) /\ Routes(s) /\ Quiet(db, s)
      /\ RowsOK(db, inFlight, sends) /\ RowsOK(s, inFlight, sends)
      /\ Live(s.op) => s = db /\ ~overdue
      /\ \A b \in AttemptId : present(db, b) = present(s, b)
  BY Foundations
<1>2. a \in AttemptId
  BY <1>1 DEF Rows, Job
<1>3. CASE GateDuplicate(w, job)
  <2>1. CASE db' = s
    BY <1>1, <2>1 DEF Step
  <2>2. CASE db' = recovered(s, {a})
    <3>1. Quiet(s, db') /\ Routes(db')
      BY <1>1, <2>2, RecoveredQuiet
    <3>2. QED
      BY <1>1, <3>1, QuietTransitive DEF Step
  <2>3. QED
    BY <1>3, <2>1, <2>2 DEF GateDuplicate
<1>4. CASE GateSuppress(w, job) \/ GateRefused(w, job)
  <2>1. db' = suppressed(s, a) /\ s.attempts[a].state = "pending"
    BY <1>4 DEF GateSuppress, GateRefused, gateOpens
  <2>2. Quiet(s, db') /\ Routes(db')
    BY <1>1, <1>2, <2>1, SuppressedQuiet
  <2>3. QED
    BY <1>1, <2>2, QuietTransitive DEF Step
<1>5. CASE GateUnavailable(w, job)
  <2>1. db' \in mergeLockedOutcome(s, a, notInvokedOutcome) /\ s.attempts[a].state = "pending"
    BY <1>5 DEF GateUnavailable, gateOpens
  <2>2. sends[a] = 0 /\ a \notin inFlight
    BY <1>1, <1>2, <2>1 DEF RowsOK, AttemptOK
  <2>3. present(db, a)
    BY <1>1, <1>2, <2>1 DEF present
  <2>4. Evidence(expired(db), db') /\ Routes(db')
    BY <1>2, <2>1, <2>2, <2>3, OutcomeSteps, OutcomesTyped
  <2>5. QED
    BY <2>4 DEF Step
<1>6. CASE GateReserve(w, job)
  <2>1. /\ db' = reserve(s, a)
        /\ s.attempts[a].state = "pending"
        /\ eligible(s, job)
        /\ send_count(s) < MaxSends
    BY <1>6 DEF GateReserve, gateOpens
  <2>2. s.op.state = "active" /\ s = db /\ ~overdue
    BY <1>1, <2>1 DEF eligible, stale, Live
  <2>3. Routes(db')
    BY <1>1, <1>2, <2>1, ReserveRoutes
  <2>4. Reserved(job)
    BY <1>2, <2>1, <2>2 DEF Reserved
  <2>5. QED
    BY <2>3, <2>4 DEF Step
<1>7. QED
  BY <1>3, <1>4, <1>5, <1>6 DEF Gate

LEMMA NoSteps ==
  ASSUME RoutingInv, db' = db
  PROVE  Step /\ Routes(db')
BY AgedItself DEF RoutingInv, Step, Quiet

LEMMA DispatchSteps ==
  ASSUME RoutingInv, NEW w \in Worker, Dispatch(w)
  PROVE  Step /\ Routes(db')
<1> DEFINE a == held[w].attemptId
           H == inFlight \ {a}
           s == expired(db)
<1>1. TypeOK /\ WorkersOK
  BY DEF RoutingInv, DispatchInv
<1>2. pc[w] # "idle"
  BY DEF Dispatch, SkipSend, Send, SendFailed, SendAccepted, Crash
<1>3. a \in AttemptId /\ a \in inFlight /\ H \in SUBSET inFlight
  BY <1>1, <1>2 DEF WorkersOK, Job, inFlight
<1>4. present(db, a)
  BY <1>3, Foundations
<1>5. CASE SkipSend(w)
  <2>1. sends[a] = 0 /\ a \notin H /\ db' \in mergeLockedOutcome(s, a, notInvokedOutcome)
    BY <1>1, <1>5 DEF SkipSend, WorkersOK, recordOutcome
  <2>2. Evidence(expired(db), db') /\ Routes(db')
    BY <1>3, <1>4, <2>1, OutcomeSteps, OutcomesTyped
  <2>3. QED
    BY <2>2 DEF Step
<1>6. CASE Send(w) \/ Crash(w)
  BY <1>6, NoSteps DEF Send, Crash
<1>7. ASSUME NEW outcome \in Outcome, SendFailed(w, outcome)
      PROVE  Step /\ Routes(db')
  <2>1. Credible(outcome) /\ ~outcome.notInvoked /\ db' \in mergeLockedOutcome(s, a, outcome)
    BY <1>7, OutcomesTyped DEF SendFailed, recordOutcome
  <2>2. Evidence(expired(db), db') /\ Routes(db')
    BY <1>3, <1>4, <2>1, OutcomeSteps
  <2>3. QED
    BY <2>2 DEF Step
<1>8. CASE SendAccepted(w)
  <2>1. PICK t \in mergeLockedOutcome(s, a, acceptedOutcome) :
          \/ db' = t
          \/ \E status \in CallbackStatus :
               db' \in mergeLockedOutcome(t, a, callbackOutcome(status))
    BY <1>8 DEF SendAccepted
  <2>2. acceptedOutcome.state # "failed"
    BY DEF acceptedOutcome
  <2>3. Quiet(s, t) /\ Routes(t) /\ RowsOK(t, H, sends)
    BY <1>3, <1>4, <2>2, OutcomeSteps, OutcomesTyped
  <2>4. CASE db' = t
    BY <2>3, <2>4 DEF Step, Evidence
  <2>5. ASSUME NEW status \in CallbackStatus, db' \in mergeLockedOutcome(t, a, callbackOutcome(status))
        PROVE  Step /\ Routes(db')
    <3>1. present(t, a)
      BY <1>3, <1>4, <2>3, Foundations DEF Quiet, Aged, present
    <3>2. Evidence(t, db') /\ Routes(db')
      BY <1>3, <2>3, <2>5, <3>1, MergeEvidence, OutcomesTyped
    <3>3. QED
      BY <2>3, <3>2, EvidenceAfter DEF Step
  <2>6. QED
    BY <2>1, <2>4, <2>5
<1>9. QED
  BY <1>5, <1>6, <1>7, <1>8 DEF Dispatch

LEMMA BackgroundSteps ==
  ASSUME RoutingInv, Background, db' \in Rows
  PROVE  Step /\ Routes(db')
<1>1. ASSUME NEW a \in AttemptId, NEW status \in CallbackStatus, Callback(a, status)
      PROVE  Step /\ Routes(db')
  <2>1. present(db, a)
    BY <1>1, Foundations DEF Callback
  <2>2. db' \in mergeLockedOutcome(expired(db), a, callbackOutcome(status))
    BY <1>1 DEF Callback, recordOutcome
  <2>3. Evidence(expired(db), db') /\ Routes(db')
    BY <2>1, <2>2, OutcomeSteps, OutcomesTyped
  <2>4. QED
    BY <2>3 DEF Step
<1>2. ASSUME NEW S, recoverDispatches(S)
      PROVE  Step /\ Routes(db')
  <2>1. Routes(expired(db)) /\ Quiet(db, expired(db)) /\ db' = recovered(expired(db), S)
    BY <1>2, Foundations DEF recoverDispatches
  <2>2. Quiet(expired(db), db') /\ Routes(db')
    BY <2>1, RecoveredQuiet
  <2>3. QED
    BY <2>1, <2>2, QuietTransitive DEF Step
<1>3. CASE PassDeadline \/ WithdrawProject \/ RestoreProject \/ WithdrawPolicy
           \/ RestorePolicy
  BY <1>3, NoSteps DEF PassDeadline, WithdrawProject, RestoreProject, WithdrawPolicy, RestorePolicy
<1>4. QED
  BY <1>1, <1>2, <1>3 DEF Background

LEMMA RoutingKeeps ==
  ASSUME RoutingInv, DispatchInv', [Next]_vars
  PROVE  Step /\ RoutingInv'
<1>1. db' \in Rows
  BY DEF DispatchInv, RowsOK, Rows, TypeOK
<1>2. Step /\ Routes(db')
  <2>1. CASE UNCHANGED vars
    BY <2>1, NoSteps DEF vars
  <2>2. CASE Next
    BY <1>1, <2>2, CommandSteps, GateSteps, DispatchSteps, BackgroundSteps DEF Next
  <2>3. QED
    BY <2>1, <2>2
<1>3. Routes(db)'
  BY <1>1, <1>2 DEF Routes, Rows, Started, Waiting, Front, Ordered, Stopped, Budget, present, together, committed
<1>4. QED
  BY <1>2, <1>3 DEF RoutingInv

LEMMA InitRoutes == Init => Routes(db)
<1> SUFFICES ASSUME Init PROVE Routes(db)
  OBVIOUS
<1>1. db \in Rows
  BY InitDispatch DEF DispatchInv, RowsOK
<1>2. \A a \in AttemptId : db.attempts[a] = Unused
  BY DEF Init
<1>3. /\ \A a \in AttemptId : db.attempts[a].state = "unused" /\ ~present(db, a)
      /\ ~db.op.recipient_invalid
  BY <1>2 DEF Init, Unused, present
<1>4. committed(db) = {}
  BY <1>2 DEF committed, Unused
<1>5. Budget(db)
  BY <1>4, FS_EmptySet, MaxSendsAssumption DEF Budget
<1>6. QED
  BY <1>1, <1>3, <1>5 DEF Routes, Started, Waiting, Front, Ordered, together, Stopped

LEMMA RoutingInvariant == Spec => []RoutingInv /\ [][Step]_vars
<1>1. Init /\ DispatchInv => RoutingInv
  BY InitRoutes DEF RoutingInv
<1>2. RoutingInv /\ DispatchInv' /\ [Next]_vars => RoutingInv'
  BY RoutingKeeps
<1>3. RoutingInv /\ DispatchInv' /\ [Next]_vars => [Step]_vars
  BY RoutingKeeps
<1>4. QED
  BY <1>1, <1>2, <1>3, DispatchInvariant, PTL DEF Spec

\* What gets scheduled or reserved in a step, and on which conditions.
LEMMA StepFacts ==
  ASSUME RoutingInv, Step, NEW a \in AttemptId
  PROVE  /\ newlyScheduled(a) =>
              /\ ~overdue /\ ~db.op.recipient_invalid
              /\ db.op.state = "absent" \/ Live(db.op)
              /\ db'.attempts[a].reason = "fallback" =>
                   /\ ~db.op.automatic_stopped
                   /\ db'.attempts[a].routing_revision = db.op.routing_revision
         /\ newlyReserved(a) => \E job \in db.jobs : a = job.attemptId /\ Reserved(job)
<1>1. db \in Rows /\ (Live(expired(db).op) => expired(db) = db /\ ~overdue)
      /\ Quiet(db, expired(db)) /\ Routes(db)
  BY Foundations
<1>2. CASE Quiet(db, db')
  BY <1>2 DEF Quiet, Aged, newlyScheduled, newlyReserved, used
<1>3. CASE Quiet(expired(db), db')
  BY <1>1, <1>2, <1>3, QuietTransitive
<1>4. CASE Fallback(expired(db), db')
  <2>1. PICK r \in Rows : \E id \in fresh(r), position \in Position, intent \in Intent :
          /\ Quiet(expired(db), r)
          /\ r.op.state = "active" /\ ~r.op.automatic_stopped /\ ~r.op.recipient_invalid
          /\ db' = schedule(r, id, position, "fallback", intent)
    BY <1>4 DEF Fallback
  <2>2. PICK id \in fresh(r), position \in Position, intent \in Intent :
          db' = schedule(r, id, position, "fallback", intent)
    BY <2>1
  <2>3. expired(db).op.state = "active" /\ expired(db) = db /\ ~overdue
    BY <1>1, <2>1 DEF Quiet, Live
  <2>4. /\ ~db.op.automatic_stopped /\ ~db.op.recipient_invalid
        /\ r.op.routing_revision = db.op.routing_revision
        /\ Aged(db.attempts, r.attempts)
    BY <1>1, <2>1, <2>3 DEF Quiet
  <2>5. /\ id \in AttemptId
        /\ db'.attempts[id].routing_revision = r.op.routing_revision
        /\ ~db'.attempts[id].committed
        /\ \A b \in AttemptId : b # id => db'.attempts[b] = r.attempts[b]
    BY <2>1, <2>2 DEF schedule, fresh, Rows
  <2>6. a # id => ~newlyScheduled(a)
    BY <2>4, <2>5 DEF newlyScheduled, used, Aged
  <2>7. ~newlyReserved(a)
    BY <2>4, <2>5 DEF newlyReserved, Aged
  <2>8. QED
    BY <2>3, <2>4, <2>5, <2>6, <2>7 DEF Live
<1>5. CASE Scheduled
  <2>1. PICK r \in Rows : \E id \in fresh(r), position \in Position, reason \in Reason :
          /\ Aged(db.attempts, r.attempts)
          /\ db.op.state = "absent" \/ Live(db.op)
          /\ ~overdue /\ ~db.op.recipient_invalid
          /\ reason # "fallback"
          /\ db' = schedule(r, id, position, reason, capturedAuthority)
    BY <1>5 DEF Scheduled
  <2>2. PICK id \in fresh(r), position \in Position, reason \in Reason :
          reason # "fallback" /\ db' = schedule(r, id, position, reason, capturedAuthority)
    BY <2>1
  <2>3. /\ id \in AttemptId
        /\ db'.attempts[id].reason = reason
        /\ ~db'.attempts[id].committed
        /\ \A b \in AttemptId : b # id => db'.attempts[b] = r.attempts[b]
    BY <2>1, <2>2 DEF schedule, fresh, Rows
  <2>4. a # id => ~newlyScheduled(a)
    BY <2>1, <2>3 DEF newlyScheduled, used, Aged
  <2>5. ~newlyReserved(a)
    BY <2>1, <2>3 DEF newlyReserved, Aged
  <2>6. QED
    BY <2>1, <2>2, <2>3, <2>4, <2>5
<1>6. CASE Opened
  BY <1>6 DEF Opened, newlyScheduled, newlyReserved, used
<1>7. ASSUME NEW job \in db.jobs, Reserved(job)
      PROVE  ~newlyScheduled(a) /\ (newlyReserved(a) => a = job.attemptId)
  <2>1. /\ db' = reserve(db, job.attemptId) /\ job.attemptId \in AttemptId
        /\ db.attempts[job.attemptId].state = "pending"
    BY <1>7 DEF Reserved
  <2>2. \A b \in AttemptId : b # job.attemptId => db'.attempts[b] = db.attempts[b]
    BY <1>1, <2>1 DEF reserve, Rows
  <2>3. QED
    BY <2>1, <2>2 DEF newlyScheduled, newlyReserved, used
<1>8. QED
  BY <1>2, <1>3, <1>4, <1>5, <1>6, <1>7 DEF Step, Evidence

\* Where the operation may go.
LEMMA OperationFacts ==
  ASSUME RoutingInv, Step
  PROVE  /\ db.op.recipient_invalid => db'.op.recipient_invalid
         /\ \/ db'.op.state = db.op.state
            \/ db.op.state \in {"absent", "prepared"} /\ db'.op.state \in {"prepared", "active"}
            \/ Live(db.op) /\ db'.op.state \in {"closed", "expired"}
<1>1. db \in Rows /\ (Live(expired(db).op) => expired(db) = db) /\ Quiet(db, expired(db))
  BY Foundations
<1>2. CASE Quiet(db, db')
  BY <1>2 DEF Quiet
<1>3. CASE Quiet(expired(db), db')
  BY <1>1, <1>2, <1>3, QuietTransitive
<1>4. CASE Fallback(expired(db), db')
  <2>1. PICK r \in Rows : \E id \in fresh(r), position \in Position, intent \in Intent :
          /\ Quiet(expired(db), r)
          /\ r.op.state = "active" /\ ~r.op.automatic_stopped /\ ~r.op.recipient_invalid
          /\ db' = schedule(r, id, position, "fallback", intent)
    BY <1>4 DEF Fallback
  <2>2. db'.op.state = "active" /\ db'.op.recipient_invalid = r.op.recipient_invalid
    BY <2>1 DEF schedule, Rows, Operation
  <2>3. db.op.state = "active" /\ ~db.op.recipient_invalid
    BY <1>1, <2>1 DEF Quiet, Live
  <2>4. QED
    BY <2>2, <2>3
<1>5. CASE Scheduled
  <2>1. PICK r \in Rows : \E id \in fresh(r), position \in Position, reason \in Reason :
          /\ db.op.state = "absent" \/ Live(db.op)
          /\ ~db.op.recipient_invalid
          /\ r.op.state = "active"
          /\ db' = schedule(r, id, position, reason, capturedAuthority)
    BY <1>5 DEF Scheduled
  <2>2. db'.op.state = "active"
    BY <2>1 DEF schedule, Rows, Operation
  <2>3. QED
    BY <2>1, <2>2 DEF Live
<1>6. CASE Opened
  BY <1>6 DEF Opened
<1>7. CASE \E job \in db.jobs : Reserved(job)
  <2>1. db'.op = db.op
    BY <1>1, <1>7 DEF Reserved, reserve, Rows
  <2>2. QED
    BY <2>1
<1>8. QED
  BY <1>2, <1>3, <1>4, <1>5, <1>6, <1>7 DEF Step, Evidence

-----------------------------------------------------------------------------
(***************************************************************************)
(* The theorems about routing.                                            *)
(***************************************************************************)

\* However often the caller resends, the provider fails or the operation ends, waiting
\* work is the current attempt of the current revision of an active operation.
THEOREM PendingStaysCurrent == Spec => []PendingIsCurrent
<1>1. RoutingInv => PendingIsCurrent
  BY DEF RoutingInv, Routes, Waiting, PendingIsCurrent
<1>2. QED
  BY RoutingInvariant, <1>1, PTL

\* A fallback exists only because every earlier step of its revision failed for certain.
THEOREM FallbackFollowsFailure == Spec => []FallbackOnlyAfterFailure
<1>1. RoutingInv => FallbackOnlyAfterFailure
  <2> SUFFICES ASSUME RoutingInv, NEW a \in AttemptId, NEW b \in AttemptId,
                      used(a), used(b), sameRevision(a, b),
                      db.attempts[b].route_position < db.attempts[a].route_position
               PROVE  db.attempts[b].state \in {"failed", "delivered"}
    BY DEF FallbackOnlyAfterFailure
  <2>1. db.attempts[a].route_position \in Nat
    BY DEF RoutingInv, Routes, Rows, Attempt, Position
  <2>2. a # b
    BY <2>1
  <2>3. QED
    BY <2>2 DEF RoutingInv, Routes, Ordered, together, present, used, sameRevision
<1>2. QED
  BY RoutingInvariant, <1>1, PTL

\* Within a revision routing never returns to a step: attempts_advancement holds.
THEOREM RouteGoesForward == Spec => []RouteMovesForward
<1>1. RoutingInv => RouteMovesForward
  BY DEF RoutingInv, Routes, Ordered, together, present, used, sameRevision, RouteMovesForward
<1>2. QED
  BY RoutingInvariant, <1>1, PTL

\* Crashed, uncertain and unused reservations included, the saved budget holds.
THEOREM BudgetHolds == Spec => []SendBudget
<1>1. RoutingInv => SendBudget
  BY DEF RoutingInv, Routes, Budget, SendBudget
<1>2. QED
  BY RoutingInvariant, <1>1, PTL

\* No evidence and no command reopens an operation whose recipient proved invalid.
THEOREM InvalidRecipientStays == Spec => InvalidRecipientIsPermanent
<1>1. ASSUME RoutingInv, Step, db.op.recipient_invalid
      PROVE  /\ db'.op.recipient_invalid
             /\ \A a \in AttemptId : ~newlyScheduled(a) /\ ~newlyReserved(a)
  <2>1. \A a \in AttemptId : db.attempts[a].state # "pending"
    BY <1>1 DEF RoutingInv, Routes, Waiting
  <2>2. QED
    BY <1>1, <2>1, StepFacts, OperationFacts DEF Reserved
<1>2. ASSUME UNCHANGED vars, db.op.recipient_invalid
      PROVE  /\ db'.op.recipient_invalid
             /\ \A a \in AttemptId : ~newlyScheduled(a) /\ ~newlyReserved(a)
  BY <1>2 DEF vars, newlyScheduled, newlyReserved, used
<1>3. QED
  BY <1>1, RoutingInvariant, PTL DEF InvalidRecipientIsPermanent

\* Only what exists has a deadline.
LEMMA DeadlineOfSomething == Spec => [](overdue => db.op.state # "absent")
<1>1. Init => ~overdue
  BY DEF Init
<1>2. ASSUME RoutingInv, Step, [Next]_vars, overdue => db.op.state # "absent", overdue'
      PROVE  db'.op.state # "absent"
  <2>1. overdue \/ db.op.state # "absent"
    <3>1. CASE PassDeadline
      BY <3>1 DEF PassDeadline
    <3>2. CASE ~PassDeadline
      <4>1. overdue' = overdue
        <5>1. CASE UNCHANGED vars
          BY <5>1 DEF vars
        <5>2. CASE Commands
          BY <5>2 DEF Commands, Prepare, Create, SubmitCode, SubmitCodeRejected, RequestSend,
                      Close, Invalidate, Expire, envVars
        <5>3. ASSUME NEW w \in Worker, NEW job \in db.jobs, Gate(w, job)
              PROVE  overdue' = overdue
          BY <5>3 DEF Gate, GateDuplicate, GateSuppress, GateRefused, GateUnavailable,
                      GateReserve, gateCloses, envVars
        <5>4. ASSUME NEW w \in Worker, Dispatch(w)
              PROVE  overdue' = overdue
          BY <5>4 DEF Dispatch, SkipSend, Send, SendFailed, SendAccepted, Crash, Finish, envVars
        <5>5. CASE Background
          BY <3>2, <5>5 DEF Background, Callback, recoverDispatches, WithdrawProject,
                      RestoreProject, WithdrawPolicy, RestorePolicy, envVars
        <5>6. QED
          BY <1>2, <5>1, <5>2, <5>3, <5>4, <5>5 DEF Next
      <4>2. QED
        BY <1>2, <4>1
    <3>3. QED
      BY <3>1, <3>2
  <2>2. QED
    BY <1>2, <2>1, OperationFacts
<1>3. (RoutingInv /\ DispatchInv' /\ [Next]_vars /\ (overdue => db.op.state # "absent"))
        => (overdue => db.op.state # "absent")'
  BY <1>2, RoutingKeeps
<1>4. QED
  BY <1>1, <1>3, RoutingInvariant, DispatchInvariant, PTL DEF Spec

\* Nothing is scheduled or reserved once the deadline has passed or the operation has
\* ended, and an operation that has ended stays as it ended.
THEOREM DeadlineIsFinal == Spec => DeadlineAndTerminalAreFinal
<1>1. ASSUME RoutingInv, Step, overdue => db.op.state # "absent",
             overdue \/ (db.op.state # "absent" /\ ~Live(db.op))
      PROVE  /\ \A a \in AttemptId : ~newlyScheduled(a) /\ ~newlyReserved(a)
             /\ ~Live(db.op) => db'.op.state = db.op.state
  <2>1. \A a \in AttemptId : ~newlyScheduled(a) /\ ~newlyReserved(a)
    BY <1>1, StepFacts DEF Reserved, Live
  <2>2. QED
    BY <1>1, <2>1, OperationFacts DEF Live
<1>2. QED
  BY <1>1, RoutingInvariant, DeadlineOfSomething, PTL DEF DeadlineAndTerminalAreFinal

\* A delivery ends automatic routing of its revision, whichever report brought it and
\* whatever else was under way.
THEOREM DeliveryEndsFallback == Spec => NoFallbackAfterDelivery
<1>1. ASSUME RoutingInv, Step
      PROVE  \A a, b \in AttemptId :
               /\ newlyScheduled(a) \/ newlyReserved(a)
               /\ db'.attempts[a].reason = "fallback"
               => ~(/\ db.attempts[b].state = "delivered"
                    /\ db.attempts[b].routing_revision = db'.attempts[a].routing_revision)
  <2> SUFFICES ASSUME NEW a \in AttemptId, NEW b \in AttemptId,
                      newlyScheduled(a) \/ newlyReserved(a),
                      db'.attempts[a].reason = "fallback",
                      db.attempts[b].state = "delivered",
                      db.attempts[b].routing_revision = db'.attempts[a].routing_revision
               PROVE  FALSE
    OBVIOUS
  <2>1. CASE newlyScheduled(a)
    BY <1>1, <2>1, StepFacts DEF RoutingInv, Routes, Stopped
  <2>2. CASE newlyReserved(a)
    <3>1. PICK job \in db.jobs : a = job.attemptId /\ Reserved(job)
      BY <1>1, <2>2, StepFacts
    <3>2. /\ db'.attempts[a].reason = db.attempts[a].reason
          /\ db'.attempts[a].routing_revision = db.attempts[a].routing_revision
      BY <1>1, <3>1 DEF Reserved, reserve, RoutingInv, Routes, Rows, Attempt
    <3>3. /\ db.op.routing_revision = db.attempts[a].routing_revision
          /\ db.attempts[a].reason = "fallback" => ~db.op.automatic_stopped
      BY <3>1 DEF Reserved, eligible, stale
    <3>4. QED
      BY <1>1, <3>2, <3>3 DEF RoutingInv, Routes, Stopped
  <2>3. QED
    BY <1>1, <2>1, <2>2
<1>2. QED
  BY <1>1, RoutingInvariant, PTL DEF NoFallbackAfterDelivery

(***************************************************************************)
(* The refinement.  An attempt's entry in the ledger of SendContract is    *)
(* its row and the calls made for it; AttemptOK leaves one way to read it. *)
(***************************************************************************)
entry(a) == ledgerOf(db.attempts[a], sends[a])

LEMMA Entries ==
  ASSUME NEW x \in Attempt, NEW n \in Nat, NEW h, AttemptOK(x, n, h)
  PROVE  /\ ledgerOf(x, n) =
              IF ~x.committed
              THEN IF x.invocation = "not_invoked" THEN "void" ELSE "open"
              ELSE IF x.invocation = "not_invoked" THEN "spent"
              ELSE IF n = 1 THEN "sent" ELSE "granted"
         /\ x.invocation = "not_invoked" => n = 0
         /\ ~x.committed => n = 0
<1>1. n = 0 \/ n = 1
  BY DEF AttemptOK
<1>2. x.invocation \in {"not_started", "committed", "not_invoked"} /\ x.committed \in BOOLEAN
  BY DEF Attempt
<1>3. CASE ~x.committed
  <2>1. n = 0 /\ x.invocation # "committed"
    BY <1>3 DEF AttemptOK
  <2>2. QED
    BY <1>2, <1>3, <2>1 DEF ledgerOf
<1>4. CASE x.committed
  <2>1. x.invocation # "not_started" /\ (x.invocation = "not_invoked" => n = 0)
    BY <1>4 DEF AttemptOK
  <2>2. QED
    BY <1>1, <1>2, <1>4, <2>1 DEF ledgerOf
<1>5. QED
  BY <1>2, <1>3, <1>4

\* The same of the rows as they are.
EntryOK(a) ==
  LET x == db.attempts[a] IN
  /\ x \in Attempt
  /\ sends[a] \in {0, 1}
  /\ entry(a) =
       IF ~x.committed
       THEN IF x.invocation = "not_invoked" THEN "void" ELSE "open"
       ELSE IF x.invocation = "not_invoked" THEN "spent"
       ELSE IF sends[a] = 1 THEN "sent" ELSE "granted"
  /\ x.invocation = "not_invoked" \/ ~x.committed => sends[a] = 0

EntriesOK == \A a \in AttemptId : EntryOK(a)

LEMMA EntriesNow == RoutingInv => EntriesOK
<1> SUFFICES ASSUME RoutingInv, NEW a \in AttemptId PROVE EntryOK(a)
  BY DEF EntriesOK
<1>1. /\ db.attempts[a] \in Attempt /\ sends[a] \in Nat
      /\ AttemptOK(db.attempts[a], sends[a], a \in inFlight)
  BY DEF RoutingInv, DispatchInv, TypeOK, RowsOK, Rows
<1>2. sends[a] \in {0, 1}
  BY <1>1 DEF AttemptOK
<1>3. QED
  BY <1>1, <1>2, Entries DEF EntryOK, entry

\* Calls are made only by workers, one call at a time, and change no row.
LEMMA SendsFacts ==
  ASSUME RoutingInv, [Next]_vars
  PROVE  \/ sends' = sends
         \/ db' = db /\ \E a \in AttemptId : sends' = [sends EXCEPT ![a] = @ + 1]
<1>1. CASE UNCHANGED vars
  BY <1>1 DEF vars
<1>2. CASE Commands
  BY <1>2 DEF Commands, Prepare, Create, SubmitCode, SubmitCodeRejected, RequestSend, Close,
              Invalidate, Expire, workerVars
<1>3. ASSUME NEW w \in Worker, NEW job \in db.jobs, Gate(w, job)
      PROVE  sends' = sends
  BY <1>3 DEF Gate, GateDuplicate, GateSuppress, GateRefused, GateUnavailable, GateReserve,
              gateCloses, workerVars
<1>4. ASSUME NEW w \in Worker, Dispatch(w)
      PROVE  \/ sends' = sends
             \/ db' = db /\ \E a \in AttemptId : sends' = [sends EXCEPT ![a] = @ + 1]
  <2>1. CASE Send(w)
    <3>1. held[w].attemptId \in AttemptId
      BY <2>1 DEF RoutingInv, DispatchInv, WorkersOK, Send, Job
    <3>2. QED
      BY <2>1, <3>1 DEF Send
  <2>2. CASE ~Send(w)
    BY <1>4, <2>2 DEF Dispatch, SkipSend, SendFailed, SendAccepted, Crash, Finish
  <2>3. QED
    BY <2>1, <2>2
<1>5. CASE Background
  BY <1>5 DEF Background, Callback, recoverDispatches, PassDeadline, WithdrawProject,
              RestoreProject, WithdrawPolicy, RestorePolicy, workerVars
<1>6. QED
  BY <1>1, <1>2, <1>3, <1>4, <1>5 DEF Next

\* What a step does to the row of one attempt, as far as the ledger can tell.
LEMMA RowFacts ==
  ASSUME RoutingInv, RoutingInv', Step, NEW a \in AttemptId
  PROVE  \/ /\ db'.attempts[a].committed = db.attempts[a].committed
            /\ db'.attempts[a].invocation \in {db.attempts[a].invocation, "not_invoked"}
         \/ /\ ~db.attempts[a].committed /\ db.attempts[a].invocation = "not_started"
            /\ db'.attempts[a].committed /\ db'.attempts[a].invocation = "committed"
            /\ newlyReserved(a)
<1> DEFINE x == db.attempts[a]
           y == db'.attempts[a]
           kept == y.committed = x.committed /\ y.invocation \in {x.invocation, "not_invoked"}
<1>1. /\ db \in Rows /\ (Live(expired(db).op) => expired(db) = db) /\ Quiet(db, expired(db))
      /\ x \in Attempt /\ AttemptOK(x, sends[a], a \in inFlight)
  BY Foundations DEF RowsOK, Rows
<1>2. CASE Quiet(db, db')
  BY <1>2 DEF Quiet, Aged
<1>3. CASE Quiet(expired(db), db')
  BY <1>1, <1>2, <1>3, QuietTransitive
<1>4. ASSUME NEW r \in Rows, NEW id \in fresh(r), NEW position, NEW reason, NEW intent,
             Aged(db.attempts, r.attempts), db' = schedule(r, id, position, reason, intent)
      PROVE  kept
  <2>1. CASE a = id
    <3>1. x.state = "unused"
      BY <1>4, <2>1 DEF fresh, Aged
    <3>2. ~y.committed /\ y.invocation = "not_started"
      BY <1>4, <2>1 DEF schedule, Rows
    <3>3. QED
      BY <1>1, <3>1, <3>2 DEF AttemptOK, RoutingInv, DispatchInv, RowsOK, Rows, Attempt
  <2>2. CASE a # id
    <3>1. y = r.attempts[a]
      BY <1>4, <2>2 DEF schedule, Rows
    <3>2. QED
      BY <1>4, <3>1 DEF Aged
  <2>3. QED
    BY <2>1, <2>2
<1>5. CASE Fallback(expired(db), db')
  <2>1. PICK r \in Rows : \E id \in fresh(r), position \in Position, intent \in Intent :
          /\ Quiet(expired(db), r)
          /\ db' = schedule(r, id, position, "fallback", intent)
    BY <1>5 DEF Fallback
  <2>2. Aged(db.attempts, r.attempts)
    BY <1>1, <2>1, AgedTransitive DEF Quiet
  <2>3. QED
    BY <1>4, <2>1, <2>2
<1>6. CASE Scheduled
  BY <1>4, <1>6 DEF Scheduled
<1>7. CASE Opened
  BY <1>7 DEF Opened
<1>8. ASSUME NEW job \in db.jobs, Reserved(job)
      PROVE  \/ y = x
             \/ /\ ~x.committed /\ x.invocation = "not_started"
                /\ y.committed /\ y.invocation = "committed"
                /\ newlyReserved(a)
  <2>1. db' = reserve(db, job.attemptId) /\ db.attempts[job.attemptId].state = "pending"
    BY <1>8 DEF Reserved
  <2>2. CASE a # job.attemptId
    BY <1>1, <2>1, <2>2 DEF reserve, Rows
  <2>3. CASE a = job.attemptId
    <3>1. y = [x EXCEPT !.state = "dispatching", !.acceptance = "unknown",
                        !.invocation = "committed", !.committed = TRUE]
      BY <1>1, <2>1, <2>3 DEF reserve, Rows
    <3>2. ~x.committed /\ x.invocation = "not_started"
      BY <1>1, <2>1, <2>3 DEF AttemptOK
    <3>3. y.committed /\ y.invocation = "committed"
      BY <1>1, <3>1 DEF Attempt
    <3>4. QED
      BY <3>2, <3>3 DEF newlyReserved
  <2>4. QED
    BY <2>2, <2>3
<1>9. QED
  BY <1>2, <1>3, <1>5, <1>6, <1>7, <1>8 DEF Step, Evidence

\* Each entry moves as the contract allows, and becomes a grant only by a reservation.
LEMMA EntryMoves ==
  ASSUME RoutingInv, RoutingInv', Step, [Next]_vars, NEW a \in AttemptId
  PROVE  /\ entry(a) \in Contract!Entry /\ entry(a)' \in Contract!Entry
         /\ entry(a)' = entry(a) \/ <<entry(a), entry(a)'>> \in Contract!Move
         /\ entry(a) # "granted" /\ entry(a)' = "granted" => newlyReserved(a)
         /\ newlyReserved(a) => sends' = sends
<1>1. EntryOK(a) /\ EntryOK(a)'
  <2>1. EntriesOK'
    BY EntriesNow, PTL
  <2>2. QED
    BY <2>1, EntriesNow DEF EntriesOK
<1>2. CASE sends' = sends
  <2>1. sends'[a] = sends[a]
    BY <1>2
  <2>2. QED
    BY <1>1, <1>2, <2>1, RowFacts DEF EntryOK, Contract!Entry, Contract!Move, Attempt
<1>3. ASSUME db' = db, NEW b \in AttemptId, sends' = [sends EXCEPT ![b] = @ + 1]
      PROVE  /\ entry(a) \in Contract!Entry /\ entry(a)' \in Contract!Entry
             /\ entry(a)' = entry(a) \/ <<entry(a), entry(a)'>> \in Contract!Move
             /\ entry(a)' = "granted" => entry(a) = "granted"
             /\ ~newlyReserved(a)
  <2>1. sends'[a] = IF a = b THEN sends[a] + 1 ELSE sends[a]
    BY <1>3 DEF RoutingInv, DispatchInv, TypeOK
  <2>2. ~newlyReserved(a)
    BY <1>3 DEF newlyReserved
  <2>3. QED
    BY <1>1, <1>3, <2>1, <2>2 DEF EntryOK, Contract!Entry, Contract!Move, Attempt
<1>4. QED
  BY <1>2, <1>3, SendsFacts

\* At most one grant a step, within the budget and while the operation is active.
LEMMA GrantFacts ==
  ASSUME RoutingInv, RoutingInv', Step, [Next]_vars, NEW a \in AttemptId,
         entry(a) # "granted", entry(a)' = "granted"
  PROVE  /\ db.op.state = "active" /\ db'.op.state = "active"
         /\ Cardinality(committed(db)) < MaxSends
         /\ \A b \in AttemptId : entry(b) # "granted" /\ entry(b)' = "granted" => b = a
<1>1. PICK job \in db.jobs : a = job.attemptId /\ Reserved(job)
  BY EntryMoves, StepFacts
<1>2. /\ db.op.state = "active" /\ Cardinality(committed(db)) < MaxSends
      /\ db' = reserve(db, a)
  BY <1>1 DEF Reserved, send_count
<1>3. db'.op = db.op /\ \A b \in AttemptId : b # a => db'.attempts[b] = db.attempts[b]
  BY <1>2 DEF reserve, RoutingInv, Routes, Rows
<1>4. \A b \in AttemptId : b # a => ~newlyReserved(b)
  BY <1>3 DEF newlyReserved
<1>5. QED
  BY <1>2, <1>3, <1>4, EntryMoves

LEMMA CountedIsCommitted ==
  ASSUME RoutingInv
  PROVE  Contract!counted = committed(db)
<1>1. \A a \in AttemptId : (entry(a) \in {"granted", "sent", "spent"}) = db.attempts[a].committed
  BY EntriesNow DEF EntriesOK, EntryOK, Attempt
<1>2. QED
  BY <1>1 DEF Contract!counted, committed, entry

\* The contract counts as the delivery does.
LEMMA SameCardinality == \A S : Contract!Cardinality(S) = Cardinality(S)
BY DEF Contract!Cardinality, Cardinality

\* The delivery of an operation, with its queue, crashes, evidence and administration,
\* implements the send contract: one transmission at most for each grant, grants only
\* while the operation is active and within its budget, and no way back.
THEOREM DeliveryImplementsContract == Spec => ImplementsContract
<1> DEFINE ledger == [a \in AttemptId |-> ledgerOf(db.attempts[a], sends[a])]
           phase == phaseOf(db.op)
<1>1. Init /\ RoutingInv => Contract!Init
  <2> SUFFICES ASSUME Init, RoutingInv PROVE Contract!Init
    OBVIOUS
  <2>1. \A a \in AttemptId : entry(a) = "open"
    BY EntriesNow DEF EntriesOK, EntryOK, Init, Unused
  <2>2. phase = "new"
    BY DEF Init, phaseOf
  <2>3. QED
    BY <2>1, <2>2 DEF Contract!Init, entry
<1>2. RoutingInv /\ RoutingInv' /\ Step /\ [Next]_vars
        => [Contract!Next]_<<ledger, phase>>
  <2> SUFFICES ASSUME RoutingInv, RoutingInv', Step, [Next]_vars PROVE Contract!Next
    OBVIOUS
  <2>1. \A a \in AttemptId : ledger[a] = entry(a) /\ ledger'[a] = entry(a)'
    BY DEF entry
  <2>2. ledger' \in [AttemptId -> Contract!Entry]
    BY EntryMoves DEF entry
  <2>3. \A a \in AttemptId : ledger'[a] = ledger[a] \/ <<ledger[a], ledger'[a]>> \in Contract!Move
    BY <2>1, EntryMoves
  <2>4. \/ phase' = phase
        \/ phase = "new" /\ phase' \in {"sending", "ended"}
        \/ phase = "sending" /\ phase' = "ended"
    BY OperationFacts DEF phaseOf, Live
  <2>5. ASSUME Contract!grants # {}
        PROVE  /\ phase = "sending" /\ phase' = "sending"
               /\ Cardinality(Contract!grants) = 1
               /\ Cardinality(Contract!counted) < MaxSends
    <3>1. PICK a \in AttemptId : entry(a) # "granted" /\ entry(a)' = "granted"
      BY <2>1, <2>5 DEF Contract!grants
    <3>2. Contract!grants = {a}
      BY <2>1, <3>1, GrantFacts DEF Contract!grants
    <3>3. Cardinality({a}) = 1
      BY FS_Singleton
    <3>4. QED
      BY <3>1, <3>2, <3>3, GrantFacts, CountedIsCommitted DEF phaseOf
  <2>6. QED
    BY <2>2, <2>3, <2>4, <2>5, SameCardinality DEF Contract!Next
<1>3. ASSUME UNCHANGED vars PROVE UNCHANGED <<ledger, phase>>
  BY <1>3 DEF vars
<1>4. QED
  BY <1>1, <1>2, <1>3, RoutingInvariant, PTL DEF ImplementsContract, Contract!Spec, Spec

=============================================================================
