------------------------ MODULE NotificationsProofs ------------------------
(***************************************************************************)
(* Proofs about notifications, for every number of handlers, every limit   *)
(* of attempts and every number of replays.                                *)
(***************************************************************************)
EXTENDS Notifications, TLAPS

HandlerRecord == [step : {"idle", "retry", "sending", "answered"},
                  attempt : 0 .. attemptLimit,
                  answer : Answers,
                  round : 0 .. MaxReplays]

\* A handler at work belongs to a past or the present round, and in the present one
\* to an attempt that was claimed; an acknowledgement it holds was given.
HandlersOK ==
  \A h \in Handler : busy(h) =>
    /\ handler[h].round <= replays
    /\ handler[h].round = replays => handler[h].attempt <= row.attempts
    /\ handler[h].answer = "acknowledged" => acknowledged

\* The attempt under way has one handler at most, and no handler of an earlier round
\* has its number, so that the fence on the number suffices.
ClaimsOK ==
  /\ \A h1, h2 \in Handler : has(h1) /\ has(h2) => h1 = h2
  /\ row.state = "delivering" =>
       \A h \in Handler :
         busy(h) /\ handler[h].attempt = row.attempts => handler[h].round = replays

NotifyInv == TypeOK /\ RowConstraints /\ DeliveredIsAcknowledged /\ HandlersOK /\ ClaimsOK

LEMMA Records ==
  /\ idle \in HandlerRecord /\ retry \in HandlerRecord
  /\ idle.step = "idle" /\ retry.step = "retry"
  BY LimitAssumption, ReplaysAssumption DEF idle, retry, HandlerRecord, Answers

LEMMA InitNotify == Init => NotifyInv
<1>. SUFFICES ASSUME Init PROVE NotifyInv
  OBVIOUS
<1>1. /\ 0 \in 0 .. attemptLimit /\ 0 \in 0 .. MaxReplays
      /\ idle \in HandlerRecord
  BY Records, LimitAssumption, ReplaysAssumption
<1>2. TypeOK
  BY <1>1 DEF Init, TypeOK, HandlerRecord
<1>3. \A h \in Handler : ~busy(h)
  BY Records DEF Init, busy
<1>. QED BY <1>2, <1>3
         DEF Init, NotifyInv, RowConstraints, DeliveredIsAcknowledged, HandlersOK,
             ClaimsOK, has

\* A handler that stops leaves the others as they are.
LEMMA Stops ==
  ASSUME TypeOK, NEW h \in Handler, NEW r \in {idle, retry},
         handler' = [handler EXCEPT ![h] = r]
  PROVE  /\ handler' \in [Handler -> HandlerRecord]
         /\ \A g \in Handler : busy(g)' => /\ g # h /\ busy(g) /\ handler'[g] = handler[g]
  BY Records DEF TypeOK, HandlerRecord, busy

\* A change of the row that claims nothing, in a round that goes on.
LEMMA RowMoves ==
  ASSUME NotifyInv, replays' = replays, row'.attempts = row.attempts,
         row'.state = "delivering" => row.state = "delivering",
         acknowledged => acknowledged',
         \A g \in Handler : busy(g)' => busy(g) /\ handler'[g] = handler[g]
  PROVE  HandlersOK' /\ ClaimsOK'
  BY DEF NotifyInv, HandlersOK, ClaimsOK, has

LEMMA ClaimKeeps ==
  ASSUME NotifyInv, NEW h \in Handler, Claim(h)
  PROVE  NotifyInv'
<1>. DEFINE n == row.attempts + 1
            r == [step |-> "sending", attempt |-> n, answer |-> "none", round |-> replays]
<1>. USE LimitAssumption, ReplaysAssumption
<1>1. /\ row.attempts < attemptLimit
      /\ row' = [row EXCEPT !.state = "delivering", !.attempts = n, !.lease = "running"]
      /\ handler' = [handler EXCEPT ![h] = r]
      /\ acknowledged' = acknowledged /\ replays' = replays
      /\ waiting' \in BOOLEAN
      /\ row.state \in {"pending", "delivering"}
      /\ ~busy(h)
  BY DEF Claim, claimable, overdue, starts, NotifyInv, TypeOK, busy
<1>2. TypeOK'
  <2>1. n \in 0 .. attemptLimit
    BY <1>1 DEF NotifyInv, TypeOK
  <2>2. r \in HandlerRecord
    BY <2>1 DEF HandlerRecord, Answers, NotifyInv, TypeOK
  <2>3. handler' \in [Handler -> HandlerRecord]
    BY <1>1, <2>2 DEF NotifyInv, TypeOK, HandlerRecord
  <2>. QED BY <1>1, <2>1, <2>3 DEF NotifyInv, TypeOK, HandlerRecord
<1>3. RowConstraints' /\ DeliveredIsAcknowledged'
  BY <1>1 DEF NotifyInv, TypeOK, RowConstraints, DeliveredIsAcknowledged
<1>4. \A g \in Handler : g # h => handler'[g] = handler[g] /\ (busy(g)' <=> busy(g))
  BY <1>1 DEF NotifyInv, TypeOK, busy
<1>5. handler'[h] = r /\ row'.attempts = n /\ row'.state = "delivering"
  BY <1>1 DEF NotifyInv, TypeOK
<1>6. HandlersOK'
  BY <1>1, <1>4, <1>5 DEF NotifyInv, TypeOK, HandlersOK
<1>7. \A g \in Handler : busy(g) /\ handler[g].attempt = n => handler[g].round = replays
  BY DEF Claim, noneLeft
<1>8. \A g \in Handler : g # h /\ busy(g) => handler[g].attempt # n
  BY <1>7 DEF NotifyInv, TypeOK, HandlersOK
<1>9. ClaimsOK'
  BY <1>1, <1>4, <1>5, <1>8 DEF ClaimsOK, has
<1>. QED BY <1>2, <1>3, <1>6, <1>9 DEF NotifyInv

LEMMA CallKeeps ==
  ASSUME NotifyInv, NEW h \in Handler, NEW answer \in Answers, NEW acks \in BOOLEAN,
         Call(h, answer, acks)
  PROVE  NotifyInv'
<1>1. /\ handler' = [handler EXCEPT ![h] =
                       [handler[h] EXCEPT !.step = "answered", !.answer = answer]]
      /\ handler[h].step = "sending"
      /\ answer = "acknowledged" => acknowledged'
      /\ acknowledged => acknowledged'
      /\ acknowledged' \in BOOLEAN
      /\ UNCHANGED <<row, waiting, replays>>
  BY DEF Call, NotifyInv, TypeOK
<1>2. TypeOK' /\ RowConstraints' /\ DeliveredIsAcknowledged'
  BY <1>1 DEF NotifyInv, TypeOK, RowConstraints, DeliveredIsAcknowledged
<1>3. \A g \in Handler : /\ busy(g)' <=> busy(g)
                         /\ handler'[g].attempt = handler[g].attempt
                         /\ handler'[g].round = handler[g].round
                         /\ handler'[g].answer \in {handler[g].answer, answer}
  BY <1>1 DEF NotifyInv, TypeOK, busy
<1>4. HandlersOK' /\ ClaimsOK'
  BY <1>1, <1>3 DEF NotifyInv, HandlersOK, ClaimsOK, has
<1>. QED BY <1>2, <1>4 DEF NotifyInv

LEMMA FinishKeeps ==
  ASSUME NotifyInv, NEW h \in Handler, Finish(h)
  PROVE  NotifyInv'
<1>. DEFINE state == finished(handler[h].answer, handler[h].attempt)
<1>1. /\ row' = [row EXCEPT !.state = state, !.due = FALSE, !.lease = "none",
                            !.delivered_at = succeeded(handler[h].answer)]
      /\ state \in {"delivered", "failed", "pending"}
      /\ state = "delivered" <=> succeeded(handler[h].answer)
      /\ waiting' \in BOOLEAN
      /\ handler' = [handler EXCEPT ![h] = idle]
      /\ UNCHANGED <<acknowledged, replays>>
  BY DEF Finish, finished, NotifyInv, TypeOK
<1>2. busy(h)
  BY DEF Finish, busy
<1>3. /\ handler' \in [Handler -> HandlerRecord]
      /\ \A g \in Handler : busy(g)' => busy(g) /\ handler'[g] = handler[g]
  BY <1>1, Stops DEF NotifyInv
<1>4. TypeOK' /\ RowConstraints'
  BY <1>1, <1>3 DEF NotifyInv, TypeOK, RowConstraints, HandlerRecord, succeeded
<1>5. DeliveredIsAcknowledged'
  BY <1>1, <1>2 DEF NotifyInv, TypeOK, DeliveredIsAcknowledged, HandlersOK, succeeded
<1>6. HandlersOK' /\ ClaimsOK'
  <2>1. row'.attempts = row.attempts /\ row'.state # "delivering"
    BY <1>1 DEF NotifyInv, TypeOK
  <2>. QED BY <1>1, <1>3, <2>1, RowMoves
<1>. QED BY <1>4, <1>5, <1>6 DEF NotifyInv

\* The steps that end a handler and leave the row.
LEMMA LeaveKeeps ==
  ASSUME NotifyInv, NEW h \in Handler, NEW r \in {idle, retry},
         handler' = [handler EXCEPT ![h] = r],
         acknowledged => acknowledged', acknowledged' \in BOOLEAN, waiting' \in BOOLEAN,
         UNCHANGED <<row, replays>>
  PROVE  NotifyInv'
<1>1. /\ handler' \in [Handler -> HandlerRecord]
      /\ \A g \in Handler : busy(g)' => busy(g) /\ handler'[g] = handler[g]
  BY Stops DEF NotifyInv
<1>2. HandlersOK' /\ ClaimsOK'
  BY <1>1, RowMoves
<1>. QED BY <1>1, <1>2
         DEF NotifyInv, TypeOK, RowConstraints, DeliveredIsAcknowledged, HandlerRecord

\* Recovery and time change the row and leave the handlers.
LEMMA BackgroundKeeps ==
  ASSUME NotifyInv, recoverNotifications \/ BackoffEnds \/ LeaseEnds \/ cleanupEvents
  PROVE  NotifyInv'
<1>1. /\ UNCHANGED <<handler, acknowledged, replays>>
      /\ row'.attempts = row.attempts
      /\ row'.state = "delivering" => row.state = "delivering"
  BY DEF recoverNotifications, failExhausted, BackoffEnds, LeaseEnds, cleanupEvents,
         NotifyInv, TypeOK
<1>2. TypeOK' /\ RowConstraints' /\ DeliveredIsAcknowledged'
  BY DEF recoverNotifications, failExhausted, exhausted, overdue, BackoffEnds, LeaseEnds,
         cleanupEvents, NotifyInv, TypeOK, RowConstraints, DeliveredIsAcknowledged
<1>3. HandlersOK' /\ ClaimsOK'
  BY <1>1, RowMoves DEF busy
<1>. QED BY <1>2, <1>3 DEF NotifyInv

\* A replay starts a round in which no handler has a claim.
LEMMA ReplayKeeps ==
  ASSUME NotifyInv, replayNotification
  PROVE  NotifyInv'
<1>. USE LimitAssumption, ReplaysAssumption
<1>1. TypeOK' /\ RowConstraints' /\ DeliveredIsAcknowledged'
  <2>1. 0 \in 0 .. attemptLimit /\ replays' \in 0 .. MaxReplays
    BY DEF replayNotification, NotifyInv, TypeOK
  <2>2. /\ row'.state = "pending" /\ row'.lease = "none"
        /\ row'.delivered_at = row.delivered_at /\ row.state = "failed"
    BY DEF replayNotification, replayable, NotifyInv, TypeOK
  <2>3. TypeOK'
    BY <2>1 DEF replayNotification, NotifyInv, TypeOK
  <2>. QED BY <2>2, <2>3 DEF NotifyInv, RowConstraints, DeliveredIsAcknowledged
<1>2. \A h \in Handler : busy(h)' => busy(h) /\ handler'[h].round < replays'
  BY DEF replayNotification, NotifyInv, TypeOK, HandlersOK, busy
<1>3. HandlersOK'
  BY <1>2 DEF replayNotification, NotifyInv, TypeOK, HandlersOK
<1>4. ClaimsOK'
  BY <1>1, <1>2 DEF replayNotification, ClaimsOK, has, NotifyInv, TypeOK
<1>. QED BY <1>1, <1>3, <1>4 DEF NotifyInv

LEMMA NotifyKeeps ==
  ASSUME NotifyInv, [Next]_vars
  PROVE  NotifyInv'
<1>1. ASSUME NEW h \in Handler, Claim(h)
      PROVE  NotifyInv'
  BY <1>1, ClaimKeeps
<1>2. ASSUME NEW h \in Handler, ClaimNothing(h)
      PROVE  NotifyInv'
  BY <1>2, LeaveKeeps DEF ClaimNothing, starts, NotifyInv, TypeOK
<1>3. ASSUME NEW h \in Handler, NEW answer \in Answers \ {"none"}, NEW acks \in BOOLEAN,
             Call(h, answer, acks)
      PROVE  NotifyInv'
  BY <1>3, CallKeeps
<1>4. ASSUME NEW h \in Handler, Finish(h)
      PROVE  NotifyInv'
  BY <1>4, FinishKeeps
<1>5. ASSUME NEW h \in Handler, FinishStale(h)
      PROVE  NotifyInv'
  BY <1>5, LeaveKeeps DEF FinishStale, NotifyInv, TypeOK
<1>6. ASSUME NEW h \in Handler, NEW acks \in BOOLEAN, Crash(h, acks)
      PROVE  NotifyInv'
  <2>1. PICK next \in {idle, retry} : handler' = [handler EXCEPT ![h] = next]
    BY <1>6 DEF Crash
  <2>. QED BY <1>6, <2>1, LeaveKeeps DEF Crash, NotifyInv, TypeOK
<1>7. CASE recoverNotifications \/ BackoffEnds \/ LeaseEnds \/ cleanupEvents
  BY <1>7, BackgroundKeeps
<1>8. CASE replayNotification
  BY <1>8, ReplayKeeps
<1>9. CASE UNCHANGED vars
  BY <1>9 DEF vars, NotifyInv, TypeOK, RowConstraints, DeliveredIsAcknowledged,
              HandlersOK, ClaimsOK, busy, has
<1>. QED BY <1>1, <1>2, <1>3, <1>4, <1>5, <1>6, <1>7, <1>8, <1>9
         DEF Next, Take, Proceed

LEMMA NotifyInvariant == Spec => []NotifyInv
<1>. QED BY InitNotify, NotifyKeeps, PTL DEF Spec

-----------------------------------------------------------------------------
\* Every reachable state is well typed; in particular no claim is made beyond the
\* limit of attempts, whatever recovery and replay do.
THEOREM TypeCorrect == Spec => []TypeOK
<1>1. NotifyInv => TypeOK
  BY DEF NotifyInv
<1>. QED BY <1>1, NotifyInvariant, PTL

\* No statement breaks a CHECK constraint of notifications.
THEOREM ConstraintsHold == Spec => []RowConstraints
<1>1. NotifyInv => RowConstraints
  BY DEF NotifyInv
<1>. QED BY <1>1, NotifyInvariant, PTL

\* What is recorded as delivered, or was deleted, had been acknowledged.
THEOREM DeliveredWasAcknowledged == Spec => []DeliveredIsAcknowledged
<1>1. NotifyInv => DeliveredIsAcknowledged
  BY DEF NotifyInv
<1>. QED BY <1>1, NotifyInvariant, PTL

\* While a lease runs, only its end and the one handler with the claim touch the row.
THEOREM ClaimsAreExclusive == Spec => ClaimIsExclusive
<1>. DEFINE Exclusive ==
       row.lease = "running" /\ row' # row =>
         \/ row' = [row EXCEPT !.lease = "over"]
         \/ \E h \in Handler : /\ has(h) /\ handler'[h] = idle
                               /\ \A other \in Handler : has(other) => other = h
<1>1. NotifyInv /\ [Next]_vars => [Exclusive]_vars
  <2>. SUFFICES ASSUME NotifyInv, Next, row.lease = "running", row' # row
                PROVE  Exclusive
    BY DEF vars
  <2>1. row.state = "delivering"
    BY DEF NotifyInv, TypeOK, RowConstraints
  <2>2. ASSUME NEW h \in Handler, Finish(h)
        PROVE  Exclusive
    <3>1. busy(h) /\ handler[h].attempt = row.attempts /\ handler'[h] = idle
      BY <2>2 DEF Finish, fenced, busy, NotifyInv, TypeOK
    <3>2. has(h) /\ \A other \in Handler : has(other) => other = h
      BY <2>1, <3>1 DEF NotifyInv, ClaimsOK, has
    <3>. QED BY <3>1, <3>2
  <2>3. ~ \E h \in Handler : Claim(h)
    BY <2>1 DEF Claim, claimable, overdue
  <2>4. CASE recoverNotifications
    BY <2>1, <2>4 DEF recoverNotifications, failExhausted, exhausted
  <2>5. CASE LeaseEnds
    BY <2>5 DEF LeaseEnds
  <2>6. ~replayNotification /\ ~cleanupEvents /\ ~BackoffEnds
    BY <2>1 DEF replayNotification, replayable, cleanupEvents, BackoffEnds
  <2>. QED BY <2>2, <2>3, <2>4, <2>5, <2>6
           DEF Next, Take, Proceed, ClaimNothing, Call, FinishStale, Crash
<1>. QED BY <1>1, NotifyInvariant, PTL DEF Spec, ClaimIsExclusive

\* A delivered event is not claimed, retried or replayed any more.
THEOREM DeliveredStaysFinal == Spec => DeliveredIsFinal
<1>. DEFINE Final == row.state \in {"delivered", "deleted"}
                       => row'.state \in {row.state, "deleted"}
<1>1. TypeOK /\ [Next]_vars => [Final]_vars
  <2>. SUFFICES ASSUME TypeOK, Next, row.state \in {"delivered", "deleted"}
                PROVE  Final
    BY DEF vars
  <2>. QED BY DEF Next, Take, Proceed, Claim, claimable, overdue, ClaimNothing, Call, Finish,
                  fenced, FinishStale, Crash, recoverNotifications, failExhausted,
                  exhausted, replayNotification, replayable, cleanupEvents, BackoffEnds,
                  LeaseEnds, TypeOK
<1>. QED BY <1>1, TypeCorrect, PTL DEF Spec, DeliveredIsFinal
=============================================================================
