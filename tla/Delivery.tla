------------------------------ MODULE Delivery ------------------------------
(***************************************************************************)
(* The delivery of one operation: its lifecycle, its provider attempts,    *)
(* the queue jobs, the workers that dispatch them, the provider callbacks, *)
(* recovery and expiry.                                                    *)
(*                                                                         *)
(* Every domain command of the engine is one database transaction that     *)
(* locks the operation row, so a command is one atomic step on db, the     *)
(* committed rows of this operation.  What is not atomic is a dispatch:    *)
(* the gate transaction, the provider call and the transaction that        *)
(* records its outcome are separate steps of a worker, which can crash     *)
(* between any two of them.                                                *)
(*                                                                         *)
(* The queue delivers a job at least once, and again after a lost          *)
(* acknowledgement, an expired claim or a recovery sweep, so a worker may  *)
(* open the gate for any job ever enqueued, at any time, any number of     *)
(* times or never.                                                         *)
(*                                                                         *)
(* Time is one fact, that the deadline of the operation has passed, and a  *)
(* free choice of the moment when recovery_at passes.  Quotas, cooldowns,  *)
(* provider restrictions and instance lifecycles decide which route steps  *)
(* are ready at a moment; they are a free choice at each use as well.      *)
(***************************************************************************)
EXTENDS Integers, FiniteSets, Decision

CONSTANTS
  AttemptId,          \* identifiers an attempt can be given
  NoAttempt,          \* current_attempt_id IS NULL
  Worker,             \* concurrent handlers of the delivery queue
  NoJob,              \* an idle worker's job
  RouteLength,        \* number of saved route steps
  MaxSends,           \* snapshot.maxSends
  FallbackEnabled,    \* snapshot.policy.fallback = "confirmed_failure"
  MaxEpoch,           \* bound: how often an authority is withdrawn
  MaxRevision         \* bound: the routing revision up to which a caller sends again

ASSUME NoAttemptAssumption == NoAttempt \notin AttemptId
ASSUME NoJobAssumption     == NoJob \notin [attemptId : AttemptId, routingRevision : Nat]
ASSUME RouteAssumption     == RouteLength \in Nat \ {0}
ASSUME MaxSendsAssumption  == MaxSends \in Nat \ {0}
ASSUME FallbackAssumption  == FallbackEnabled \in BOOLEAN
ASSUME MaxEpochAssumption  == MaxEpoch \in Nat
ASSUME MaxRevisionAssumption == MaxRevision \in Nat

VARIABLES
  db,         \* committed rows: op, attempts (a function on the ids used), jobs
  pc,         \* step of each worker's dispatch
  held,       \* the job each worker dispatches
  sends,      \* provider.send calls made for each attempt
  authority,  \* the sending authority the transactions read
  overdue     \* clock_timestamp() >= expires_at

vars == <<db, pc, held, sends, authority, overdue>>

Position  == 0 .. RouteLength - 1
Job       == [attemptId : AttemptId, routingRevision : Nat]
Authority == [project : BOOLEAN, projectEpoch : Nat, policy : BOOLEAN, policyEpoch : Nat]
Intent    == [projectEpoch : Nat, policyEpoch : Nat]
Operation == [state : {"absent", "prepared", "active", "closed", "expired"},
              routing_revision : Nat,
              automatic_stopped : BOOLEAN,
              recipient_invalid : BOOLEAN,
              current_attempt_id : AttemptId \cup {NoAttempt},
              initial_position : Position,
              code : {"none", "attached", "erased"}]
Attempt   == [state : AttemptState \cup {"unused"},
              invocation : {"not_started", "committed", "not_invoked"},
              acceptance : Acceptance,
              committed : BOOLEAN,
              reason : Reason,
              routing_revision : Nat,
              route_position : Position,
              intent : Intent]

\* An id no row has yet.
Unused == [state |-> "unused", invocation |-> "not_started", acceptance |-> "null",
           committed |-> FALSE, reason |-> "initial", routing_revision |-> 0,
           route_position |-> 0, intent |-> [projectEpoch |-> 0, policyEpoch |-> 0]]

TypeOK ==
  /\ db \in [op : Operation, attempts : [AttemptId -> Attempt], jobs : SUBSET Job]
  /\ pc \in [Worker -> {"idle", "reserved", "invoking"}]
  /\ held \in [Worker -> Job \cup {NoJob}]
  /\ sends \in [AttemptId -> Nat]
  /\ authority \in Authority
  /\ overdue \in BOOLEAN

-----------------------------------------------------------------------------
(***************************************************************************)
(* Reading the rows.                                                       *)
(***************************************************************************)
Live(op)      == op.state \in {"prepared", "active"}
committed(s)  == {a \in AttemptId : s.attempts[a].committed}
send_count(s) == Cardinality(committed(s))
fresh(s)      == {a \in AttemptId : s.attempts[a].state = "unused"}

capturedAuthority == [projectEpoch |-> authority.projectEpoch,
                      policyEpoch  |-> authority.policyEpoch]

intentEligible(intent) ==
  /\ authority.project /\ authority.projectEpoch = intent.projectEpoch
  /\ authority.policy  /\ authority.policyEpoch  = intent.policyEpoch

\* Mutant: the search starts at the current step.
nextProvider_fromCurrent(ready, position) ==
  {p \in ready : p >= position /\ \A q \in ready : q >= position => p <= q}
\* Of the ready steps after position, the first in route order.
nextProvider(ready, position) ==
  {p \in ready : p > position /\ \A q \in ready : q > position => p <= q}

(***************************************************************************)
(* Row updates that the transactions share.                                *)
(***************************************************************************)
suppressPendingAttempts(attempts, reasons) ==
  [a \in AttemptId |->
     IF attempts[a].state = "pending" /\ attempts[a].reason \in reasons
     THEN [attempts[a] EXCEPT !.state = "suppressed", !.invocation = "not_invoked"]
     ELSE attempts[a]]

\* Mutant: the pending attempts of a finished operation are left for the gate.
terminate_keepsPending(s, state) ==
  [s EXCEPT !.op = [s.op EXCEPT !.state = state,
                                !.routing_revision = s.op.routing_revision + 1,
                                !.automatic_stopped = TRUE,
                                !.code = "erased"]]
terminate(s, state) ==
  [s EXCEPT !.op = [s.op EXCEPT !.state = state,
                                !.routing_revision = s.op.routing_revision + 1,
                                !.automatic_stopped = TRUE,
                                !.code = "erased"],
            !.attempts = suppressPendingAttempts(s.attempts, Reason)]

\* Mutant: expiry is left to the expiry job.
expired_byJobOnly(s) == s
\* What every transaction sees after locking the operation: logical expiry first.
expired(s) == IF Live(s.op) /\ overdue THEN terminate(s, "expired") ELSE s

schedule(s, id, position, reason, intent) ==
  [s EXCEPT !.attempts = [s.attempts EXCEPT ![id] =
                [state |-> "pending", invocation |-> "not_started", acceptance |-> "null",
                 committed |-> FALSE, reason |-> reason,
                 routing_revision |-> s.op.routing_revision,
                 route_position |-> position, intent |-> intent]],
            !.op = [s.op EXCEPT !.current_attempt_id = id],
            !.jobs = s.jobs \cup {[attemptId |-> id,
                                   routingRevision |-> s.op.routing_revision]}]

suppressed(s, a) ==
  [s EXCEPT !.attempts = [s.attempts EXCEPT ![a] =
     [s.attempts[a] EXCEPT !.state = "suppressed", !.invocation = "not_invoked"]]]

\* Mutant: recovery puts the attempt back to work.
recovered_requeued(s, S) ==
  [s EXCEPT !.attempts =
     [a \in AttemptId |->
        IF a \in S /\ s.attempts[a].state = "dispatching"
        THEN [s.attempts[a] EXCEPT !.state = "pending"]
        ELSE s.attempts[a]]]
\* Mutant: recovery takes a silent worker for one that never sent.
recovered_asNotInvoked(s, S) ==
  [s EXCEPT !.attempts =
     [a \in AttemptId |->
        IF a \in S /\ s.attempts[a].state = "dispatching"
        THEN [s.attempts[a] EXCEPT !.state = "uncertain", !.invocation = "not_invoked"]
        ELSE s.attempts[a]]]
\* Attempts whose dispatch nobody resolved in time become uncertain, never pending.
recovered(s, S) ==
  [s EXCEPT !.attempts =
     [a \in AttemptId |->
        IF a \in S /\ s.attempts[a].state = "dispatching"
        THEN [s.attempts[a] EXCEPT !.state = "uncertain", !.acceptance = "unknown"]
        ELSE s.attempts[a]]]

(***************************************************************************)
(* mergeLockedOutcome: record the evidence, flag the operation, suppress   *)
(* what the evidence supersedes, and advance the route on a new confirmed  *)
(* failure of the current attempt.  The value is the set of the results,   *)
(* one for each fresh id and each set of ready steps.                      *)
(***************************************************************************)
recordedEvidence(s, a, outcome) ==
  LET attempt == s.attempts[a] IN
  IF ~applies(attempt, outcome)
  THEN [s EXCEPT !.attempts = [s.attempts EXCEPT ![a] =
          [attempt EXCEPT !.invocation =
             IF outcome.notInvoked THEN "not_invoked" ELSE attempt.invocation]]]
  ELSE [s EXCEPT
          !.attempts = suppressPendingAttempts(
             [s.attempts EXCEPT ![a] =
                [attempt EXCEPT
                   !.state = outcome.state,
                   !.acceptance = mergedAcceptance(attempt, outcome),
                   !.invocation = IF outcome.notInvoked THEN "not_invoked"
                                  ELSE attempt.invocation]],
             suppressPending(attempt, outcome)),
          !.op = IF stopAutomatic(s.op, attempt, outcome)
                 THEN [s.op EXCEPT
                         !.automatic_stopped = TRUE,
                         !.recipient_invalid = recipientInvalid(s.op, attempt, outcome)]
                 ELSE s.op]

advances(s, a, outcome) ==
  /\ advance(s.op, a, s.attempts[a], outcome)
  /\ FallbackEnabled
  /\ intentEligible(s.attempts[a].intent)
  /\ send_count(s) < MaxSends

fallbacks(s, a, ready) ==
  {schedule(s, id, p, "fallback", s.attempts[a].intent) :
     id \in fresh(s), p \in nextProvider(ready, s.attempts[a].route_position)}

mergeLockedOutcome(s, a, outcome) ==
  LET recorded == recordedEvidence(s, a, outcome) IN
  IF advances(s, a, outcome)
  THEN {recorded} \cup UNION {fallbacks(recorded, a, ready) : ready \in SUBSET Position}
  ELSE {recorded}

-----------------------------------------------------------------------------
Init ==
  /\ db = [op |-> [state |-> "absent", routing_revision |-> 1,
                   automatic_stopped |-> FALSE, recipient_invalid |-> FALSE,
                   current_attempt_id |-> NoAttempt, initial_position |-> 0,
                   code |-> "none"],
           attempts |-> [a \in AttemptId |-> Unused],
           jobs |-> {}]
  /\ pc = [w \in Worker |-> "idle"]
  /\ held = [w \in Worker |-> NoJob]
  /\ sends = [a \in AttemptId |-> 0]
  /\ authority = [project |-> TRUE, projectEpoch |-> 0, policy |-> TRUE, policyEpoch |-> 0]
  /\ overdue = FALSE

workerVars == <<pc, held, sends>>
envVars    == <<authority, overdue>>

(***************************************************************************)
(* Caller commands.                                                        *)
(***************************************************************************)
prepared(position) ==
  [db EXCEPT !.op = [db.op EXCEPT !.state = "prepared", !.initial_position = position]]

\* Code attachment up to the point where the initial attempt is scheduled.
attachedCode(s) ==
  [s EXCEPT !.op = [s.op EXCEPT !.state = "active", !.code = "attached"]]

admissible == authority.project /\ authority.policy /\ ~overdue

Prepare(position) ==
  /\ db.op.state = "absent"
  /\ admissible
  /\ db' = prepared(position)
  /\ UNCHANGED <<workerVars, envVars>>

\* One-step creation, external or managed: one transaction that rolls back whole.
Create(position, id) ==
  /\ db.op.state = "absent"
  /\ admissible
  /\ id \in fresh(db)
  /\ db' = schedule(attachedCode(prepared(position)), id, position, "initial",
                    capturedAuthority)
  /\ UNCHANGED <<workerVars, envVars>>

SubmitCode(id) ==
  LET s == expired(db) IN
  /\ authority.project
  /\ s.op.state = "prepared"
  /\ authority.policy
  /\ id \in fresh(s)
  /\ db' = schedule(attachedCode(s), id, s.op.initial_position, "initial", capturedAuthority)
  /\ UNCHANGED <<workerVars, envVars>>

\* captureAuthority rejects the command after attachment wrote its rows.  The
\* rejection is a DomainError, which domainTransaction commits with those rows.
SubmitCodeRejected ==
  LET s == expired(db) IN
  /\ authority.project
  /\ s.op.state = "prepared"
  /\ ~authority.policy
  /\ db' = attachedCode(s)
  /\ UNCHANGED <<workerVars, envVars>>

\* Mutant: the work that a new command replaces still waits.
supersede_keepsPending(s) ==
  [s EXCEPT !.op = [s.op EXCEPT !.routing_revision = s.op.routing_revision + 1,
                                !.automatic_stopped = FALSE]]
supersede(s) ==
  [s EXCEPT !.attempts = suppressPendingAttempts(s.attempts, Reason),
            !.op = [s.op EXCEPT !.routing_revision = s.op.routing_revision + 1,
                                !.automatic_stopped = FALSE]]

selectTarget(s, reason, ready) ==
  LET position == s.attempts[s.op.current_attempt_id].route_position IN
  CASE reason = "resend" -> {position} \cap ready
    [] reason = "next"   -> nextProvider(ready, position)
    [] reason = "select" -> ready

RequestSend(id, reason, ready) ==
  LET s == expired(db) IN
  /\ authority.project
  /\ authority.policy
  /\ s.op.state = "active"
  /\ s.op.current_attempt_id # NoAttempt
  /\ ~s.op.recipient_invalid
  /\ s.op.routing_revision < MaxRevision
  /\ send_count(s) < MaxSends
  /\ id \in fresh(s)
  /\ \E position \in selectTarget(s, reason, ready) :
       db' = schedule(supersede(s), id, position, reason, capturedAuthority)
  /\ UNCHANGED <<workerVars, envVars>>

\* Caller close, and the terminal transitions of a managed challenge.
Close ==
  LET s == expired(db) IN
  /\ db.op.state # "absent"
  /\ db' = IF Live(s.op) THEN terminate(s, "closed") ELSE s
  /\ UNCHANGED <<workerVars, envVars>>

\* invalidateRestoredOperations closes whatever is live, overdue or not.
Invalidate ==
  /\ Live(db.op)
  /\ db' = terminate(db, "closed")
  /\ UNCHANGED <<workerVars, envVars>>

\* A status read, the expiry job, or a rejected command: only expiry is left.
Expire ==
  /\ db.op.state # "absent"
  /\ db' = expired(db)
  /\ UNCHANGED <<workerVars, envVars>>

(***************************************************************************)
(* The dispatch of one job by one worker.                                  *)
(***************************************************************************)
stale(s, job) ==
  LET attempt == s.attempts[job.attemptId] IN
  \/ s.op.state # "active"
  \/ s.op.routing_revision # attempt.routing_revision
  \/ job.routingRevision # attempt.routing_revision
  \/ attempt.reason = "fallback" /\ s.op.automatic_stopped

eligible(s, job) ==
  ~stale(s, job) /\ intentEligible(s.attempts[job.attemptId].intent)

\* What the gate sees: the rows after logical expiry, and a job to dispatch.
gateOpens(w, job, s) ==
  /\ pc[w] = "idle"
  /\ job \in db.jobs
  /\ s.attempts[job.attemptId].state = "pending"

\* No reservation: the handler returns, whatever becomes of its acknowledgement.
gateCloses == UNCHANGED <<workerVars, envVars>>

\* A duplicate job: the attempt is already dispatched or settled.
GateDuplicate(w, job) ==
  LET s == expired(db) IN
  /\ pc[w] = "idle"
  /\ job \in db.jobs
  /\ s.attempts[job.attemptId].state # "pending"
  /\ db' \in {s, recovered(s, {job.attemptId})}
  /\ gateCloses

GateSuppress(w, job) ==
  LET s == expired(db) IN
  /\ gateOpens(w, job, s)
  /\ ~eligible(s, job)
  /\ db' = suppressed(s, job.attemptId)
  /\ gateCloses

\* The operation's budget or a shared quota is used up, or the attempt has no usable
\* approval: claim, decision and gate of Authorization all suppress it this way.
GateRefused(w, job) ==
  LET s == expired(db) IN
  /\ gateOpens(w, job, s)
  /\ eligible(s, job)
  /\ db' = suppressed(s, job.attemptId)
  /\ gateCloses

\* Only this provider is blocked: a local failure, which may advance the route.
GateUnavailable(w, job) ==
  LET s == expired(db) IN
  /\ gateOpens(w, job, s)
  /\ eligible(s, job)
  /\ send_count(s) < MaxSends
  /\ db' \in mergeLockedOutcome(s, job.attemptId, notInvokedOutcome)
  /\ gateCloses

reserve(s, a) ==
  [s EXCEPT !.attempts = [s.attempts EXCEPT ![a] =
     [s.attempts[a] EXCEPT !.state = "dispatching", !.acceptance = "unknown",
                           !.invocation = "committed", !.committed = TRUE]]]

\* Mutant: the gate also takes an attempt whose first dispatch ended uncertain.
GateReserve_retriesUncertain(w, job) ==
  LET s == expired(db) IN
  /\ pc[w] = "idle"
  /\ job \in db.jobs
  /\ s.attempts[job.attemptId].state \in {"pending", "uncertain"}
  /\ eligible(s, job)
  /\ send_count(s) < MaxSends
  /\ db' = reserve(s, job.attemptId)
  /\ pc' = [pc EXCEPT ![w] = "reserved"]
  /\ held' = [held EXCEPT ![w] = job]
  /\ UNCHANGED <<sends, envVars>>

GateReserve(w, job) ==
  LET s == expired(db) IN
  /\ gateOpens(w, job, s)
  /\ eligible(s, job)
  /\ send_count(s) < MaxSends
  /\ db' = reserve(s, job.attemptId)
  /\ pc' = [pc EXCEPT ![w] = "reserved"]
  /\ held' = [held EXCEPT ![w] = job]
  /\ UNCHANGED <<sends, envVars>>

\* The transaction that records an outcome.
recordOutcome(a, outcome) ==
  db' \in mergeLockedOutcome(expired(db), a, outcome)

\* The handler returns.
Finish(w) ==
  /\ pc' = [pc EXCEPT ![w] = "idle"]
  /\ held' = [held EXCEPT ![w] = NoJob]
  /\ UNCHANGED <<sends, envVars>>

\* After the gate committed: the provider cannot be built, or the window is gone.
SkipSend(w) ==
  /\ pc[w] = "reserved"
  /\ recordOutcome(held[w].attemptId, notInvokedOutcome)
  /\ Finish(w)

Send(w) ==
  /\ pc[w] = "reserved"
  /\ pc' = [pc EXCEPT ![w] = "invoking"]
  /\ sends' = [sends EXCEPT ![held[w].attemptId] = @ + 1]
  /\ UNCHANGED <<db, held, envVars>>

SendFailed(w, outcome) ==
  /\ pc[w] = "invoking"
  /\ outcome \in {uncertainOutcome, rejectedOutcome(TRUE), rejectedOutcome(FALSE)}
  /\ recordOutcome(held[w].attemptId, outcome)
  /\ Finish(w)

\* recordAccepted: the acceptance and the delivery events known by then, in the
\* provider's answer or waiting in the inbox, in one transaction.  Events beyond the
\* first are Callback steps.
SendAccepted(w) ==
  LET a == held[w].attemptId IN
  /\ pc[w] = "invoking"
  /\ \E s \in mergeLockedOutcome(expired(db), a, acceptedOutcome) :
       \/ db' = s
       \/ \E status \in CallbackStatus :
            db' \in mergeLockedOutcome(s, a, callbackOutcome(status))
  /\ Finish(w)

\* The process dies, or the queue aborts the handler.
Crash(w) ==
  /\ pc[w] # "idle"
  /\ Finish(w)
  /\ UNCHANGED db

(***************************************************************************)
(* Callbacks and recovery.                                                 *)
(***************************************************************************)
Callback(a, status) ==
  /\ sends[a] > 0
  /\ recordOutcome(a, callbackOutcome(status))
  /\ UNCHANGED <<workerVars, envVars>>

\* overdueDispatches: the dispatching attempts whose recovery_at has passed.
recoverDispatches(overdueDispatches) ==
  /\ \E a \in overdueDispatches : db.attempts[a].state = "dispatching"
  /\ db' = recovered(expired(db), overdueDispatches)
  /\ UNCHANGED <<workerVars, envVars>>

(***************************************************************************)
(* The surroundings: clocks and administration.                            *)
(***************************************************************************)
PassDeadline ==
  /\ db.op.state # "absent"
  /\ ~overdue
  /\ overdue' = TRUE
  /\ UNCHANGED <<db, workerVars, authority>>

WithdrawProject ==
  /\ authority.project
  /\ authority.projectEpoch < MaxEpoch
  /\ authority' = [authority EXCEPT !.project = FALSE, !.projectEpoch = @ + 1]
  /\ UNCHANGED <<db, workerVars, overdue>>

RestoreProject ==
  /\ ~authority.project
  /\ authority' = [authority EXCEPT !.project = TRUE]
  /\ UNCHANGED <<db, workerVars, overdue>>

WithdrawPolicy ==
  /\ authority.policy
  /\ authority.policyEpoch < MaxEpoch
  /\ authority' = [authority EXCEPT !.policy = FALSE, !.policyEpoch = @ + 1]
  /\ UNCHANGED <<db, workerVars, overdue>>

RestorePolicy ==
  /\ ~authority.policy
  /\ authority' = [authority EXCEPT !.policy = TRUE]
  /\ UNCHANGED <<db, workerVars, overdue>>

-----------------------------------------------------------------------------
Commands ==
  \/ \E position \in Position : Prepare(position)
  \/ \E position \in Position, id \in AttemptId : Create(position, id)
  \/ \E id \in AttemptId : SubmitCode(id)
  \/ SubmitCodeRejected
  \/ \E id \in AttemptId, reason \in {"resend", "next", "select"}, ready \in SUBSET Position :
       RequestSend(id, reason, ready)
  \/ Close
  \/ Invalidate
  \/ Expire

Gate(w, job) ==
  \/ GateDuplicate(w, job)
  \/ GateSuppress(w, job)
  \/ GateRefused(w, job)
  \/ GateUnavailable(w, job)
  \/ GateReserve(w, job)

Dispatch(w) ==
  \/ SkipSend(w)
  \/ Send(w)
  \/ \E outcome \in Outcome : SendFailed(w, outcome)
  \/ SendAccepted(w)
  \/ Crash(w)

Background ==
  \/ \E a \in AttemptId, status \in CallbackStatus : Callback(a, status)
  \/ \E S \in SUBSET {a \in AttemptId : db.attempts[a].state = "dispatching"} :
       recoverDispatches(S)
  \/ PassDeadline
  \/ WithdrawProject
  \/ RestoreProject
  \/ WithdrawPolicy
  \/ RestorePolicy

Next ==
  \/ Commands
  \/ \E w \in Worker, job \in db.jobs : Gate(w, job)
  \/ \E w \in Worker : Dispatch(w)
  \/ Background

Spec == Init /\ [][Next]_vars

(***************************************************************************)
(* Fairness.  Time passes.  The queue starts the expiry job, and the       *)
(* every-minute cleanup job runs recovery and then expiry whatever happens *)
(* to the workers: neither depends on a dispatch job, whose retries are    *)
(* limited.  Callers, administrators, providers and workers owe nothing.   *)
(***************************************************************************)
Fairness ==
  /\ WF_vars(PassDeadline)
  /\ WF_vars(Expire)
  /\ WF_vars(recoverDispatches(AttemptId))

FairSpec == Spec /\ Fairness

-----------------------------------------------------------------------------
(***************************************************************************)
(* Properties.                                                             *)
(***************************************************************************)
used(a) == db.attempts[a].state # "unused"
sameRevision(a, b) == db.attempts[a].routing_revision = db.attempts[b].routing_revision

\* The provider of an attempt is called at most once, in spite of duplicate jobs,
\* crashed workers, recovery and late outcomes (dispatch.ts: "the only send
\* invocation for this durable record").
AtMostOneSend == \A a \in AttemptId : sends[a] <= 1

\* An attempt recorded as not invoked has not been and is not about to be sent, so
\* an authority may release its reservation (authorization.md, unused reservations).
NoninvocationIsTrue ==
  \A a \in AttemptId : db.attempts[a].invocation = "not_invoked" =>
    /\ sends[a] = 0
    /\ \A w \in Worker : pc[w] # "idle" => held[w].attemptId # a

\* No transaction fails on the CHECK constraints of delivery_attempts, so no evidence
\* is ever lost to a rollback: what was committed is on record, dispatching attempts
\* are committed ones, and accepted or delivered ones carry their acceptance.
RowConstraints ==
  \A a \in AttemptId : LET row == db.attempts[a] IN
    /\ row.invocation = "committed" => row.committed
    /\ row.invocation = "not_started" => ~row.committed
    /\ row.state = "dispatching" => row.invocation = "committed"
    /\ row.state \in {"accepted", "delivered"} => row.acceptance = "accepted"

\* Waiting work is always the current attempt of the current revision of an active
\* operation: superseding, fallback and termination leave no second sender behind.
PendingIsCurrent ==
  \A a \in AttemptId : db.attempts[a].state = "pending" =>
    /\ db.op.state = "active"
    /\ db.op.current_attempt_id = a
    /\ db.op.routing_revision = db.attempts[a].routing_revision

\* A fallback exists only because every earlier step its revision used had failed
\* for certain; an uncertain or accepted attempt never starts one (routing.md).
FallbackOnlyAfterFailure ==
  \A a, b \in AttemptId :
    /\ used(a) /\ db.attempts[a].reason = "fallback"
    /\ used(b) /\ sameRevision(a, b)
    /\ db.attempts[b].route_position < db.attempts[a].route_position
    => db.attempts[b].state \in {"failed", "delivered"}

\* Within a revision the route only moves forward, and the current attempt is its
\* furthest step: the unique index attempts_advancement is never violated and
\* automatic routing never wraps around.
RouteMovesForward ==
  \A a, b \in AttemptId :
    used(a) /\ used(b) /\ a # b /\ sameRevision(a, b) =>
      /\ db.attempts[a].route_position # db.attempts[b].route_position
      /\ a = db.op.current_attempt_id =>
           db.attempts[b].route_position < db.attempts[a].route_position

\* Every reservation ever made, unused ones too, counts against the saved budget.
SendBudget == Cardinality(committed(db)) <= MaxSends

newlyScheduled(a) == ~used(a) /\ used(a)'
newlyReserved(a)  == ~db.attempts[a].committed /\ db.attempts[a].committed'

\* Once a step of the current revision is known delivered, its revision neither
\* schedules nor reserves another fallback; only a new command sends again.
NoFallbackAfterDelivery ==
  [][\A a, b \in AttemptId :
       /\ newlyScheduled(a) \/ newlyReserved(a)
       /\ db'.attempts[a].reason = "fallback"
       => ~(/\ db.attempts[b].state = "delivered"
            /\ db.attempts[b].routing_revision = db'.attempts[a].routing_revision)]_vars

\* A confirmed invalid recipient stops the operation for good: no evidence, however
\* late, and no command clears it or sends again (routing.md).
InvalidRecipientIsPermanent ==
  [][db.op.recipient_invalid =>
       /\ db'.op.recipient_invalid
       /\ \A a \in AttemptId : ~newlyScheduled(a) /\ ~newlyReserved(a)]_vars

\* After the deadline or a terminal transition nothing is scheduled or reserved any
\* more and the operation never reopens, even before a cleanup has run.
DeadlineAndTerminalAreFinal ==
  [][overdue \/ (db.op.state # "absent" /\ ~Live(db.op)) =>
       /\ \A a \in AttemptId : ~newlyScheduled(a) /\ ~newlyReserved(a)
       /\ ~Live(db.op) => db'.op.state = db.op.state]_vars

\* No attempt waits or hangs in dispatch for ever, even if every worker is dead.
NoAttemptHangs ==
  \A a \in AttemptId :
    db.attempts[a].state \in {"pending", "dispatching"} ~>
    db.attempts[a].state \notin {"pending", "dispatching"}

\* data-model.md: code attachment and initial delivery work are atomic.
AttachmentIsAtomic == db.op.state = "active" => db.op.current_attempt_id # NoAttempt

(***************************************************************************)
(* Refinement: to its caller and to the provider, a delivery is the send   *)
(* contract of SendContract.                                               *)
(***************************************************************************)
ledgerOf(attempt, sent) ==
  CASE sent > 1                                          -> "resent"
    [] sent <= 1 /\ attempt.invocation = "not_invoked"   ->
         IF attempt.committed THEN "spent" ELSE "void"
    [] sent = 1 /\ attempt.invocation # "not_invoked"    -> "sent"
    [] sent < 1 /\ attempt.invocation = "committed"      -> "granted"
    [] OTHER                                             -> "open"

phaseOf(op) ==
  CASE op.state = "active"               -> "sending"
    [] op.state \in {"closed", "expired"} -> "ended"
    [] OTHER                             -> "new"

Contract == INSTANCE SendContract
  WITH ledger <- [a \in AttemptId |-> ledgerOf(db.attempts[a], sends[a])],
       phase  <- phaseOf(db.op)

\* Every behaviour of the delivery is one the contract allows: grants only while the
\* operation is active and within its budget, one transmission for each grant, and no
\* way back from a void, spent or transmitted attempt.
ImplementsContract == Contract!Spec
=============================================================================
