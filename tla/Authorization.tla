---------------------------- MODULE Authorization ----------------------------
(***************************************************************************)
(* Send authorization in one project: how workers obtain the decision of   *)
(* the external authority for each attempt, and what the dispatch gate     *)
(* makes of it.                                                            *)
(*                                                                         *)
(* The handler of a delivery job runs two or three transactions: it claims *)
(* the attempt under a lease, asks the authority outside any transaction,  *)
(* records the decision fenced by the generation of its claim, and then    *)
(* opens the gate, whatever came of the first three.  Other workers, the   *)
(* authority, the operation, the project block, the clock and recovery     *)
(* move between those steps.                                               *)
(*                                                                         *)
(* Every attempt here is the current one of an operation of its own.       *)
(* Delivery has the life of one operation and treats what this module      *)
(* models as a free refusal; this module stops at the dispatch commitment. *)
(* Times are reduced to whether they have passed.  The jobs of an attempt  *)
(* are not told apart: one that was enqueued to start at the end of a      *)
(* lease, a wait or a block may start before it, as an older duplicate of  *)
(* it may, and then finds the lease, the wait or the block.                *)
(***************************************************************************)
EXTENDS Integers, FiniteSets

CONSTANTS
  Attempt,         \* attempts of the project, one for each operation
  Required,        \* those whose snapshot has authorizationRequired
  Worker,          \* concurrent handlers of the delivery queue
  Idle,            \* the held job of an idle worker
  JobsAreLost,     \* the queue may give a job up after its last retry
  MaxGeneration,   \* bound: claims of one attempt
  MaxBlocks        \* bound: project denials

ASSUME RequiredAssumption == Required \subseteq Attempt
ASSUME IdleAssumption     == Idle \notin Attempt
ASSUME LossAssumption     == JobsAreLost \in BOOLEAN
ASSUME BoundsAssumption   == MaxGeneration \in Nat /\ MaxBlocks \in Nat

VARIABLES
  row,       \* delivery_attempts
  op,        \* what the gate reads of each attempt's operation and intent
  block,     \* project_send_blocks
  jobs,      \* the attempts with a delivery job in the queue
  worker,    \* each handler: its step, attempt, claim and answer
  ledger,    \* the authority's own final decisions
  voided     \* history: attempts approved, but not sent, at a project denial

vars == <<row, op, block, jobs, worker, ledger, voided>>

Decision == {"approved", "denied_route", "denied_project"}
Answer   == Decision \cup {"pending", "none"}

Row == [state : {"pending", "suppressed", "failed", "dispatching"},
        authorization_state : {"not_required", "pending", "approved", "denied", "expired"},
        authorization_generation : 0 .. MaxGeneration,
        project_generation : 0 .. MaxBlocks,
        lease : {"none", "running", "over"},
        retry : {"none", "waiting", "due"},
        approval_valid : BOOLEAN,
        invocation : {"not_started", "committed", "not_invoked"}]

TypeOK ==
  /\ row \in [Attempt -> Row]
  /\ op \in [Attempt -> [current : BOOLEAN, entitled : BOOLEAN, late : BOOLEAN]]
  /\ block \in [generation : 0 .. MaxBlocks, active : BOOLEAN]
  /\ jobs \subseteq Attempt
  /\ worker \in [Worker -> [step : {"idle", "asking", "answered", "gate"},
                            attempt : Attempt \cup {Idle},
                            generation : 0 .. MaxGeneration,
                            project_generation : 0 .. MaxBlocks,
                            answer : Answer]]
  /\ ledger \in [Attempt -> Decision \cup {"none"}]
  /\ voided \subseteq Attempt

idle == [step |-> "idle", attempt |-> Idle, generation |-> 0, project_generation |-> 0,
         answer |-> "none"]

\* Each operation has been created and its initial attempt scheduled.
Init ==
  /\ row = [a \in Attempt |->
       [state |-> "pending",
        authorization_state |-> IF a \in Required THEN "pending" ELSE "not_required",
        authorization_generation |-> 0, project_generation |-> 0,
        lease |-> "none", retry |-> "none", approval_valid |-> FALSE,
        invocation |-> "not_started"]]
  /\ op = [a \in Attempt |-> [current |-> TRUE, entitled |-> TRUE, late |-> FALSE]]
  /\ block = [generation |-> 0, active |-> FALSE]
  /\ jobs = Attempt
  /\ worker = [w \in Worker |-> idle]
  /\ ledger = [a \in Attempt |-> "none"]
  /\ voided = {}

-----------------------------------------------------------------------------
eligible(a) == op[a].current /\ op[a].entitled

\* What follows an unused attempt: its noninvocation is on record.
notInvoked(r, state) == [r EXCEPT !.state = state, !.invocation = "not_invoked"]

(***************************************************************************)
(* claimAuthorization, by the handler that takes the job.                  *)
(***************************************************************************)
take(w, a) == worker[w].step = "idle" /\ a \in jobs

toGate(w, a) == worker' = [worker EXCEPT ![w] = [idle EXCEPT !.step = "gate", !.attempt = a]]

decisionPending(a) ==
  row[a].state = "pending" /\ row[a].authorization_state = "pending"

\* No decision is missing: no claim.
ClaimNothing(w, a) ==
  /\ take(w, a)
  /\ ~decisionPending(a)
  /\ jobs' = jobs \ {a}
  /\ toGate(w, a)
  /\ UNCHANGED <<row, op, block, ledger, voided>>

ClaimExpired(w, a) ==
  /\ take(w, a)
  /\ decisionPending(a)
  /\ ~eligible(a) \/ op[a].late
  /\ row' = [row EXCEPT ![a] = [notInvoked(@, "suppressed") EXCEPT
                                  !.authorization_state = "expired", !.lease = "none"]]
  /\ jobs' = jobs \ {a}
  /\ toGate(w, a)
  /\ UNCHANGED <<op, block, ledger, voided>>

\* The job is enqueued again, for the end of the block.
ClaimBlocked(w, a) ==
  /\ take(w, a)
  /\ decisionPending(a)
  /\ eligible(a) /\ ~op[a].late
  /\ block.active
  /\ toGate(w, a)
  /\ UNCHANGED <<row, op, block, jobs, ledger, voided>>

claimable(a) ==
  decisionPending(a) /\ eligible(a) /\ ~op[a].late /\ ~block.active

\* Another handler has the lease, or the authority asked to wait.
ClaimHeld(w, a) ==
  /\ take(w, a)
  /\ claimable(a)
  /\ row[a].lease = "running" \/ row[a].retry = "waiting"
  /\ jobs' = jobs \ {a}
  /\ toGate(w, a)
  /\ UNCHANGED <<row, op, block, ledger, voided>>

\* The job is enqueued again, for the end of the lease.
Claim(w, a) ==
  LET generation == row[a].authorization_generation + 1 IN
  /\ take(w, a)
  /\ claimable(a)
  /\ row[a].lease # "running" /\ row[a].retry # "waiting"
  /\ generation <= MaxGeneration
  /\ row' = [row EXCEPT ![a].authorization_generation = generation,
                        ![a].lease = "running",
                        ![a].project_generation = block.generation]
  /\ worker' = [worker EXCEPT ![w] = [step |-> "asking", attempt |-> a,
                                      generation |-> generation,
                                      project_generation |-> block.generation,
                                      answer |-> "none"]]
  /\ UNCHANGED <<op, block, jobs, ledger, voided>>

(***************************************************************************)
(* The authority.  A decision of it is final, also when its answer is      *)
(* lost: repeating the request returns it again.                           *)
(***************************************************************************)
denials == Cardinality({a \in Attempt : ledger[a] = "denied_project"})

Decide(a, decision) ==
  /\ \E w \in Worker : worker[w].step = "asking" /\ worker[w].attempt = a
  /\ ledger[a] = "none"
  /\ decision = "denied_project" => denials < MaxBlocks
  /\ ledger' = [ledger EXCEPT ![a] = decision]
  /\ UNCHANGED <<row, op, block, jobs, worker, voided>>

\* reserve returns, times out, or its answer is not usable.
Reserve(w, answer) ==
  /\ worker[w].step = "asking"
  /\ \/ answer = "none"
     \/ answer = "pending" /\ ledger[worker[w].attempt] = "none"
     \/ answer \in Decision /\ answer = ledger[worker[w].attempt]
  /\ worker' = [worker EXCEPT ![w].step = "answered", ![w].answer = answer]
  /\ UNCHANGED <<row, op, block, jobs, ledger, voided>>

(***************************************************************************)
(* finishAuthorization.                                                    *)
(***************************************************************************)
fenced(w) ==
  LET a == worker[w].attempt IN
  /\ row[a].authorization_generation = worker[w].generation
  /\ row[a].authorization_state \in {"pending", "expired"}

FinishStale(w) ==
  /\ worker[w].step = "answered"
  /\ ~fenced(w)
  /\ toGate(w, worker[w].attempt)
  /\ UNCHANGED <<row, op, block, jobs, ledger, voided>>

\* waitForAuthorization: no decision, or the authority wants to be asked later.
FinishWait(w) ==
  LET a == worker[w].attempt IN
  /\ worker[w].step = "answered"
  /\ fenced(w)
  /\ worker[w].answer \in {"none", "pending"}
  /\ IF row[a].authorization_state = "pending"
     THEN /\ row' = [row EXCEPT ![a].lease = "none", ![a].retry = "waiting"]
          /\ jobs' = IF row[a].state = "pending" /\ op[a].current
                     THEN jobs \cup {a} ELSE jobs
     ELSE UNCHANGED <<row, jobs>>
  /\ toGate(w, a)
  /\ UNCHANGED <<op, block, ledger, voided>>

\* A project denial extends the block and starts a new generation of approvals.
\* Mutant: it only extends the block.
raised_sameGeneration == [block EXCEPT !.active = TRUE]
raised == [generation |-> block.generation + 1, active |-> TRUE]

FinishDenied(w) ==
  LET a == worker[w].attempt
      projectScope == worker[w].answer = "denied_project" IN
  /\ worker[w].step = "answered"
  /\ fenced(w)
  /\ worker[w].answer \in {"denied_route", "denied_project"}
  /\ row' = [row EXCEPT ![a] = [notInvoked(@, "suppressed") EXCEPT
                                  !.authorization_state = "denied", !.lease = "none"]]
  /\ block' = IF projectScope THEN raised ELSE block
  /\ voided' = IF projectScope
               THEN voided \cup {b \in Attempt : /\ row[b].state = "pending"
                                                 /\ row[b].authorization_state = "approved"}
               ELSE voided
  /\ toGate(w, a)
  /\ UNCHANGED <<op, jobs, ledger>>

\* Mutant: an approval makes the attempt usable whatever became of it meanwhile.
usable_whateverState(w) ==
  LET a == worker[w].attempt IN
  op[a].entitled /\ block.generation = worker[w].project_generation
usable(w) ==
  LET a == worker[w].attempt IN
  /\ eligible(a)
  /\ row[a].state = "pending"
  /\ block.generation = worker[w].project_generation

\* valid: validUntil, cut off at the dispatch deadline, is still to come.
FinishApproved(w, valid) ==
  LET a == worker[w].attempt IN
  /\ worker[w].step = "answered"
  /\ fenced(w)
  /\ worker[w].answer = "approved"
  /\ valid => ~op[a].late
  /\ row' = [row EXCEPT ![a] =
       [(IF usable(w) /\ valid
         THEN [@ EXCEPT !.state = "pending", !.invocation = "not_started"]
         ELSE notInvoked(@, "suppressed"))
        EXCEPT !.authorization_state = "approved", !.approval_valid = valid,
               !.lease = "none"]]
  /\ toGate(w, a)
  /\ UNCHANGED <<op, block, jobs, ledger, voided>>

(***************************************************************************)
(* The gate.                                                               *)
(***************************************************************************)
approvalStands(a) ==
  /\ row[a].authorization_state = "approved"
  /\ row[a].approval_valid /\ ~op[a].late
  /\ row[a].project_generation = block.generation

\* Mutant: once its lease is over, a missing decision counts as a refusal.
awaitsDecision_whileLeased(a) ==
  /\ a \in Required /\ row[a].authorization_state = "pending"
  /\ row[a].lease = "running"
awaitsDecision(a) == a \in Required /\ row[a].authorization_state = "pending"

gate(w, a) == worker[w].step = "gate" /\ worker[w].attempt = a
leave(w)   == worker' = [worker EXCEPT ![w] = idle]

\* Nothing to do, or nothing to do yet: the handler returns and its job is done.
GateLeaves(w, a) ==
  /\ gate(w, a)
  /\ row[a].state = "pending" => eligible(a) /\ (block.active \/ awaitsDecision(a))
  /\ leave(w)
  /\ UNCHANGED <<row, op, block, jobs, ledger, voided>>

passes(a) ==
  row[a].state = "pending" /\ eligible(a) /\ ~block.active /\ ~awaitsDecision(a)

GateSuppresses(w, a) ==
  /\ gate(w, a)
  /\ row[a].state = "pending"
  /\ \/ ~eligible(a)
     \/ passes(a) /\ a \in Required /\ ~approvalStands(a)
  /\ row' = [row EXCEPT ![a] = notInvoked(@, "suppressed")]
  /\ leave(w)
  /\ UNCHANGED <<op, block, jobs, ledger, voided>>

permitted(a) == passes(a) /\ (a \in Required => approvalStands(a))

\* A used up quota suppresses the attempt, an unavailable provider fails it.
GateRefuses(w, a, state) ==
  /\ gate(w, a)
  /\ permitted(a)
  /\ state \in {"suppressed", "failed"}
  /\ row' = [row EXCEPT ![a] = notInvoked(@, state)]
  /\ leave(w)
  /\ UNCHANGED <<op, block, jobs, ledger, voided>>

GateCommits(w, a) ==
  /\ gate(w, a)
  /\ permitted(a)
  /\ row' = [row EXCEPT ![a].state = "dispatching", ![a].invocation = "committed"]
  /\ leave(w)
  /\ UNCHANGED <<op, block, jobs, ledger, voided>>

(***************************************************************************)
(* The surroundings.                                                       *)
(***************************************************************************)
\* The handler dies or is aborted.  The queue retries its job, if any retry is left.
Crash(w) ==
  /\ worker[w].step # "idle"
  /\ \/ jobs' = jobs \cup {worker[w].attempt}
     \/ JobsAreLost /\ jobs' = jobs
  /\ leave(w)
  /\ UNCHANGED <<row, op, block, ledger, voided>>

\* Mutant: recovery looks for missing decisions only.
recoverAuthorizations_undecided ==
  /\ jobs' = jobs \cup {a \in Required : /\ row[a].state = "pending" /\ op[a].current
                                        /\ row[a].authorization_state = "pending"
                                        /\ row[a].retry # "waiting"
                                        /\ row[a].lease # "running"}
  /\ UNCHANGED <<row, op, block, worker, ledger, voided>>
\* Start-up and every minute, independent of the queue's retries.
recoverAuthorizations ==
  LET due == {a \in Required : /\ row[a].state = "pending" /\ op[a].current
                               /\ row[a].retry # "waiting" /\ row[a].lease # "running"} IN
  /\ jobs' = jobs \cup due
  /\ UNCHANGED <<row, op, block, worker, ledger, voided>>

\* Close, expiry or a new command: the operation drops this attempt.
Supersede(a) ==
  /\ op[a].current
  /\ op' = [op EXCEPT ![a].current = FALSE]
  /\ row' = IF row[a].state = "pending"
            THEN [row EXCEPT ![a] = notInvoked(@, "suppressed")] ELSE row
  /\ UNCHANGED <<block, jobs, worker, ledger, voided>>

\* A withdrawn authority: later grants do not make the intent eligible again.
Withdraw(a) ==
  /\ op[a].entitled
  /\ op' = [op EXCEPT ![a].entitled = FALSE]
  /\ UNCHANGED <<row, block, jobs, worker, ledger, voided>>

PassDeadline(a) ==
  /\ ~op[a].late
  /\ op' = [op EXCEPT ![a].late = TRUE]
  /\ UNCHANGED <<row, block, jobs, worker, ledger, voided>>

ApprovalExpires(a) ==
  /\ row[a].approval_valid
  /\ row' = [row EXCEPT ![a].approval_valid = FALSE]
  /\ UNCHANGED <<op, block, jobs, worker, ledger, voided>>

LeaseEnds(a) ==
  /\ row[a].lease = "running"
  /\ row' = [row EXCEPT ![a].lease = "over"]
  /\ UNCHANGED <<op, block, jobs, worker, ledger, voided>>

RetryDue(a) ==
  /\ row[a].retry = "waiting"
  /\ row' = [row EXCEPT ![a].retry = "due"]
  /\ UNCHANGED <<op, block, jobs, worker, ledger, voided>>

BlockEnds ==
  /\ block.active
  /\ block' = [block EXCEPT !.active = FALSE]
  /\ UNCHANGED <<row, op, jobs, worker, ledger, voided>>

-----------------------------------------------------------------------------
claimAuthorization(w, a) ==
  \/ ClaimNothing(w, a)
  \/ ClaimExpired(w, a)
  \/ ClaimBlocked(w, a)
  \/ ClaimHeld(w, a)
  \/ Claim(w, a)

finishAuthorization(w) ==
  \/ FinishStale(w)
  \/ FinishWait(w)
  \/ FinishDenied(w)
  \/ \E valid \in BOOLEAN : FinishApproved(w, valid)

dispatchGate(w, a) ==
  \/ GateLeaves(w, a)
  \/ GateSuppresses(w, a)
  \/ \E state \in {"suppressed", "failed"} : GateRefuses(w, a, state)
  \/ GateCommits(w, a)

Handler(w) ==
  \/ \E answer \in Answer : Reserve(w, answer)
  \/ finishAuthorization(w)
  \/ \E a \in Attempt : dispatchGate(w, a)

Environment ==
  \/ \E a \in Attempt, decision \in Decision : Decide(a, decision)
  \/ \E a \in Attempt : \/ Supersede(a)
                        \/ Withdraw(a)
                        \/ PassDeadline(a)
                        \/ ApprovalExpires(a)
                        \/ LeaseEnds(a)
                        \/ RetryDue(a)
  \/ BlockEnds

Next ==
  \/ \E w \in Worker, a \in Attempt : claimAuthorization(w, a)
  \/ \E w \in Worker : Handler(w)
  \/ \E w \in Worker : Crash(w)
  \/ recoverAuthorizations
  \/ Environment

Spec == Init /\ [][Next]_vars

(***************************************************************************)
(* Fairness.  Time passes, and the cleanup job recovers whatever becomes   *)
(* of the delivery jobs.  A handler does not hang: its awaits have         *)
(* timeouts, and the queue aborts it after 90 seconds.  The queue hands    *)
(* out its jobs in turn, so none is passed over for ever, and handlers do  *)
(* not crash every single time.  The authority owes nothing at all.        *)
(***************************************************************************)
Fairness ==
  /\ WF_vars(recoverAuthorizations)
  /\ WF_vars(BlockEnds)
  /\ \A w \in Worker : WF_vars(Handler(w) \/ Crash(w))
  /\ \A a \in Attempt :
       /\ WF_vars(PassDeadline(a))
       /\ WF_vars(LeaseEnds(a))
       /\ WF_vars(RetryDue(a))
       /\ SF_vars(\E w \in Worker : claimAuthorization(w, a))
       /\ SF_vars(\E w \in Worker : dispatchGate(w, a))

FairSpec == Spec /\ Fairness

-----------------------------------------------------------------------------
(***************************************************************************)
(* Properties.                                                             *)
(***************************************************************************)
\* A decision on record is the one the authority made, and a required attempt is
\* committed to a send only under an approval of it: no timeout, lost answer, stale
\* worker or crash authorizes a send (authorization.md, execution and recovery).
DispatchOnlyIfApproved ==
  \A a \in Attempt :
    /\ row[a].authorization_state = "approved" => ledger[a] = "approved"
    /\ row[a].authorization_state = "denied" => ledger[a] \in {"denied_route", "denied_project"}
    /\ row[a].state = "dispatching" /\ a \in Required => ledger[a] = "approved"

\* Nor is it given up for want of an answer: while its operation still wants it and
\* its time is not up, a required attempt ends unsent only under a decision on record
\* (authorization.md: the attempt is asked for again until its deadline).
GivenUpOnlyIfDecided ==
  \A a \in Required :
    row[a].state \in {"suppressed", "failed"} /\ eligible(a) /\ ~op[a].late =>
      row[a].authorization_state \in {"approved", "denied"}

\* What becomes of a required attempt is what the authority decided: lost, late and
\* repeated answers under several claims neither send it nor give it up.
AuthorityIsObeyed == DispatchOnlyIfApproved /\ GivenUpOnlyIfDecided

\* An approval that was on record when a project denial was is never used, neither
\* during the block nor after it (authorization.md: it invalidates older unconsumed
\* approvals, and the end of the block does not restore them).
ProjectDenialVoidsApprovals == \A a \in voided : row[a].state # "dispatching"

\* A late answer may still be recorded, but it changes no earlier decision, and an
\* attempt once given up as not invoked, which lets the authority release its
\* reservation, is never revived or sent.
DecisionsAreFinal ==
  [][\A a \in Attempt :
       /\ row[a].authorization_state \in {"approved", "denied"} =>
            row'[a].authorization_state = row[a].authorization_state
       /\ row[a].state # "pending" => row'[a].state = row[a].state
       /\ row[a].invocation = "not_invoked" => row'[a].invocation = "not_invoked"]_vars

\* A required attempt is sent or given up at some time, though its jobs may be lost,
\* its workers crash, and the authority never answer.
RequiredAttemptsSettle == \A a \in Required : <>(row[a].state # "pending")

\* authorization.md: a project denial blocks new dispatches for that project until its
\* supplied retry time.  So the block only delays: as long as an attempt may be sent,
\* a job, a handler or recovery is there to send it.
BlockOnlyDelays ==
  \A a \in Attempt :
    row[a].state = "pending" /\ eligible(a) =>
      \/ a \in Required
      \/ a \in jobs
      \/ \E w \in Worker : worker[w].attempt = a
=============================================================================
