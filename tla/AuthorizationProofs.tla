------------------------ MODULE AuthorizationProofs ------------------------
(***************************************************************************)
(* Proofs that a send is committed only under an approval of the authority *)
(* and given up only under its decision, that a project denial voids the   *)
(* approvals on record, and that what is recorded is final, for every set  *)
(* of attempts and workers and all bounds.                                 *)
(***************************************************************************)
EXTENDS Authorization, FiniteSetTheorems, TLAPS

\* The part of TypeOK the arguments need.  The bounds on generations are not in it.
RowType == [state : {"pending", "suppressed", "failed", "dispatching"},
            authorization_state : {"not_required", "pending", "approved", "denied", "expired"},
            authorization_generation : Nat,
            project_generation : Nat,
            lease : {"none", "running", "over"},
            retry : {"none", "waiting", "due"},
            approval_valid : BOOLEAN,
            invocation : {"not_started", "committed", "not_invoked"}]

WorkerType == [step : {"idle", "asking", "answered", "gate"},
               attempt : Attempt \cup {Idle},
               generation : Nat,
               project_generation : Nat,
               answer : Answer]

Types ==
  /\ row \in [Attempt -> RowType]
  /\ block \in [generation : Nat, active : BOOLEAN]
  /\ worker \in [Worker -> WorkerType]
  /\ ledger \in [Attempt -> Decision \cup {"none"}]
  /\ voided \subseteq Attempt

\* A handler that asks or has an answer works on an attempt, and an answer that is a
\* decision is the authority's.
WorkerOK(r, l) ==
  /\ r.step \in {"asking", "answered"} => r.attempt \in Attempt
  /\ r.step = "answered" /\ r.answer \in Decision => l[r.attempt] = r.answer

\* The recorded state of one attempt, against the authority's decision on it.
RecordOK(a, r, decision) ==
  /\ (a \in Required) <=> (r.authorization_state # "not_required")
  /\ r.authorization_state = "approved" => decision = "approved"
  /\ r.authorization_state = "denied" => decision \in {"denied_route", "denied_project"}
  /\ r.state \in {"dispatching", "failed"} /\ a \in Required =>
       r.authorization_state = "approved"
  /\ r.state = "pending" => r.invocation # "not_invoked"

\* The recorded state of one attempt, against the generation of the project block.
VoidOK(a, r, generation, dead) ==
  /\ r.project_generation <= generation
  /\ a \in dead =>
       /\ r.state # "dispatching"
       /\ a \in Required
       /\ r.state = "pending" => /\ r.authorization_state = "approved"
                                 /\ r.project_generation < generation

AuthInv ==
  /\ Types
  /\ \A w \in Worker : WorkerOK(worker[w], ledger)
  /\ \A a \in Attempt : RecordOK(a, row[a], ledger[a])
  /\ \A a \in Attempt : VoidOK(a, row[a], block.generation, voided)

LEMMA InitAuth == Init => AuthInv
  BY RequiredAssumption, IdleAssumption
     DEF Init, AuthInv, Types, RowType, WorkerType, Answer, Decision, idle, WorkerOK,
         RecordOK, VoidOK

\* One worker moves, to a record that respects the invariant.
LEMMA WorkerStep ==
  ASSUME Types, \A w \in Worker : WorkerOK(worker[w], ledger),
         NEW w0 \in Worker, NEW r \in WorkerType, WorkerOK(r, ledger),
         worker' = [worker EXCEPT ![w0] = r]
  PROVE  /\ worker' \in [Worker -> WorkerType]
         /\ \A w \in Worker : WorkerOK(worker'[w], ledger)
  BY DEF Types

LEMMA ToGate ==
  ASSUME Types, \A w \in Worker : WorkerOK(worker[w], ledger),
         NEW w0 \in Worker, NEW a \in Attempt, toGate(w0, a)
  PROVE  /\ worker' \in [Worker -> WorkerType]
         /\ \A w \in Worker : WorkerOK(worker'[w], ledger)
<1>1. [idle EXCEPT !.step = "gate", !.attempt = a] \in WorkerType
  BY DEF idle, WorkerType, Answer, Decision
<1>2. WorkerOK([idle EXCEPT !.step = "gate", !.attempt = a], ledger)
  BY DEF idle, WorkerOK
<1>. QED BY <1>1, <1>2, WorkerStep DEF toGate

LEMMA Leave ==
  ASSUME Types, \A w \in Worker : WorkerOK(worker[w], ledger),
         NEW w0 \in Worker, leave(w0)
  PROVE  /\ worker' \in [Worker -> WorkerType]
         /\ \A w \in Worker : WorkerOK(worker'[w], ledger)
<1>1. idle \in WorkerType /\ WorkerOK(idle, ledger)
  BY DEF idle, WorkerType, Answer, Decision, WorkerOK
<1>. QED BY <1>1, WorkerStep DEF leave

\* One attempt's row changes, to one that respects the invariant.
LEMMA RowStep ==
  ASSUME AuthInv, NEW a0 \in Attempt, NEW r \in RowType,
         RecordOK(a0, r, ledger[a0]), VoidOK(a0, r, block.generation, voided),
         row' = [row EXCEPT ![a0] = r], UNCHANGED <<block, ledger, voided>>,
         worker' \in [Worker -> WorkerType],
         \A w \in Worker : WorkerOK(worker'[w], ledger)
  PROVE  AuthInv'
<1>1. Types'
  BY DEF AuthInv, Types
<1>2. \A w \in Worker : WorkerOK(worker'[w], ledger')
  OBVIOUS
<1>3. \A a \in Attempt : RecordOK(a, row'[a], ledger'[a])
  BY DEF AuthInv, Types
<1>4. \A a \in Attempt : VoidOK(a, row'[a], block'.generation, voided')
  BY DEF AuthInv, Types
<1>. QED BY <1>1, <1>2, <1>3, <1>4 DEF AuthInv

(***************************************************************************)
(* The actions.                                                            *)
(***************************************************************************)
LEMMA ClaimKeeps ==
  ASSUME AuthInv, NEW w \in Worker, NEW a \in Attempt, claimAuthorization(w, a)
  PROVE  AuthInv'
<1>. row[a] \in RowType /\ RecordOK(a, row[a], ledger[a])
     /\ VoidOK(a, row[a], block.generation, voided) /\ block.generation \in Nat
  BY DEF AuthInv, Types
<1>1. CASE ClaimNothing(w, a) \/ ClaimBlocked(w, a) \/ ClaimHeld(w, a)
  <2>1. toGate(w, a) /\ UNCHANGED <<row, block, ledger, voided>>
    BY <1>1 DEF ClaimNothing, ClaimBlocked, ClaimHeld
  <2>2. /\ worker' \in [Worker -> WorkerType]
        /\ \A x \in Worker : WorkerOK(worker'[x], ledger)
    BY <2>1, ToGate DEF AuthInv
  <2>. QED BY <2>1, <2>2 DEF AuthInv, Types
<1>2. CASE ClaimExpired(w, a)
  <2>. DEFINE r == [notInvoked(row[a], "suppressed") EXCEPT
                      !.authorization_state = "expired", !.lease = "none"]
  <2>1. toGate(w, a) /\ decisionPending(a) /\ row' = [row EXCEPT ![a] = r]
        /\ UNCHANGED <<block, ledger, voided>>
    BY <1>2 DEF ClaimExpired
  <2>2. r \in RowType /\ RecordOK(a, r, ledger[a])
        /\ VoidOK(a, r, block.generation, voided)
    BY <2>1 DEF decisionPending, notInvoked, RowType, RecordOK, VoidOK
  <2>3. /\ worker' \in [Worker -> WorkerType]
        /\ \A x \in Worker : WorkerOK(worker'[x], ledger)
    BY <2>1, ToGate DEF AuthInv
  <2>. HIDE DEF r
  <2>. QED BY <2>1, <2>2, <2>3, RowStep
<1>3. CASE Claim(w, a)
  <2>. DEFINE generation == row[a].authorization_generation + 1
              r == [row[a] EXCEPT !.authorization_generation = generation,
                                  !.lease = "running",
                                  !.project_generation = block.generation]
              h == [step |-> "asking", attempt |-> a, generation |-> generation,
                    project_generation |-> block.generation, answer |-> "none"]
  <2>1. decisionPending(a) /\ row' = [row EXCEPT ![a] = r]
        /\ worker' = [worker EXCEPT ![w] = h] /\ UNCHANGED <<block, ledger, voided>>
    BY <1>3 DEF Claim, claimable, AuthInv, Types
  <2>2. /\ row[a].state = "pending" /\ row[a].authorization_state = "pending"
        /\ row[a].authorization_generation + 1 \in Nat
    BY <2>1 DEF decisionPending, RowType
  <2>5. r \in RowType
    BY <2>2 DEF RowType
  <2>6. RecordOK(a, r, ledger[a]) /\ VoidOK(a, r, block.generation, voided)
    BY <2>2 DEF RowType, RecordOK, VoidOK
  <2>3. h \in WorkerType /\ WorkerOK(h, ledger)
    BY DEF WorkerType, WorkerOK, RowType, Answer, Decision
  <2>. HIDE DEF r, h
  <2>4. /\ worker' \in [Worker -> WorkerType]
        /\ \A x \in Worker : WorkerOK(worker'[x], ledger)
    BY <2>1, <2>3, WorkerStep DEF AuthInv
  <2>. QED BY <2>1, <2>4, <2>5, <2>6, RowStep
<1>. QED BY <1>1, <1>2, <1>3 DEF claimAuthorization

LEMMA ReserveKeeps ==
  ASSUME AuthInv, NEW w \in Worker, NEW answer \in Answer, Reserve(w, answer)
  PROVE  AuthInv'
<1>. DEFINE h == [worker[w] EXCEPT !.step = "answered", !.answer = answer]
<1>1. worker' = [worker EXCEPT ![w] = h] /\ UNCHANGED <<row, block, ledger, voided>>
  BY DEF Reserve, AuthInv, Types, WorkerType
<1>2. h \in WorkerType /\ WorkerOK(h, ledger)
  BY DEF Reserve, AuthInv, Types, WorkerType, WorkerOK, Answer, Decision
<1>. HIDE DEF h
<1>3. /\ worker' \in [Worker -> WorkerType]
      /\ \A x \in Worker : WorkerOK(worker'[x], ledger)
  BY <1>1, <1>2, WorkerStep DEF AuthInv
<1>. QED BY <1>1, <1>3 DEF AuthInv, Types

LEMMA FinishKeeps ==
  ASSUME AuthInv, NEW w \in Worker, finishAuthorization(w)
  PROVE  AuthInv'
<1>. DEFINE a == worker[w].attempt
            now == row[a]
<1>1. worker[w].step = "answered"
  BY DEF finishAuthorization, FinishStale, FinishWait, FinishDenied, FinishApproved
<1>2. a \in Attempt /\ (worker[w].answer \in Decision => ledger[a] = worker[w].answer)
  BY <1>1 DEF AuthInv, WorkerOK
<1>3. now \in RowType /\ RecordOK(a, now, ledger[a])
      /\ VoidOK(a, now, block.generation, voided) /\ block.generation \in Nat
  BY <1>2 DEF AuthInv, Types
<1>4. toGate(w, a)
  BY DEF finishAuthorization, FinishStale, FinishWait, FinishDenied, FinishApproved
<1>5. /\ worker' \in [Worker -> WorkerType]
      /\ \A x \in Worker : WorkerOK(worker'[x], ledger)
  BY <1>2, <1>4, ToGate DEF AuthInv
<1>6. CASE FinishStale(w)
  BY <1>5, <1>6 DEF FinishStale, AuthInv, Types
<1>7. CASE FinishWait(w)
  <2>1. CASE now.authorization_state # "pending"
    BY <1>5, <1>7, <2>1 DEF FinishWait, AuthInv, Types
  <2>2. CASE now.authorization_state = "pending"
    <3>. DEFINE r == [now EXCEPT !.lease = "none", !.retry = "waiting"]
    <3>1. row' = [row EXCEPT ![a] = r] /\ UNCHANGED <<block, ledger, voided>>
      BY <1>2, <1>7, <2>2 DEF FinishWait, AuthInv, Types
    <3>2. r \in RowType /\ RecordOK(a, r, ledger[a])
          /\ VoidOK(a, r, block.generation, voided)
      BY <1>3 DEF RowType, RecordOK, VoidOK
    <3>. HIDE DEF r, now, a
    <3>. QED BY <1>2, <1>5, <3>1, <3>2, RowStep
  <2>. QED BY <2>1, <2>2
<1>8. CASE FinishDenied(w)
  <2>. DEFINE r == [notInvoked(now, "suppressed") EXCEPT
                      !.authorization_state = "denied", !.lease = "none"]
  <2>1. /\ row' = [row EXCEPT ![a] = r] /\ ledger' = ledger
        /\ now.authorization_state \in {"pending", "expired"}
        /\ ledger[a] \in {"denied_route", "denied_project"}
        /\ worker[w].answer \in {"denied_route", "denied_project"}
    BY <1>2, <1>8 DEF FinishDenied, fenced, Decision
  <2>2. r \in RowType /\ RecordOK(a, r, ledger[a])
    BY <1>3, <2>1 DEF notInvoked, RowType, RecordOK
  <2>3. CASE worker[w].answer # "denied_project"
    <3>1. UNCHANGED <<block, voided>>
      BY <1>8, <2>3 DEF FinishDenied
    <3>2. VoidOK(a, r, block.generation, voided)
      BY <1>3, <2>1 DEF notInvoked, RowType, VoidOK
    <3>. HIDE DEF r, now, a
    <3>. QED BY <1>2, <1>5, <2>1, <2>2, <3>1, <3>2, RowStep
  <2>4. CASE worker[w].answer = "denied_project"
    <3>1. /\ block' = [generation |-> block.generation + 1, active |-> TRUE]
          /\ voided' = voided \cup {b \in Attempt : /\ row[b].state = "pending"
                                                  /\ row[b].authorization_state = "approved"}
      BY <1>8, <2>4 DEF FinishDenied, raised
    <3>2. VoidOK(a, r, block.generation + 1, voided')
      BY <1>3, <2>1, <3>1 DEF notInvoked, RowType, RecordOK, VoidOK
    <3>3. ASSUME NEW b \in Attempt, b # a
          PROVE  VoidOK(b, row[b], block.generation + 1, voided')
      <4>1. row[b] \in RowType /\ RecordOK(b, row[b], ledger[b])
            /\ VoidOK(b, row[b], block.generation, voided)
        BY DEF AuthInv, Types
      <4>2. row[b].project_generation \in Nat
        BY <4>1 DEF RowType
      <4>. QED BY <1>3, <3>1, <4>1, <4>2 DEF RecordOK, VoidOK
    <3>. HIDE DEF r, now
    <3>4. \A b \in Attempt : VoidOK(b, row'[b], block'.generation, voided')
      BY <1>2, <2>1, <3>1, <3>2, <3>3 DEF AuthInv, Types
    <3>5. \A b \in Attempt : RecordOK(b, row'[b], ledger'[b])
      BY <1>2, <2>1, <2>2 DEF AuthInv, Types
    <3>6. Types'
      BY <1>2, <1>3, <1>5, <2>1, <2>2, <3>1 DEF AuthInv, Types
    <3>. QED BY <1>5, <2>1, <3>4, <3>5, <3>6 DEF AuthInv
  <2>. QED BY <2>3, <2>4
<1>9. ASSUME NEW valid \in BOOLEAN, FinishApproved(w, valid)
      PROVE  AuthInv'
  <2>. DEFINE s == IF usable(w) /\ valid
                   THEN [now EXCEPT !.state = "pending", !.invocation = "not_started"]
                   ELSE notInvoked(now, "suppressed")
              r == [s EXCEPT !.authorization_state = "approved",
                             !.approval_valid = valid, !.lease = "none"]
  <2>1. /\ row' = [row EXCEPT ![a] = r] /\ UNCHANGED <<block, ledger, voided>>
        /\ now.authorization_state \in {"pending", "expired"}
        /\ ledger[a] = "approved"
        /\ usable(w) => now.state = "pending"
    BY <1>2, <1>9 DEF FinishApproved, fenced, usable, Decision
  <2>2. s \in RowType /\ s.state \in {"pending", "suppressed"}
        /\ s.project_generation = now.project_generation
        /\ s.authorization_state = now.authorization_state
        /\ (s.state = "pending" => now.state = "pending" /\ s.invocation = "not_started")
    BY <1>3, <2>1 DEF notInvoked, RowType
  <2>. HIDE DEF s
  <2>3. r \in RowType
    BY <2>2 DEF RowType
  <2>4. RecordOK(a, r, ledger[a]) /\ VoidOK(a, r, block.generation, voided)
    BY <1>3, <2>1, <2>2 DEF RowType, RecordOK, VoidOK
  <2>. HIDE DEF r, now, a
  <2>. QED BY <1>2, <1>5, <2>1, <2>3, <2>4, RowStep
<1>. QED BY <1>6, <1>7, <1>8, <1>9 DEF finishAuthorization

LEMMA GateKeeps ==
  ASSUME AuthInv, NEW w \in Worker, NEW a \in Attempt, dispatchGate(w, a)
  PROVE  AuthInv'
<1>1. leave(w) /\ UNCHANGED <<block, ledger, voided>>
  BY DEF dispatchGate, GateLeaves, GateSuppresses, GateRefuses, GateCommits
<1>2. /\ worker' \in [Worker -> WorkerType]
      /\ \A x \in Worker : WorkerOK(worker'[x], ledger)
  BY <1>1, Leave DEF AuthInv
<1>3. row[a] \in RowType /\ RecordOK(a, row[a], ledger[a])
      /\ VoidOK(a, row[a], block.generation, voided) /\ block.generation \in Nat
  BY DEF AuthInv, Types
<1>4. CASE GateLeaves(w, a)
  BY <1>1, <1>2, <1>4 DEF GateLeaves, AuthInv, Types
<1>5. ASSUME NEW state \in {"suppressed", "failed"},
             row' = [row EXCEPT ![a] = notInvoked(@, state)],
             state = "suppressed" \/ permitted(a)
      PROVE  AuthInv'
  <2>. DEFINE r == notInvoked(row[a], state)
  <2>1. row' = [row EXCEPT ![a] = r]
    BY <1>5
  <2>2. r \in RowType /\ RecordOK(a, r, ledger[a])
        /\ VoidOK(a, r, block.generation, voided)
    BY <1>3, <1>5 DEF notInvoked, RowType, RecordOK, VoidOK, permitted, approvalStands
  <2>. HIDE DEF r
  <2>. QED BY <1>1, <1>2, <2>1, <2>2, RowStep
<1>6. CASE GateSuppresses(w, a) \/ \E state \in {"suppressed", "failed"} : GateRefuses(w, a, state)
  BY <1>5, <1>6 DEF GateSuppresses, GateRefuses
<1>7. CASE GateCommits(w, a)
  <2>. DEFINE r == [row[a] EXCEPT !.state = "dispatching", !.invocation = "committed"]
  <2>1. row' = [row EXCEPT ![a] = r]
    BY <1>7 DEF GateCommits, AuthInv, Types
  <2>2. /\ row[a].state = "pending"
        /\ a \in Required => /\ row[a].authorization_state = "approved"
                             /\ row[a].project_generation = block.generation
    BY <1>7 DEF GateCommits, permitted, passes, approvalStands
  <2>3. r \in RowType
    BY <1>3 DEF RowType
  <2>4. RecordOK(a, r, ledger[a]) /\ VoidOK(a, r, block.generation, voided)
    BY <1>3, <2>2 DEF RowType, RecordOK, VoidOK
  <2>. HIDE DEF r
  <2>. QED BY <1>1, <1>2, <2>1, <2>3, <2>4, RowStep
<1>. QED BY <1>4, <1>6, <1>7 DEF dispatchGate

LEMMA DecideKeeps ==
  ASSUME AuthInv, NEW a \in Attempt, NEW decision \in Decision, Decide(a, decision)
  PROVE  AuthInv'
<1>1. /\ ledger[a] = "none" /\ ledger' = [ledger EXCEPT ![a] = decision]
      /\ UNCHANGED <<row, block, worker, voided>>
  BY DEF Decide
<1>2. Types'
  BY <1>1 DEF AuthInv, Types
<1>3. \A w \in Worker : WorkerOK(worker'[w], ledger')
  BY <1>1 DEF AuthInv, Types, WorkerOK, Decision
<1>4. \A b \in Attempt : RecordOK(b, row'[b], ledger'[b])
  BY <1>1 DEF AuthInv, Types, RecordOK
<1>5. \A b \in Attempt : VoidOK(b, row'[b], block'.generation, voided')
  BY <1>1 DEF AuthInv
<1>. QED BY <1>2, <1>3, <1>4, <1>5 DEF AuthInv

LEMMA EnvironmentKeeps ==
  ASSUME AuthInv, Environment
  PROVE  AuthInv'
<1>1. ASSUME NEW a \in Attempt, NEW r \in RowType, row' = [row EXCEPT ![a] = r],
             \/ r.state = row[a].state /\ r.invocation = row[a].invocation
             \/ r.state = "suppressed",
             r.authorization_state = row[a].authorization_state,
             r.project_generation = row[a].project_generation,
             UNCHANGED <<block, worker, ledger, voided>>
      PROVE  AuthInv'
  <2>1. RecordOK(a, r, ledger[a]) /\ VoidOK(a, r, block.generation, voided)
    BY <1>1 DEF AuthInv, RecordOK, VoidOK
  <2>. QED BY <1>1, <2>1, RowStep DEF AuthInv, Types
<1>2. ASSUME NEW a \in Attempt, NEW decision \in Decision, Decide(a, decision)
      PROVE  AuthInv'
  BY <1>2, DecideKeeps
<1>3. ASSUME NEW a \in Attempt, Supersede(a)
      PROVE  AuthInv'
  <2>1. CASE row[a].state = "pending"
    <3>. DEFINE r == notInvoked(row[a], "suppressed")
    <3>1. row' = [row EXCEPT ![a] = r] /\ UNCHANGED <<block, worker, ledger, voided>>
      BY <1>3, <2>1 DEF Supersede
    <3>3. row[a] \in RowType
      BY DEF AuthInv, Types
    <3>2. /\ r \in RowType /\ r.state = "suppressed"
          /\ r.authorization_state = row[a].authorization_state
          /\ r.project_generation = row[a].project_generation
      BY <3>3 DEF RowType, notInvoked
    <3>. HIDE DEF r
    <3>. QED BY <1>1, <3>1, <3>2
  <2>2. CASE row[a].state # "pending"
    BY <1>3, <2>2 DEF Supersede, AuthInv, Types
  <2>. QED BY <2>1, <2>2
<1>4. ASSUME NEW a \in Attempt, Withdraw(a) \/ PassDeadline(a)
      PROVE  AuthInv'
  BY <1>4 DEF Withdraw, PassDeadline, AuthInv, Types
<1>5. ASSUME NEW a \in Attempt, ApprovalExpires(a)
      PROVE  AuthInv'
  <2>. DEFINE r == [row[a] EXCEPT !.approval_valid = FALSE]
  <2>1. row' = [row EXCEPT ![a] = r] /\ UNCHANGED <<block, worker, ledger, voided>>
    BY <1>5 DEF ApprovalExpires, AuthInv, Types
  <2>3. row[a] \in RowType
    BY DEF AuthInv, Types
  <2>2. /\ r \in RowType /\ r.state = row[a].state /\ r.invocation = row[a].invocation
        /\ r.authorization_state = row[a].authorization_state
        /\ r.project_generation = row[a].project_generation
    BY <2>3 DEF RowType
  <2>. HIDE DEF r
  <2>. QED BY <1>1, <2>1, <2>2
<1>6. ASSUME NEW a \in Attempt, LeaseEnds(a)
      PROVE  AuthInv'
  <2>. DEFINE r == [row[a] EXCEPT !.lease = "over"]
  <2>1. row' = [row EXCEPT ![a] = r] /\ UNCHANGED <<block, worker, ledger, voided>>
    BY <1>6 DEF LeaseEnds, AuthInv, Types
  <2>3. row[a] \in RowType
    BY DEF AuthInv, Types
  <2>2. /\ r \in RowType /\ r.state = row[a].state /\ r.invocation = row[a].invocation
        /\ r.authorization_state = row[a].authorization_state
        /\ r.project_generation = row[a].project_generation
    BY <2>3 DEF RowType
  <2>. HIDE DEF r
  <2>. QED BY <1>1, <2>1, <2>2
<1>7. ASSUME NEW a \in Attempt, RetryDue(a)
      PROVE  AuthInv'
  <2>. DEFINE r == [row[a] EXCEPT !.retry = "due"]
  <2>1. row' = [row EXCEPT ![a] = r] /\ UNCHANGED <<block, worker, ledger, voided>>
    BY <1>7 DEF RetryDue, AuthInv, Types
  <2>3. row[a] \in RowType
    BY DEF AuthInv, Types
  <2>2. /\ r \in RowType /\ r.state = row[a].state /\ r.invocation = row[a].invocation
        /\ r.authorization_state = row[a].authorization_state
        /\ r.project_generation = row[a].project_generation
    BY <2>3 DEF RowType
  <2>. HIDE DEF r
  <2>. QED BY <1>1, <2>1, <2>2
<1>8. CASE BlockEnds
  BY <1>8 DEF BlockEnds, AuthInv, Types
<1>. QED BY <1>2, <1>3, <1>4, <1>5, <1>6, <1>7, <1>8 DEF Environment

LEMMA AuthKeeps ==
  ASSUME AuthInv, [Next]_vars
  PROVE  AuthInv'
<1>1. ASSUME NEW w \in Worker, NEW a \in Attempt, claimAuthorization(w, a)
      PROVE  AuthInv'
  BY <1>1, ClaimKeeps
<1>2. ASSUME NEW w \in Worker, Handler(w)
      PROVE  AuthInv'
  BY <1>2, ReserveKeeps, FinishKeeps, GateKeeps DEF Handler
<1>3. ASSUME NEW w \in Worker, Crash(w)
      PROVE  AuthInv'
  <2>1. leave(w) /\ UNCHANGED <<row, block, ledger, voided>>
    BY <1>3 DEF Crash
  <2>. QED BY <2>1, Leave DEF AuthInv, Types
<1>4. CASE recoverAuthorizations
  BY <1>4 DEF recoverAuthorizations, AuthInv, Types
<1>5. CASE Environment
  BY <1>5, EnvironmentKeeps
<1>6. CASE UNCHANGED vars
  BY <1>6 DEF vars, AuthInv, Types
<1>. QED BY <1>1, <1>2, <1>3, <1>4, <1>5, <1>6 DEF Next

LEMMA AuthInvariant == Spec => []AuthInv
<1>. QED BY InitAuth, AuthKeeps, PTL DEF Spec

-----------------------------------------------------------------------------
(***************************************************************************)
(* What one step may make of a row.                                        *)
(***************************************************************************)
FinalFrom(r, s) ==
  /\ r.authorization_state \in {"approved", "denied"} =>
       s.authorization_state = r.authorization_state
  /\ r.state # "pending" => s.state = r.state
  /\ r.invocation = "not_invoked" => s.invocation = "not_invoked"

\* A fenced row waits for its decision, so it is pending or suppressed.
LEMMA FencedIsOpen ==
  ASSUME AuthInv, NEW w \in Worker, worker[w].step = "answered", fenced(w)
  PROVE  LET r == row[worker[w].attempt] IN
         /\ worker[w].attempt \in Attempt
         /\ r \in RowType
         /\ r.state \in {"pending", "suppressed"}
         /\ r.state = "pending" => r.invocation # "not_invoked"
         /\ r.authorization_state \in {"pending", "expired"}
<1>. DEFINE a == worker[w].attempt
<1>1. a \in Attempt
  BY DEF AuthInv, WorkerOK
<1>2. row[a] \in RowType /\ RecordOK(a, row[a], ledger[a])
  BY <1>1 DEF AuthInv, Types
<1>3. row[a].authorization_state \in {"pending", "expired"}
  BY DEF fenced
<1>. QED BY <1>1, <1>2, <1>3 DEF RecordOK, RowType

LEMMA HandlerIsFinal ==
  ASSUME AuthInv, NEW w \in Worker, Handler(w), NEW a \in Attempt
  PROVE  FinalFrom(row[a], row'[a])
<1>1. ASSUME NEW b \in Attempt, NEW r, row' = [row EXCEPT ![b] = r],
             FinalFrom(row[b], r)
      PROVE  FinalFrom(row[a], row'[a])
  BY <1>1 DEF AuthInv, Types, FinalFrom
<1>2. CASE row' = row
  BY <1>2 DEF FinalFrom
<1>3. ASSUME NEW b \in Attempt, dispatchGate(w, b)
      PROVE  FinalFrom(row[a], row'[a])
  <2>1. row[b] \in RowType /\ RecordOK(b, row[b], ledger[b])
    BY DEF AuthInv, Types
  <2>2. CASE GateLeaves(w, b)
    BY <1>2, <2>2 DEF GateLeaves
  <2>3. ASSUME NEW state \in {"suppressed", "failed"},
               row' = [row EXCEPT ![b] = notInvoked(@, state)], row[b].state = "pending"
        PROVE  FinalFrom(row[a], row'[a])
    <3>. DEFINE r == notInvoked(row[b], state)
    <3>1. FinalFrom(row[b], r)
      BY <2>1, <2>3 DEF notInvoked, FinalFrom, RowType
    <3>2. row' = [row EXCEPT ![b] = r]
      BY <2>3
    <3>. HIDE DEF r
    <3>. QED BY <1>1, <3>1, <3>2
  <2>4. CASE GateSuppresses(w, b) \/ \E state \in {"suppressed", "failed"} : GateRefuses(w, b, state)
    BY <2>3, <2>4 DEF GateSuppresses, GateRefuses, permitted, passes
  <2>5. CASE GateCommits(w, b)
    <3>. DEFINE r == [row[b] EXCEPT !.state = "dispatching", !.invocation = "committed"]
    <3>1. row[b].state = "pending" /\ row' = [row EXCEPT ![b] = r]
      BY <2>5 DEF GateCommits, permitted, passes, AuthInv, Types
    <3>2. FinalFrom(row[b], r)
      BY <2>1, <3>1 DEF FinalFrom, RowType, RecordOK
    <3>. HIDE DEF r
    <3>. QED BY <1>1, <3>1, <3>2
  <2>. QED BY <1>3, <2>2, <2>4, <2>5 DEF dispatchGate
<1>4. CASE finishAuthorization(w)
  <2>. DEFINE b == worker[w].attempt
              now == row[b]
  <2>1. CASE FinishStale(w) \/ row' = row
    BY <1>2, <2>1 DEF FinishStale
  <2>2. CASE worker[w].step = "answered" /\ fenced(w)
    <3>1. /\ b \in Attempt /\ now \in RowType
          /\ now.state \in {"pending", "suppressed"}
          /\ now.state = "pending" => now.invocation # "not_invoked"
          /\ now.authorization_state \in {"pending", "expired"}
      BY <2>2, FencedIsOpen
    <3>2. CASE FinishWait(w) /\ row' # row
      <4>. DEFINE r == [now EXCEPT !.lease = "none", !.retry = "waiting"]
      <4>1. row' = [row EXCEPT ![b] = r]
        BY <3>1, <3>2 DEF FinishWait, AuthInv, Types
      <4>2. FinalFrom(now, r)
        BY <3>1 DEF FinalFrom, RowType
      <4>. HIDE DEF r, now, b
      <4>. QED BY <1>1, <3>1, <4>1, <4>2 DEF now
    <3>3. CASE FinishDenied(w)
      <4>. DEFINE r == [notInvoked(now, "suppressed") EXCEPT
                          !.authorization_state = "denied", !.lease = "none"]
      <4>1. row' = [row EXCEPT ![b] = r]
        BY <3>3 DEF FinishDenied
      <4>2. FinalFrom(now, r)
        BY <3>1 DEF FinalFrom, RowType, notInvoked
      <4>. HIDE DEF r, now, b
      <4>. QED BY <1>1, <3>1, <4>1, <4>2 DEF now
    <3>4. ASSUME NEW valid \in BOOLEAN, FinishApproved(w, valid)
          PROVE  FinalFrom(row[a], row'[a])
      <4>. DEFINE s == IF usable(w) /\ valid
                       THEN [now EXCEPT !.state = "pending", !.invocation = "not_started"]
                       ELSE notInvoked(now, "suppressed")
                  r == [s EXCEPT !.authorization_state = "approved",
                                 !.approval_valid = valid, !.lease = "none"]
      <4>1. row' = [row EXCEPT ![b] = r] /\ (usable(w) => now.state = "pending")
        BY <3>4 DEF FinishApproved, usable
      <4>2. /\ s \in RowType
            /\ now.state # "pending" => s.state = now.state
            /\ now.invocation = "not_invoked" => s.invocation = "not_invoked"
        BY <3>1, <4>1 DEF notInvoked, RowType
      <4>. HIDE DEF s
      <4>3. FinalFrom(now, r)
        BY <3>1, <4>2 DEF FinalFrom, RowType
      <4>. HIDE DEF r, now, b
      <4>. QED BY <1>1, <3>1, <4>1, <4>3 DEF now
    <3>. QED BY <1>2, <1>4, <2>1, <3>2, <3>3, <3>4 DEF finishAuthorization
  <2>. QED BY <1>4, <2>1, <2>2
          DEF finishAuthorization, FinishStale, FinishWait, FinishDenied, FinishApproved
<1>5. CASE \E answer \in Answer : Reserve(w, answer)
  BY <1>2, <1>5 DEF Reserve
<1>. QED BY <1>3, <1>4, <1>5 DEF Handler

LEMMA StepIsFinal ==
  ASSUME AuthInv, [Next]_vars, NEW a \in Attempt
  PROVE  FinalFrom(row[a], row'[a])
<1>1. ASSUME NEW b \in Attempt, NEW r, row' = [row EXCEPT ![b] = r],
             FinalFrom(row[b], r)
      PROVE  FinalFrom(row[a], row'[a])
  BY <1>1 DEF AuthInv, Types, FinalFrom
<1>2. CASE row' = row
  BY <1>2 DEF FinalFrom
<1>3. ASSUME NEW w \in Worker, NEW b \in Attempt, claimAuthorization(w, b)
      PROVE  FinalFrom(row[a], row'[a])
  <2>1. row[b] \in RowType
    BY DEF AuthInv, Types
  <2>2. CASE ClaimNothing(w, b) \/ ClaimBlocked(w, b) \/ ClaimHeld(w, b)
    BY <1>2, <2>2 DEF ClaimNothing, ClaimBlocked, ClaimHeld
  <2>3. CASE ClaimExpired(w, b)
    <3>. DEFINE r == [notInvoked(row[b], "suppressed") EXCEPT
                        !.authorization_state = "expired", !.lease = "none"]
    <3>1. decisionPending(b) /\ row' = [row EXCEPT ![b] = r]
      BY <2>3 DEF ClaimExpired
    <3>2. FinalFrom(row[b], r)
      BY <2>1, <3>1 DEF decisionPending, notInvoked, FinalFrom, RowType
    <3>. HIDE DEF r
    <3>. QED BY <1>1, <3>1, <3>2
  <2>4. CASE Claim(w, b)
    <3>. DEFINE r == [row[b] EXCEPT
                        !.authorization_generation = row[b].authorization_generation + 1,
                        !.lease = "running", !.project_generation = block.generation]
    <3>1. row' = [row EXCEPT ![b] = r]
      BY <2>4 DEF Claim, AuthInv, Types
    <3>2. FinalFrom(row[b], r)
      BY <2>1 DEF FinalFrom, RowType
    <3>. HIDE DEF r
    <3>. QED BY <1>1, <3>1, <3>2
  <2>. QED BY <1>3, <2>2, <2>3, <2>4 DEF claimAuthorization
<1>4. ASSUME NEW b \in Attempt, Supersede(b), row' # row
      PROVE  FinalFrom(row[a], row'[a])
  <2>. DEFINE r == notInvoked(row[b], "suppressed")
  <2>1. row[b].state = "pending" /\ row' = [row EXCEPT ![b] = r]
    BY <1>4 DEF Supersede
  <2>2. FinalFrom(row[b], r)
    BY <2>1 DEF FinalFrom, notInvoked, AuthInv, Types, RowType
  <2>. HIDE DEF r
  <2>. QED BY <1>1, <2>1, <2>2
<1>5. ASSUME NEW b \in Attempt, ApprovalExpires(b) \/ LeaseEnds(b) \/ RetryDue(b)
      PROVE  FinalFrom(row[a], row'[a])
  BY <1>5 DEF ApprovalExpires, LeaseEnds, RetryDue, FinalFrom, AuthInv, Types, RowType
<1>6. CASE Environment
  BY <1>2, <1>4, <1>5, <1>6 DEF Environment, Decide, Withdraw, PassDeadline, BlockEnds
<1>. QED BY <1>2, <1>3, <1>6, HandlerIsFinal DEF Next, vars, Crash, recoverAuthorizations

-----------------------------------------------------------------------------
(***************************************************************************)
(* What a required attempt may be given up for.                            *)
(***************************************************************************)
\* A row that waits has no expired decision, and one that ended unsent while its
\* operation still wants it has the decision it ended under.
GivenUpOK(r, o) ==
  /\ r.state = "pending" => r.authorization_state # "expired"
  /\ r.state \in {"suppressed", "failed"} /\ o.current /\ o.entitled /\ ~o.late =>
       r.authorization_state \in {"approved", "denied"}

GivenUpInv ==
  /\ op \in [Attempt -> [current : BOOLEAN, entitled : BOOLEAN, late : BOOLEAN]]
  /\ \A a \in Required : GivenUpOK(row[a], op[a])

LEMMA GivenUpRow ==
  ASSUME AuthInv, GivenUpInv, NEW b \in Attempt, NEW r, row' = [row EXCEPT ![b] = r],
         b \in Required => GivenUpOK(r, op[b]), UNCHANGED op
  PROVE  GivenUpInv'
  BY RequiredAssumption DEF AuthInv, Types, GivenUpInv

LEMMA ClaimGivesNothingUp ==
  ASSUME AuthInv, GivenUpInv, NEW w \in Worker, NEW b \in Attempt, claimAuthorization(w, b)
  PROVE  GivenUpInv'
<1>. row[b] \in RowType /\ (b \in Required => GivenUpOK(row[b], op[b]))
  BY DEF AuthInv, Types, GivenUpInv
<1>1. CASE ClaimNothing(w, b) \/ ClaimBlocked(w, b) \/ ClaimHeld(w, b)
  BY <1>1 DEF ClaimNothing, ClaimBlocked, ClaimHeld, GivenUpInv
<1>2. CASE ClaimExpired(w, b)
  <2>. DEFINE r == [notInvoked(row[b], "suppressed") EXCEPT
                      !.authorization_state = "expired", !.lease = "none"]
  <2>1. /\ row' = [row EXCEPT ![b] = r] /\ UNCHANGED op
        /\ ~eligible(b) \/ op[b].late
    BY <1>2 DEF ClaimExpired
  <2>2. GivenUpOK(r, op[b])
    BY <2>1 DEF eligible, notInvoked, GivenUpOK, RowType
  <2>. HIDE DEF r
  <2>. QED BY <2>1, <2>2, GivenUpRow
<1>3. CASE Claim(w, b)
  <2>. DEFINE r == [row[b] EXCEPT
                      !.authorization_generation = row[b].authorization_generation + 1,
                      !.lease = "running", !.project_generation = block.generation]
  <2>1. row' = [row EXCEPT ![b] = r] /\ UNCHANGED op
    BY <1>3 DEF Claim, AuthInv, Types
  <2>2. b \in Required => GivenUpOK(r, op[b])
    BY DEF GivenUpOK, RowType
  <2>. HIDE DEF r
  <2>. QED BY <2>1, <2>2, GivenUpRow
<1>. QED BY <1>1, <1>2, <1>3 DEF claimAuthorization

LEMMA FinishGivesUpDecided ==
  ASSUME AuthInv, GivenUpInv, NEW w \in Worker, finishAuthorization(w)
  PROVE  GivenUpInv'
<1>. DEFINE b == worker[w].attempt
<1>1. worker[w].step = "answered"
  BY DEF finishAuthorization, FinishStale, FinishWait, FinishDenied, FinishApproved
<1>2. /\ b \in Attempt /\ row[b] \in RowType
      /\ b \in Required => GivenUpOK(row[b], op[b])
  BY <1>1 DEF AuthInv, WorkerOK, Types, GivenUpInv
<1>3. CASE FinishStale(w)
  BY <1>3 DEF FinishStale, GivenUpInv
<1>4. CASE FinishWait(w)
  <2>. DEFINE r == [row[b] EXCEPT !.lease = "none", !.retry = "waiting"]
  <2>1. UNCHANGED op /\ (row' = row \/ row' = [row EXCEPT ![b] = r])
    BY <1>4, <1>2 DEF FinishWait, AuthInv, Types
  <2>2. b \in Required => GivenUpOK(r, op[b])
    BY <1>2 DEF GivenUpOK, RowType
  <2>3. CASE row' = row
    BY <2>1, <2>3 DEF GivenUpInv
  <2>. HIDE DEF r
  <2>. QED BY <1>2, <2>1, <2>2, <2>3, GivenUpRow
<1>5. CASE FinishDenied(w)
  <2>. DEFINE r == [notInvoked(row[b], "suppressed") EXCEPT
                      !.authorization_state = "denied", !.lease = "none"]
  <2>1. row' = [row EXCEPT ![b] = r] /\ UNCHANGED op
    BY <1>5 DEF FinishDenied
  <2>2. GivenUpOK(r, op[b])
    BY <1>2 DEF notInvoked, GivenUpOK, RowType
  <2>. HIDE DEF r
  <2>. QED BY <1>2, <2>1, <2>2, GivenUpRow
<1>6. ASSUME NEW valid \in BOOLEAN, FinishApproved(w, valid) PROVE GivenUpInv'
  <2>. DEFINE kept == IF usable(w) /\ valid
                      THEN [row[b] EXCEPT !.state = "pending", !.invocation = "not_started"]
                      ELSE notInvoked(row[b], "suppressed")
              r == [kept EXCEPT !.authorization_state = "approved",
                                !.approval_valid = valid, !.lease = "none"]
  <2>1. row' = [row EXCEPT ![b] = r] /\ UNCHANGED op
    BY <1>6 DEF FinishApproved
  <2>2. r.authorization_state = "approved"
    BY <1>2 DEF notInvoked, RowType
  <2>3. GivenUpOK(r, op[b])
    BY <2>2 DEF GivenUpOK
  <2>. HIDE DEF r
  <2>. QED BY <1>2, <2>1, <2>3, GivenUpRow
<1>. QED BY <1>3, <1>4, <1>5, <1>6 DEF finishAuthorization

LEMMA GateGivesUpDecided ==
  ASSUME AuthInv, GivenUpInv, NEW w \in Worker, NEW b \in Attempt, dispatchGate(w, b)
  PROVE  GivenUpInv'
<1>. /\ row[b] \in RowType /\ RecordOK(b, row[b], ledger[b])
     /\ b \in Required => GivenUpOK(row[b], op[b])
  BY DEF AuthInv, Types, GivenUpInv
<1>1. CASE GateLeaves(w, b)
  BY <1>1 DEF GateLeaves, GivenUpInv
<1>2. CASE GateSuppresses(w, b)
  <2>. DEFINE r == notInvoked(row[b], "suppressed")
  <2>1. /\ row' = [row EXCEPT ![b] = r] /\ UNCHANGED op
        /\ row[b].state = "pending" /\ (eligible(b) => ~awaitsDecision(b))
    BY <1>2 DEF GateSuppresses, passes
  <2>2. b \in Required => GivenUpOK(r, op[b])
    BY <2>1 DEF eligible, awaitsDecision, notInvoked, GivenUpOK, RecordOK, RowType
  <2>. HIDE DEF r
  <2>. QED BY <2>1, <2>2, GivenUpRow
<1>3. ASSUME NEW state \in {"suppressed", "failed"}, GateRefuses(w, b, state)
      PROVE  GivenUpInv'
  <2>. DEFINE r == notInvoked(row[b], state)
  <2>1. /\ row' = [row EXCEPT ![b] = r] /\ UNCHANGED op
        /\ b \in Required => row[b].authorization_state = "approved"
    BY <1>3 DEF GateRefuses, permitted, approvalStands
  <2>2. b \in Required => GivenUpOK(r, op[b])
    BY <2>1 DEF notInvoked, GivenUpOK, RowType
  <2>. HIDE DEF r
  <2>. QED BY <2>1, <2>2, GivenUpRow
<1>4. CASE GateCommits(w, b)
  <2>. DEFINE r == [row[b] EXCEPT !.state = "dispatching", !.invocation = "committed"]
  <2>1. row' = [row EXCEPT ![b] = r] /\ UNCHANGED op
    BY <1>4 DEF GateCommits, AuthInv, Types
  <2>2. GivenUpOK(r, op[b])
    BY DEF GivenUpOK, RowType
  <2>. HIDE DEF r
  <2>. QED BY <2>1, <2>2, GivenUpRow
<1>. QED BY <1>1, <1>2, <1>3, <1>4 DEF dispatchGate

LEMMA SurroundingsGiveNothingUp ==
  ASSUME AuthInv, GivenUpInv, Environment
  PROVE  GivenUpInv'
<1>1. ASSUME NEW b \in Attempt, Supersede(b) PROVE GivenUpInv'
  <2>1. ASSUME NEW a \in Required PROVE GivenUpOK(row'[a], op'[a])
    BY <1>1, <2>1, RequiredAssumption
       DEF Supersede, notInvoked, GivenUpOK, GivenUpInv, AuthInv, Types, RowType
  <2>. QED BY <1>1, <2>1 DEF Supersede, GivenUpInv
<1>2. ASSUME NEW b \in Attempt, Withdraw(b) \/ PassDeadline(b) PROVE GivenUpInv'
  <2>1. ASSUME NEW a \in Required PROVE GivenUpOK(row'[a], op'[a])
    BY <1>2, <2>1, RequiredAssumption DEF Withdraw, PassDeadline, GivenUpOK, GivenUpInv
  <2>. QED BY <1>2, <2>1 DEF Withdraw, PassDeadline, GivenUpInv
<1>3. ASSUME NEW b \in Attempt, ApprovalExpires(b) \/ LeaseEnds(b) \/ RetryDue(b)
      PROVE  GivenUpInv'
  <2>1. /\ row'[b].state = row[b].state
        /\ row'[b].authorization_state = row[b].authorization_state
        /\ \A a \in Attempt \ {b} : row'[a] = row[a]
        /\ UNCHANGED op
    BY <1>3 DEF ApprovalExpires, LeaseEnds, RetryDue, AuthInv, Types, RowType
  <2>. QED BY <2>1, RequiredAssumption DEF GivenUpOK, GivenUpInv
<1>. QED BY <1>1, <1>2, <1>3 DEF Environment, Decide, BlockEnds, GivenUpInv

LEMMA GivenUpKeeps == AuthInv /\ GivenUpInv /\ [Next]_vars => GivenUpInv'
<1>. SUFFICES ASSUME AuthInv, GivenUpInv, [Next]_vars PROVE GivenUpInv'
  OBVIOUS
<1>1. CASE UNCHANGED <<row, op>>
  BY <1>1 DEF GivenUpInv
<1>2. ASSUME NEW w \in Worker, Handler(w) PROVE GivenUpInv'
  BY <1>1, <1>2, FinishGivesUpDecided, GateGivesUpDecided DEF Handler, Reserve
<1>. QED
  BY <1>1, <1>2, ClaimGivesNothingUp, SurroundingsGiveNothingUp
     DEF Next, vars, Crash, recoverAuthorizations

\* A decision on record is the authority's own, and a required attempt is committed to
\* a send only under its approval: finishAuthorization records no other answer, and
\* the gate reads the record in the transaction that commits.  Nor is one given up
\* without a decision: a claim that gets no answer leaves the row waiting, and the gate
\* leaves a row alone that waits for a decision, until its time is up.
THEOREM AuthorityDecides == Spec => []AuthorityIsObeyed
<1>1. Init => GivenUpInv
  BY RequiredAssumption DEF Init, GivenUpInv, GivenUpOK
<1>2. AuthInv /\ GivenUpInv => AuthorityIsObeyed
  <2>. SUFFICES ASSUME AuthInv, GivenUpInv PROVE AuthorityIsObeyed
    OBVIOUS
  <2>1. DispatchOnlyIfApproved
    BY DEF AuthInv, RecordOK, DispatchOnlyIfApproved
  <2>2. GivenUpOnlyIfDecided
    BY DEF GivenUpInv, GivenUpOK, GivenUpOnlyIfDecided, eligible
  <2>. QED BY <2>1, <2>2 DEF AuthorityIsObeyed
<1>. QED BY <1>1, <1>2, GivenUpKeeps, AuthInvariant, PTL DEF Spec

\* An approval on record at a project denial is never used: the denial starts a new
\* generation in the transaction that records it, which the gate compares.
THEOREM DenialVoidsApprovals == Spec => []ProjectDenialVoidsApprovals
<1>1. AuthInv => ProjectDenialVoidsApprovals
  BY DEF AuthInv, Types, VoidOK, ProjectDenialVoidsApprovals
<1>. QED BY <1>1, AuthInvariant, PTL

\* A recorded decision and a recorded end are final, and noninvocation once stated is
\* never taken back: a late answer is written to a row that still waits for one, and
\* revives only what is still pending.
THEOREM RecordedIsFinal == Spec => DecisionsAreFinal
<1>1. AuthInv /\ [Next]_vars =>
        [\A a \in Attempt :
           /\ row[a].authorization_state \in {"approved", "denied"} =>
                row'[a].authorization_state = row[a].authorization_state
           /\ row[a].state # "pending" => row'[a].state = row[a].state
           /\ row[a].invocation = "not_invoked" => row'[a].invocation = "not_invoked"]_vars
  BY StepIsFinal DEF FinalFrom
<1>. QED BY <1>1, AuthInvariant, PTL DEF Spec, DecisionsAreFinal
-----------------------------------------------------------------------------
(***************************************************************************)
(* The bounds.  A project denial raises the generation of the block once,  *)
(* when its decision is recorded, so the generation never passes the       *)
(* number of the denials on record, and these are the authority's.         *)
(***************************************************************************)
deniers == {a \in Attempt : ledger[a] = "denied_project"}

recorded == {a \in deniers : row[a].authorization_state = "denied"}

BlockBound ==
  /\ IsFiniteSet(deniers)
  /\ denials <= MaxBlocks
  /\ block.generation <= Cardinality(recorded)

\* A handler in the middle of a job, with its copies of the generations.
ClaimBound(r, generation) ==
  /\ r.step # "idle" => r.attempt \in Attempt
  /\ r.generation <= MaxGeneration
  /\ r.project_generation <= generation

Bounds ==
  /\ op \in [Attempt -> [current : BOOLEAN, entitled : BOOLEAN, late : BOOLEAN]]
  /\ jobs \subseteq Attempt
  /\ \A a \in Attempt : row[a].authorization_generation <= MaxGeneration
  /\ \A w \in Worker : ClaimBound(worker[w], block.generation)

LEMMA InitBounds == Init => Bounds /\ BlockBound
<1>. SUFFICES ASSUME Init PROVE Bounds /\ BlockBound
  OBVIOUS
<1>1. Bounds
  BY BoundsAssumption, IdleAssumption DEF Init, Bounds, ClaimBound, idle
<1>2. deniers = {} /\ recorded = {}
  BY DEF Init, deniers, recorded
<1>3. denials = Cardinality(deniers)
  BY DEF denials, deniers
<1>. QED BY <1>1, <1>2, <1>3, FS_EmptySet, BoundsAssumption DEF Init, BlockBound

\* What the generations have come to is within the bounds.
LEMMA BlockIsBounded ==
  ASSUME AuthInv, BlockBound
  PROVE  block.generation \in 0 .. MaxBlocks
<1>1. IsFiniteSet(recorded) /\ Cardinality(recorded) <= Cardinality(deniers)
  BY FS_Subset DEF BlockBound, recorded
<1>2. denials = Cardinality(deniers)
  BY DEF denials, deniers
<1>3. Cardinality(deniers) \in Nat /\ Cardinality(recorded) \in Nat
  BY <1>1, FS_CardinalityType DEF BlockBound
<1>. QED BY <1>1, <1>2, <1>3, BoundsAssumption DEF AuthInv, Types, BlockBound

\* A decision of the authority adds one denial at most, below the bound.
LEMMA DecideBound ==
  ASSUME AuthInv, BlockBound, NEW a \in Attempt, NEW decision \in Decision,
         Decide(a, decision)
  PROVE  IsFiniteSet(deniers') /\ denials' <= MaxBlocks /\ deniers \subseteq deniers'
<1>1. ledger[a] = "none" /\ ledger' = [ledger EXCEPT ![a] = decision]
  BY DEF Decide
<1>2. denials = Cardinality(deniers) /\ denials' = Cardinality(deniers')
  BY DEF denials, deniers
<1>3. CASE decision # "denied_project"
  <2>1. deniers' = deniers
    BY <1>1, <1>3 DEF deniers, AuthInv, Types
  <2>. QED BY <1>2, <2>1 DEF BlockBound
<1>4. CASE decision = "denied_project"
  <2>1. deniers' = deniers \cup {a} /\ a \notin deniers
    BY <1>1, <1>4 DEF deniers, AuthInv, Types
  <2>2. denials < MaxBlocks
    BY <1>4 DEF Decide
  <2>3. IsFiniteSet(deniers') /\ Cardinality(deniers') = Cardinality(deniers) + 1
    BY <2>1, FS_AddElement DEF BlockBound
  <2>4. Cardinality(deniers) \in Nat
    BY FS_CardinalityType DEF BlockBound
  <2>. QED BY <1>2, <2>1, <2>2, <2>3, <2>4, BoundsAssumption
<1>. QED BY <1>3, <1>4

\* The only step that raises the generation records one more denial of the project.
LEMMA RaiseRecords ==
  ASSUME AuthInv, [Next]_vars, block'.generation # block.generation
  PROVE  /\ block'.generation = block.generation + 1
         /\ ledger' = ledger
         /\ \E a \in deniers : a \notin recorded /\ row'[a].authorization_state = "denied"
<1>1. PICK w \in Worker : FinishDenied(w) /\ worker[w].answer = "denied_project"
  <2>1. ASSUME NEW w \in Worker, NEW a \in Attempt, claimAuthorization(w, a)
        PROVE  block' = block
    BY <2>1 DEF claimAuthorization, ClaimNothing, ClaimExpired, ClaimBlocked, ClaimHeld, Claim
  <2>2. ASSUME NEW w \in Worker, Handler(w), block' # block
        PROVE  FinishDenied(w) /\ worker[w].answer = "denied_project"
    BY <2>2 DEF Handler, Reserve, finishAuthorization, FinishStale, FinishWait, FinishDenied,
                FinishApproved, dispatchGate, GateLeaves, GateSuppresses, GateRefuses,
                GateCommits
  <2>3. CASE Environment
    <3>1. CASE BlockEnds
      BY <3>1 DEF BlockEnds, AuthInv, Types
    <3>2. CASE ~BlockEnds
      BY <2>3, <3>2 DEF Environment, Decide, Supersede, Withdraw, PassDeadline,
                        ApprovalExpires, LeaseEnds, RetryDue
    <3>. QED BY <3>1, <3>2
  <2>. QED BY <2>1, <2>2, <2>3 DEF Next, Crash, recoverAuthorizations, vars
<1>. DEFINE a == worker[w].attempt
<1>2. a \in Attempt /\ ledger[a] = "denied_project" /\ row[a].authorization_state # "denied"
  BY <1>1 DEF FinishDenied, fenced, AuthInv, WorkerOK, Decision
<1>3. row'[a].authorization_state = "denied"
  <2>1. row[a] \in RowType
    BY <1>2 DEF AuthInv, Types
  <2>. DEFINE r == [notInvoked(row[a], "suppressed") EXCEPT
                      !.authorization_state = "denied", !.lease = "none"]
  <2>2. row' = [row EXCEPT ![a] = r]
    BY <1>1 DEF FinishDenied
  <2>3. r.authorization_state = "denied"
    BY <2>1 DEF notInvoked, RowType
  <2>. QED BY <1>2, <2>2, <2>3 DEF AuthInv, Types
<1>4. ledger' = ledger /\ block'.generation = block.generation + 1
  BY <1>1 DEF FinishDenied, raised
<1>. QED BY <1>2, <1>3, <1>4 DEF deniers, recorded

LEMMA BlockBoundKeeps ==
  ASSUME AuthInv, BlockBound, [Next]_vars
  PROVE  BlockBound'
<1>1. IsFiniteSet(deniers') /\ denials' <= MaxBlocks /\ deniers \subseteq deniers'
  <2>1. CASE ledger' = ledger
    BY <2>1 DEF deniers, denials, BlockBound
  <2>2. CASE ledger' # ledger
    <3>1. \A w \in Worker : Handler(w) => ledger' = ledger
      BY DEF Handler, Reserve, finishAuthorization, FinishStale, FinishWait, FinishDenied,
             FinishApproved, dispatchGate, GateLeaves, GateSuppresses, GateRefuses,
             GateCommits
    <3>2. \A w \in Worker, a \in Attempt : claimAuthorization(w, a) => ledger' = ledger
      BY DEF claimAuthorization, ClaimNothing, ClaimExpired, ClaimBlocked, ClaimHeld, Claim
    <3>3. Environment
      BY <2>2, <3>1, <3>2 DEF Next, Crash, recoverAuthorizations, vars
    <3>4. \E a \in Attempt, decision \in Decision : Decide(a, decision)
      BY <2>2, <3>3 DEF Environment, Supersede, Withdraw, PassDeadline, ApprovalExpires,
                        LeaseEnds, RetryDue, BlockEnds
    <3>. QED BY <3>4, DecideBound
  <2>. QED BY <2>1, <2>2
<1>2. \A a \in Attempt : FinalFrom(row[a], row'[a])
  BY StepIsFinal
<1>3. recorded \subseteq recorded' /\ recorded' \subseteq deniers'
  BY <1>1, <1>2 DEF recorded, deniers, FinalFrom
<1>4. IsFiniteSet(recorded')
  BY <1>1, <1>3, FS_Subset
<1>5. IsFiniteSet(recorded) /\ Cardinality(recorded) <= Cardinality(recorded')
  BY <1>3, <1>4, FS_Subset
<1>6. Cardinality(recorded) \in Nat /\ Cardinality(recorded') \in Nat
  BY <1>4, <1>5, FS_CardinalityType
<1>7. block.generation \in Nat /\ block'.generation \in Nat
  BY AuthKeeps DEF AuthInv, Types
<1>8. CASE block'.generation = block.generation
  BY <1>1, <1>5, <1>6, <1>7, <1>8 DEF BlockBound
<1>9. CASE block'.generation # block.generation
  <2>1. /\ block'.generation = block.generation + 1
        /\ ledger' = ledger
    BY <1>9, RaiseRecords
  <2>2. PICK a \in deniers : a \notin recorded /\ row'[a].authorization_state = "denied"
    BY <1>9, RaiseRecords
  <2>3. recorded \cup {a} \subseteq recorded'
    BY <1>3, <2>1, <2>2 DEF recorded, deniers
  <2>4. Cardinality(recorded \cup {a}) = Cardinality(recorded) + 1
    BY <1>5, <2>2, FS_AddElement
  <2>5. Cardinality(recorded \cup {a}) <= Cardinality(recorded')
    BY <1>4, <2>3, FS_Subset
  <2>. QED BY <1>1, <1>6, <1>7, <2>1, <2>4, <2>5 DEF BlockBound
<1>. QED BY <1>8, <1>9

(***************************************************************************)
(* The copies of the generations, and the parts of the state no other      *)
(* theorem is about.                                                       *)
(***************************************************************************)
\* One handler moves, to a record within the bounds.
LEMMA BoundedWorker ==
  ASSUME AuthInv, Bounds, NEW w0 \in Worker, NEW r, ClaimBound(r, block.generation),
         worker' = [worker EXCEPT ![w0] = r],
         block'.generation \in Nat, block'.generation >= block.generation,
         r.project_generation \in Nat
  PROVE  \A w \in Worker : ClaimBound(worker'[w], block'.generation)
<1>1. \A w \in Worker : worker[w].project_generation \in Nat /\ block.generation \in Nat
  BY DEF AuthInv, Types, WorkerType
<1>. QED BY <1>1 DEF Bounds, ClaimBound, AuthInv, Types

LEMMA BoundedGate ==
  ASSUME AuthInv, Bounds, NEW w0 \in Worker, NEW a,
         (toGate(w0, a) /\ a \in Attempt) \/ leave(w0),
         block'.generation \in Nat, block'.generation >= block.generation
  PROVE  \A w \in Worker : ClaimBound(worker'[w], block'.generation)
<1>. DEFINE g == [idle EXCEPT !.step = "gate", !.attempt = a]
<1>0. block.generation \in Nat
  BY DEF AuthInv, Types
<1>1. ClaimBound(idle, block.generation) /\ idle.project_generation \in Nat
  BY <1>0, BoundsAssumption DEF ClaimBound, idle
<1>2. a \in Attempt => ClaimBound(g, block.generation) /\ g.project_generation \in Nat
  BY <1>0, BoundsAssumption DEF ClaimBound, idle
<1>. HIDE DEF g
<1>3. CASE toGate(w0, a) /\ a \in Attempt
  <2>1. worker' = [worker EXCEPT ![w0] = g]
    BY <1>3 DEF toGate, g
  <2>. QED BY <1>2, <1>3, <2>1, BoundedWorker
<1>4. CASE leave(w0)
  BY <1>1, <1>4, BoundedWorker DEF leave
<1>. QED BY <1>3, <1>4

\* Only a claim changes the generation of an attempt.
LEMMA BoundedRows ==
  ASSUME AuthInv, Bounds, [Next]_vars, NEW a \in Attempt
  PROVE  row'[a].authorization_generation <= MaxGeneration
<1>1. row[a] \in RowType /\ row[a].authorization_generation <= MaxGeneration
  BY DEF AuthInv, Types, Bounds
<1>2. ASSUME NEW b \in Attempt, NEW r, row' = [row EXCEPT ![b] = r],
             \/ r.authorization_generation = row[b].authorization_generation
             \/ r.authorization_generation <= MaxGeneration
      PROVE  row'[a].authorization_generation <= MaxGeneration
  BY <1>1, <1>2 DEF AuthInv, Types, Bounds
<1>3. CASE row' = row
  BY <1>1, <1>3
<1>4. ASSUME NEW w \in Worker, NEW b \in Attempt, claimAuthorization(w, b)
      PROVE  row'[a].authorization_generation <= MaxGeneration
  <2>1. row[b] \in RowType
    BY DEF AuthInv, Types
  <2>2. CASE ClaimNothing(w, b) \/ ClaimBlocked(w, b) \/ ClaimHeld(w, b)
    BY <1>3, <2>2 DEF ClaimNothing, ClaimBlocked, ClaimHeld
  <2>3. CASE ClaimExpired(w, b)
    <3>. DEFINE r == [notInvoked(row[b], "suppressed") EXCEPT
                        !.authorization_state = "expired", !.lease = "none"]
    <3>1. row' = [row EXCEPT ![b] = r]
      BY <2>3 DEF ClaimExpired
    <3>2. r.authorization_generation = row[b].authorization_generation
      BY <2>1 DEF notInvoked, RowType
    <3>. HIDE DEF r
    <3>. QED BY <1>2, <3>1, <3>2
  <2>4. CASE Claim(w, b)
    <3>. DEFINE r == [row[b] EXCEPT
                        !.authorization_generation = row[b].authorization_generation + 1,
                        !.lease = "running", !.project_generation = block.generation]
    <3>1. row' = [row EXCEPT ![b] = r] /\ row[b].authorization_generation + 1 <= MaxGeneration
      BY <2>4 DEF Claim, AuthInv, Types
    <3>2. r.authorization_generation = row[b].authorization_generation + 1
      BY <2>1 DEF RowType
    <3>. HIDE DEF r
    <3>. QED BY <1>2, <3>1, <3>2
  <2>. QED BY <1>4, <2>2, <2>3, <2>4 DEF claimAuthorization
<1>5. ASSUME NEW w \in Worker, NEW b \in Attempt, dispatchGate(w, b)
      PROVE  row'[a].authorization_generation <= MaxGeneration
  <2>1. row[b] \in RowType
    BY DEF AuthInv, Types
  <2>2. CASE GateLeaves(w, b)
    BY <1>3, <2>2 DEF GateLeaves
  <2>3. CASE GateCommits(w, b)
    <3>. DEFINE r == [row[b] EXCEPT !.state = "dispatching", !.invocation = "committed"]
    <3>1. row' = [row EXCEPT ![b] = r]
      BY <2>3 DEF GateCommits, AuthInv, Types
    <3>2. r.authorization_generation = row[b].authorization_generation
      BY <2>1 DEF RowType
    <3>. HIDE DEF r
    <3>. QED BY <1>2, <3>1, <3>2
  <2>4. ASSUME NEW state \in {"suppressed", "failed"},
               row' = [row EXCEPT ![b] = notInvoked(@, state)]
        PROVE  row'[a].authorization_generation <= MaxGeneration
    <3>. DEFINE r == notInvoked(row[b], state)
    <3>1. row' = [row EXCEPT ![b] = r]
      BY <2>4
    <3>2. r.authorization_generation = row[b].authorization_generation
      BY <2>1 DEF notInvoked, RowType
    <3>. HIDE DEF r
    <3>. QED BY <1>2, <3>1, <3>2
  <2>. QED BY <1>5, <2>2, <2>3, <2>4 DEF dispatchGate, GateSuppresses, GateRefuses
<1>6. ASSUME NEW w \in Worker, finishAuthorization(w)
      PROVE  row'[a].authorization_generation <= MaxGeneration
  <2>. DEFINE b == worker[w].attempt
              now == row[b]
  <2>0. worker[w].step = "answered"
    BY <1>6 DEF finishAuthorization, FinishStale, FinishWait, FinishDenied, FinishApproved
  <2>1. b \in Attempt /\ now \in RowType
    BY <2>0 DEF AuthInv, Types, WorkerOK
  <2>2. CASE FinishStale(w) \/ row' = row
    BY <1>3, <2>2 DEF FinishStale
  <2>3. CASE FinishWait(w) /\ row' # row
    <3>. DEFINE r == [now EXCEPT !.lease = "none", !.retry = "waiting"]
    <3>1. row' = [row EXCEPT ![b] = r]
      BY <2>1, <2>3 DEF FinishWait, AuthInv, Types
    <3>2. r.authorization_generation = now.authorization_generation
      BY <2>1 DEF RowType
    <3>. HIDE DEF r, now, b
    <3>. QED BY <1>2, <2>1, <3>1, <3>2 DEF now
  <2>4. CASE FinishDenied(w)
    <3>. DEFINE r == [notInvoked(now, "suppressed") EXCEPT
                        !.authorization_state = "denied", !.lease = "none"]
    <3>1. row' = [row EXCEPT ![b] = r]
      BY <2>4 DEF FinishDenied
    <3>2. r.authorization_generation = now.authorization_generation
      BY <2>1 DEF notInvoked, RowType
    <3>. HIDE DEF r, now, b
    <3>. QED BY <1>2, <2>1, <3>1, <3>2 DEF now
  <2>5. ASSUME NEW valid \in BOOLEAN, FinishApproved(w, valid)
        PROVE  row'[a].authorization_generation <= MaxGeneration
    <3>. DEFINE s == IF usable(w) /\ valid
                     THEN [now EXCEPT !.state = "pending", !.invocation = "not_started"]
                     ELSE notInvoked(now, "suppressed")
                r == [s EXCEPT !.authorization_state = "approved",
                               !.approval_valid = valid, !.lease = "none"]
    <3>1. row' = [row EXCEPT ![b] = r]
      BY <2>5 DEF FinishApproved
    <3>2. s \in RowType /\ s.authorization_generation = now.authorization_generation
      BY <2>1 DEF notInvoked, RowType
    <3>. HIDE DEF s
    <3>3. r.authorization_generation = now.authorization_generation
      BY <3>2 DEF RowType
    <3>. HIDE DEF r, now, b
    <3>. QED BY <1>2, <2>1, <3>1, <3>3 DEF now
  <2>. QED BY <1>6, <2>2, <2>3, <2>4, <2>5 DEF finishAuthorization
<1>7. ASSUME NEW b \in Attempt, Supersede(b), row' # row
      PROVE  row'[a].authorization_generation <= MaxGeneration
  <2>. DEFINE r == notInvoked(row[b], "suppressed")
  <2>1. row' = [row EXCEPT ![b] = r]
    BY <1>7 DEF Supersede
  <2>2. r.authorization_generation = row[b].authorization_generation
    BY DEF notInvoked, AuthInv, Types, RowType
  <2>. HIDE DEF r
  <2>. QED BY <1>2, <2>1, <2>2
<1>8. ASSUME NEW b \in Attempt, ApprovalExpires(b) \/ LeaseEnds(b) \/ RetryDue(b)
      PROVE  row'[a].authorization_generation <= MaxGeneration
  BY <1>1, <1>8 DEF ApprovalExpires, LeaseEnds, RetryDue, AuthInv, Types, RowType
<1>9. CASE Environment
  BY <1>3, <1>7, <1>8, <1>9 DEF Environment, Decide, Withdraw, PassDeadline, BlockEnds
<1>. QED BY <1>3, <1>4, <1>5, <1>6, <1>9
        DEF Next, Handler, Reserve, vars, Crash, recoverAuthorizations

\* What a handler carries stays within the bounds.
LEMMA BoundedWorkers ==
  ASSUME AuthInv, Bounds, [Next]_vars
  PROVE  \A w \in Worker : ClaimBound(worker'[w], block'.generation)
<1>1. block.generation \in Nat /\ block'.generation \in Nat
      /\ block'.generation >= block.generation
  BY AuthKeeps, RaiseRecords DEF AuthInv, Types
<1>2. CASE worker' = worker
  <2>1. \A w \in Worker : worker[w].project_generation \in Nat
    BY DEF AuthInv, Types, WorkerType
  <2>. QED BY <1>1, <1>2, <2>1 DEF Bounds, ClaimBound
<1>3. ASSUME NEW w \in Worker, NEW a \in Attempt, claimAuthorization(w, a)
      PROVE  \A x \in Worker : ClaimBound(worker'[x], block'.generation)
  <2>1. CASE Claim(w, a)
    <3>. DEFINE generation == row[a].authorization_generation + 1
                h == [step |-> "asking", attempt |-> a, generation |-> generation,
                      project_generation |-> block.generation, answer |-> "none"]
    <3>1. worker' = [worker EXCEPT ![w] = h] /\ generation <= MaxGeneration
      BY <2>1 DEF Claim
    <3>2. ClaimBound(h, block.generation) /\ h.project_generation \in Nat
      BY <1>1, <3>1 DEF ClaimBound
    <3>. HIDE DEF h
    <3>. QED BY <1>1, <3>1, <3>2, BoundedWorker
  <2>2. CASE ~Claim(w, a)
    <3>1. toGate(w, a)
      BY <1>3, <2>2 DEF claimAuthorization, ClaimNothing, ClaimExpired, ClaimBlocked, ClaimHeld
    <3>. QED BY <1>1, <3>1, BoundedGate
  <2>. QED BY <2>1, <2>2
<1>4. ASSUME NEW w \in Worker, Handler(w)
      PROVE  \A x \in Worker : ClaimBound(worker'[x], block'.generation)
  <2>1. ASSUME NEW answer \in Answer, Reserve(w, answer)
        PROVE  \A x \in Worker : ClaimBound(worker'[x], block'.generation)
    <3>. DEFINE h == [worker[w] EXCEPT !.step = "answered", !.answer = answer]
    <3>1. worker' = [worker EXCEPT ![w] = h] /\ worker[w].step = "asking"
      BY <2>1 DEF Reserve, AuthInv, Types, WorkerType
    <3>2. ClaimBound(h, block.generation) /\ h.project_generation \in Nat
      BY <3>1 DEF ClaimBound, Bounds, AuthInv, Types, WorkerType
    <3>. HIDE DEF h
    <3>. QED BY <1>1, <3>1, <3>2, BoundedWorker
  <2>2. CASE finishAuthorization(w)
    <3>1. toGate(w, worker[w].attempt) /\ worker[w].step = "answered"
      BY <2>2 DEF finishAuthorization, FinishStale, FinishWait, FinishDenied, FinishApproved
    <3>2. worker[w].attempt \in Attempt
      BY <3>1 DEF Bounds, ClaimBound
    <3>. QED BY <1>1, <3>1, <3>2, BoundedGate
  <2>3. ASSUME NEW a \in Attempt, dispatchGate(w, a)
        PROVE  leave(w)
    BY <2>3 DEF dispatchGate, GateLeaves, GateSuppresses, GateRefuses, GateCommits
  <2>. QED BY <1>1, <1>4, <2>1, <2>2, <2>3, BoundedGate DEF Handler
<1>5. ASSUME NEW w \in Worker, Crash(w)
      PROVE  \A x \in Worker : ClaimBound(worker'[x], block'.generation)
  BY <1>1, <1>5, BoundedGate DEF Crash
<1>6. CASE Environment
  BY <1>2, <1>6 DEF Environment, Decide, Supersede, Withdraw, PassDeadline, ApprovalExpires,
                    LeaseEnds, RetryDue, BlockEnds
<1>. QED BY <1>2, <1>3, <1>4, <1>5, <1>6 DEF Next, vars, recoverAuthorizations

\* Operations and jobs.
LEMMA BoundedRest ==
  ASSUME AuthInv, Bounds, [Next]_vars
  PROVE  /\ op' \in [Attempt -> [current : BOOLEAN, entitled : BOOLEAN, late : BOOLEAN]]
         /\ jobs' \subseteq Attempt
<1>1. CASE UNCHANGED <<op, jobs>>
  BY <1>1 DEF Bounds
<1>2. ASSUME NEW w \in Worker, NEW a \in Attempt, claimAuthorization(w, a)
      PROVE  op' = op /\ jobs' \subseteq Attempt
  BY <1>2 DEF claimAuthorization, ClaimNothing, ClaimExpired, ClaimBlocked, ClaimHeld, Claim,
              Bounds
<1>3. ASSUME NEW w \in Worker, Handler(w)
      PROVE  op' = op /\ jobs' \subseteq Attempt
  <2>1. CASE FinishWait(w)
    BY <2>1 DEF FinishWait, Bounds, ClaimBound
  <2>2. CASE ~FinishWait(w)
    BY <1>3, <2>2 DEF Handler, Reserve, finishAuthorization, FinishStale, FinishDenied,
                      FinishApproved, dispatchGate, GateLeaves, GateSuppresses, GateRefuses,
                      GateCommits, Bounds
  <2>. QED BY <2>1, <2>2
<1>4. ASSUME NEW w \in Worker, Crash(w)
      PROVE  op' = op /\ jobs' \subseteq Attempt
  BY <1>4 DEF Crash, Bounds, ClaimBound
<1>5. CASE recoverAuthorizations
  BY <1>5, RequiredAssumption DEF recoverAuthorizations, Bounds
<1>6. ASSUME NEW a \in Attempt, Supersede(a) \/ Withdraw(a) \/ PassDeadline(a)
      PROVE  jobs' = jobs
             /\ op' \in [Attempt -> [current : BOOLEAN, entitled : BOOLEAN, late : BOOLEAN]]
  BY <1>6 DEF Supersede, Withdraw, PassDeadline, Bounds
<1>7. CASE Environment
  BY <1>1, <1>6, <1>7 DEF Environment, Decide, ApprovalExpires, LeaseEnds, RetryDue,
                          BlockEnds, Bounds
<1>. QED BY <1>1, <1>2, <1>3, <1>4, <1>5, <1>7 DEF Next, vars, Bounds

LEMMA BoundsInvariant == Spec => [](AuthInv /\ BlockBound /\ Bounds)
<1>1. Init => AuthInv /\ BlockBound /\ Bounds
  BY InitAuth, InitBounds
<1>2. AuthInv /\ BlockBound /\ Bounds /\ [Next]_vars => (AuthInv /\ BlockBound /\ Bounds)'
  BY AuthKeeps, BlockBoundKeeps, BoundedRows, BoundedWorkers, BoundedRest DEF Bounds
<1>. QED BY <1>1, <1>2, PTL DEF Spec

\* Every variable has its type, the generations within their bounds: the block is
\* raised once for each denial of the project the authority made, and only a claim
\* counts the generation of an attempt on.
THEOREM TypeCorrect == Spec => []TypeOK
<1>1. ASSUME AuthInv, BlockBound, Bounds
      PROVE  TypeOK
  <2>1. block \in [generation : 0 .. MaxBlocks, active : BOOLEAN]
    BY <1>1, BlockIsBounded DEF AuthInv, Types
  <2>2. ASSUME NEW a \in Attempt
        PROVE  row[a] \in Row
    <3>1. /\ row[a] \in RowType
          /\ row[a].authorization_generation <= MaxGeneration
          /\ row[a].project_generation <= block.generation
      BY <1>1 DEF AuthInv, Types, VoidOK, Bounds
    <3>2. /\ row[a].authorization_generation \in 0 .. MaxGeneration
          /\ row[a].project_generation \in 0 .. MaxBlocks
      BY <1>1, <3>1, BlockIsBounded, BoundsAssumption DEF RowType
    <3>. QED BY <3>1, <3>2 DEF RowType, Row
  <2>3. ASSUME NEW w \in Worker
        PROVE  worker[w] \in [step : {"idle", "asking", "answered", "gate"},
                              attempt : Attempt \cup {Idle},
                              generation : 0 .. MaxGeneration,
                              project_generation : 0 .. MaxBlocks,
                              answer : Answer]
    <3>1. /\ worker[w] \in WorkerType
          /\ worker[w].generation <= MaxGeneration
          /\ worker[w].project_generation <= block.generation
      BY <1>1 DEF AuthInv, Types, Bounds, ClaimBound
    <3>2. /\ worker[w].generation \in 0 .. MaxGeneration
          /\ worker[w].project_generation \in 0 .. MaxBlocks
      BY <1>1, <3>1, BlockIsBounded, BoundsAssumption DEF WorkerType
    <3>. QED BY <3>1, <3>2 DEF WorkerType
  <2>4. row \in [Attempt -> Row]
    BY <1>1, <2>2 DEF AuthInv, Types
  <2>. QED BY <1>1, <2>1, <2>3, <2>4 DEF TypeOK, AuthInv, Types, Bounds
<1>. QED BY <1>1, BoundsInvariant, PTL
=============================================================================
