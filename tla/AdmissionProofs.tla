-------------------------- MODULE AdmissionProofs --------------------------
(***************************************************************************)
(* Theorems about Admission, for every set of sessions, requests and       *)
(* recipients, all limits and durations, and its refinement of             *)
(* AdmissionContract.                                                      *)
(***************************************************************************)
EXTENDS Admission, FiniteSetTheorems, TLAPS

-----------------------------------------------------------------------------
(***************************************************************************)
(* The invariant.                                                          *)
(***************************************************************************)
ended(s, o) == s.operations[o].state \in {"closed", "expired", "deleted"}
used(s, o)  == s.operations[o].state # "absent"

\* Rows are numbered without a gap; only live operations have a code or pending work.
Linked(s) ==
  /\ \E n \in Nat : \A o \in OperationId : used(s, o) <=> o <= n
  /\ \E n \in Nat : \A a \in AttemptId : s.attempts[a].state # "unused" <=> a <= n
  /\ \A o \in OperationId : ~live(s, o) => s.operations[o].code = NoCode
  /\ \A a \in AttemptId :
       /\ s.attempts[a].state = "unused" <=> s.attempts[a].operation = None
       /\ s.attempts[a].operation # None => used(s, s.attempts[a].operation)
       /\ s.attempts[a].state = "pending" => live(s, s.attempts[a].operation)
  /\ \A i \in Identity : s.receipts[i] # NoReceipt =>
       LET receipt == s.receipts[i]
       IN  /\ used(s, receipt.operation)
           /\ receipt.code_fingerprint # NoCode => live(s, receipt.operation)

\* A receipt stands for an execution, and outlasts the deadline it was made for.
stands(s, receipt, e) ==
  /\ receipt.fingerprint = fingerprint(e.request)
  /\ receipt.response = e.result
  /\ live(s, receipt.operation) => receipt.code_fingerprint = e.request.code

\* What was executed has its receipt, or can no longer be executed again.
over(s, e, now) == IF e.request.target = None THEN e.request.expiresAt <= now
                   ELSE ended(s, e.request.target)

Remembered(s, done, now) ==
  /\ \A e \in done :
       \/ /\ s.receipts[identity(e.request)] # NoReceipt
          /\ stands(s, s.receipts[identity(e.request)], e)
       \/ over(s, e, now)
  /\ \A r \in Request : s.receipts[identity(r)] # NoReceipt =>
       LET receipt == s.receipts[identity(r)]
       IN  /\ \E e \in done : identity(e.request) = identity(r) /\ stands(s, receipt, e)
           /\ r.target # None => receipt.operation = r.target
           /\ r.target = None => receipt.fingerprint[2] <= receipt.retain_until

\* What was logged belongs to an operation and came before its deadline.
Timely(s, entries) ==
  \A e \in entries : /\ e.operation \in OperationId
                     /\ used(s, e.operation)
                     /\ e.at < s.operations[e.operation].expires_at

\* A session that is to decide has its locks for itself, and found no receipt.
Sessions ==
  /\ \A v, w \in Session : v # w => session[v].held \cap session[w].held = {}
  /\ \A w \in Session : session[w].pc = "decide" =>
       IF session[w].request = NoRequest
       THEN session[w].attempt \in AttemptId /\ db.attempts[session[w].attempt].operation # None
       ELSE /\ requestLock(session[w].request) \subseteq session[w].held
            /\ unknown(session[w].request)
            /\ session[w].request.target # None => used(db, session[w].request.target)
  /\ \A w \in Session : session[w].pc = "prepared" =>
       session[w].request # NoRequest /\ session[w].request.target = None

ExecutedOK == executed \subseteq [request : Request, result : Result]

AdmissionInv ==
  /\ TypeOK /\ ExecutedOK
  /\ Linked(db) /\ Remembered(db, executed, clock) /\ Timely(db, log)
  /\ Sessions
  /\ ExecutedOnce /\ AnswersAreFaithful

\* What a step on rows preserves: operations keep their deadline and their end, receipts
\* stay what they were, except for codes of operations that ended.
Keeps(s, t) ==
  /\ \A o \in OperationId :
       /\ used(s, o) => used(t, o) /\ t.operations[o].expires_at = s.operations[o].expires_at
       /\ ended(s, o) => ended(t, o)
  /\ \A i \in Identity :
       /\ s.receipts[i] = NoReceipt => t.receipts[i] = NoReceipt
       /\ s.receipts[i] # NoReceipt =>
            /\ t.receipts[i] # NoReceipt
            /\ t.receipts[i].operation = s.receipts[i].operation
            /\ t.receipts[i].fingerprint = s.receipts[i].fingerprint
            /\ t.receipts[i].response = s.receipts[i].response
            /\ t.receipts[i].retain_until = s.receipts[i].retain_until
            /\ live(t, s.receipts[i].operation) =>
                 /\ live(s, s.receipts[i].operation)
                 /\ t.receipts[i].code_fingerprint = s.receipts[i].code_fingerprint
  /\ \A a \in AttemptId :
       s.attempts[a].operation # None => t.attempts[a].operation = s.attempts[a].operation

-----------------------------------------------------------------------------
(***************************************************************************)
(* The operations on rows.                                                 *)
(***************************************************************************)
Terminal == {"closed", "expired"}

LEMMA IdentityOf ==
  /\ \A r \in Request : identity(r) \in Identity
  /\ \A i \in Identity : \E r \in Request : i = identity(r)
BY DEF Identity

LEMMA TablesOf ==
  ASSUME NEW s \in Tables
  PROVE  /\ s.operations \in [OperationId -> Operation]
         /\ s.attempts \in [AttemptId -> Attempt]
         /\ s.quota \subseteq Event
         /\ s.receipts \in [Identity -> Receipt \cup {NoReceipt}]
BY DEF Tables

LEMMA SuppressForm ==
  ASSUME NEW attempts \in [AttemptId -> Attempt], NEW o \in OperationId
  PROVE  /\ suppressPendingAttempts(attempts, o) \in [AttemptId -> Attempt]
         /\ \A a \in AttemptId :
              LET x == suppressPendingAttempts(attempts, o)[a]
              IN  /\ x.operation = attempts[a].operation
                  /\ x.state = IF attempts[a].operation = o /\ attempts[a].state = "pending"
                               THEN "suppressed" ELSE attempts[a].state
BY DEF suppressPendingAttempts, Attempt

\* Receipts without the codes of o.
erased(receipts, o) ==
  [i \in Identity |-> IF receipts[i] # NoReceipt /\ receipts[i].operation = o
                      THEN [receipts[i] EXCEPT !.code_fingerprint = NoCode] ELSE receipts[i]]

LEMMA ErasedForm ==
  ASSUME NEW receipts \in [Identity -> Receipt \cup {NoReceipt}], NEW o \in OperationId
  PROVE  /\ erased(receipts, o) \in [Identity -> Receipt \cup {NoReceipt}]
         /\ \A i \in Identity :
              LET x == erased(receipts, o)[i]
              IN  /\ receipts[i] = NoReceipt <=> x = NoReceipt
                  /\ receipts[i] # NoReceipt =>
                       /\ x.operation = receipts[i].operation
                       /\ x.fingerprint = receipts[i].fingerprint
                       /\ x.response = receipts[i].response
                       /\ x.retain_until = receipts[i].retain_until
                       /\ x.code_fingerprint = IF receipts[i].operation = o THEN NoCode
                                               ELSE receipts[i].code_fingerprint
<1>1. ASSUME NEW x \in Receipt
      PROVE  /\ [x EXCEPT !.code_fingerprint = NoCode] \in Receipt
             /\ [x EXCEPT !.code_fingerprint = NoCode].operation = x.operation
             /\ [x EXCEPT !.code_fingerprint = NoCode].fingerprint = x.fingerprint
             /\ [x EXCEPT !.code_fingerprint = NoCode].response = x.response
             /\ [x EXCEPT !.code_fingerprint = NoCode].retain_until = x.retain_until
             /\ [x EXCEPT !.code_fingerprint = NoCode].code_fingerprint = NoCode
  BY DEF Receipt
<1>2. QED
  BY <1>1, AbsenceAssumption DEF erased

LEMMA TerminateForm ==
  ASSUME NEW s \in Tables, NEW o \in OperationId, NEW x \in Terminal, clock \in Nat
  PROVE  LET t == terminate(s, o, x)
         IN  /\ t \in Tables
             /\ \A p \in OperationId : p # o => t.operations[p] = s.operations[p]
             /\ t.operations[o].state = x
             /\ t.operations[o].code = NoCode
             /\ t.operations[o].expires_at = s.operations[o].expires_at
             /\ t.operations[o].recipient = s.operations[o].recipient
             /\ t.operations[o].current_attempt_id = s.operations[o].current_attempt_id
             /\ t.attempts = suppressPendingAttempts(s.attempts, o)
             /\ t.receipts = erased(s.receipts, o)
             /\ t.quota = s.quota
<1> DEFINE row == [[s.operations[o] EXCEPT !.state = x] EXCEPT !.terminal_at = clock]
<1> DEFINE row2 == [row EXCEPT !.code = NoCode]
<1> DEFINE t == terminate(s, o, x)
<1>1. s.operations[o] \in Operation
  BY TablesOf
<1>2. row2 \in Operation /\ row2.state = x /\ row2.code = NoCode
      /\ row2.expires_at = s.operations[o].expires_at
      /\ row2.recipient = s.operations[o].recipient
      /\ row2.current_attempt_id = s.operations[o].current_attempt_id
  BY <1>1 DEF Operation, Terminal
<1>3. t = [operations |-> [s.operations EXCEPT ![o] = row2],
           attempts   |-> suppressPendingAttempts(s.attempts, o),
           quota      |-> s.quota,
           receipts   |-> erased(s.receipts, o)]
  <2> DEFINE u == [s EXCEPT !.operations[o] = [@ EXCEPT !.state = x, !.terminal_at = clock]]
  <2>1. s = [operations |-> s.operations, attempts |-> s.attempts, quota |-> s.quota,
             receipts |-> s.receipts]
    BY DEF Tables
  <2>2. s.operations \in [OperationId -> Operation]
    BY TablesOf
  <2>3. u = [operations |-> [s.operations EXCEPT ![o] = row], attempts |-> s.attempts,
             quota |-> s.quota, receipts |-> s.receipts]
    BY <2>1, <2>2
  <2>4. [[s.operations EXCEPT ![o] = row] EXCEPT ![o].code = NoCode]
          = [s.operations EXCEPT ![o] = row2]
    BY <2>2
  <2>5. t = eraseSecrets(u, o)
    BY DEF terminate
  <2> HIDE DEF t, u, row, row2
  <2>6. QED
    BY <2>3, <2>4, <2>5 DEF eraseSecrets, erased
<1>4. t \in Tables
  BY <1>2, <1>3, TablesOf, SuppressForm, ErasedForm DEF Tables
<1>5. QED
  BY <1>2, <1>3, <1>4, TablesOf

LEMMA TerminateKeeps ==
  ASSUME NEW s \in Tables, Linked(s), NEW o \in OperationId, NEW x \in Terminal, clock \in Nat,
         live(s, o)
  PROVE  /\ terminate(s, o, x) \in Tables
         /\ Linked(terminate(s, o, x))
         /\ Keeps(s, terminate(s, o, x))
<1> DEFINE t == terminate(s, o, x)
<1>1. /\ t \in Tables
      /\ \A p \in OperationId : p # o => t.operations[p] = s.operations[p]
      /\ t.operations[o].state = x
      /\ t.operations[o].code = NoCode
      /\ t.operations[o].expires_at = s.operations[o].expires_at
      /\ t.attempts = suppressPendingAttempts(s.attempts, o)
      /\ t.receipts = erased(s.receipts, o)
  BY TerminateForm
<1>2. \A a \in AttemptId :
        /\ t.attempts[a].operation = s.attempts[a].operation
        /\ t.attempts[a].state = IF s.attempts[a].operation = o /\ s.attempts[a].state = "pending"
                                 THEN "suppressed" ELSE s.attempts[a].state
  <2>1. s.attempts \in [AttemptId -> Attempt]
    BY TablesOf
  <2> HIDE DEF t
  <2>2. QED
    BY <1>1, <2>1, SuppressForm
<1>3. \A i \in Identity :
        /\ s.receipts[i] = NoReceipt <=> t.receipts[i] = NoReceipt
        /\ s.receipts[i] # NoReceipt =>
             /\ t.receipts[i].operation = s.receipts[i].operation
             /\ t.receipts[i].fingerprint = s.receipts[i].fingerprint
             /\ t.receipts[i].response = s.receipts[i].response
             /\ t.receipts[i].retain_until = s.receipts[i].retain_until
             /\ t.receipts[i].code_fingerprint = IF s.receipts[i].operation = o THEN NoCode
                                                 ELSE s.receipts[i].code_fingerprint
  <2>1. s.receipts \in [Identity -> Receipt \cup {NoReceipt}]
    BY TablesOf
  <2> HIDE DEF t
  <2>2. QED
    BY <1>1, <2>1, ErasedForm
<1>4. \A p \in OperationId : used(s, p) <=> used(t, p)
  BY <1>1 DEF used, live, Terminal
<1>5. \A p \in OperationId : p # o => (live(s, p) <=> live(t, p))
  BY <1>1 DEF live
<1>6. ~live(t, o)
  BY <1>1 DEF live, Terminal
<1>7. \A a \in AttemptId : s.attempts[a] \in Attempt
  BY TablesOf
<1>8. \A i \in Identity : s.receipts[i] # NoReceipt => s.receipts[i].operation \in OperationId
  BY TablesOf DEF Receipt
<1> HIDE DEF t
<1>9. Linked(t)
  <2>1. \E n \in Nat : \A p \in OperationId : used(t, p) <=> p <= n
    BY <1>4 DEF Linked
  <2>6. \E n \in Nat : \A a \in AttemptId : t.attempts[a].state # "unused" <=> a <= n
    BY <1>2 DEF Linked
  <2>2. \A p \in OperationId : ~live(t, p) => t.operations[p].code = NoCode
    BY <1>1, <1>5 DEF Linked
  <2>3. ASSUME NEW a \in AttemptId
        PROVE  /\ t.attempts[a].state = "unused" <=> t.attempts[a].operation = None
               /\ t.attempts[a].operation # None => used(t, t.attempts[a].operation)
               /\ t.attempts[a].state = "pending" => live(t, t.attempts[a].operation)
    <3>1. s.attempts[a].operation \in OperationId \cup {None}
      BY <1>7 DEF Attempt
    <3>2. /\ s.attempts[a].state = "unused" <=> s.attempts[a].operation = None
          /\ s.attempts[a].operation # None => used(s, s.attempts[a].operation)
          /\ s.attempts[a].state = "pending" => live(s, s.attempts[a].operation)
      BY DEF Linked
    <3>3. QED
      BY <1>2, <1>4, <1>5, <3>1, <3>2
  <2>4. ASSUME NEW i \in Identity, t.receipts[i] # NoReceipt
        PROVE  /\ used(t, t.receipts[i].operation)
               /\ t.receipts[i].code_fingerprint # NoCode => live(t, t.receipts[i].operation)
    BY <1>3, <1>4, <1>5, <1>8, <2>4 DEF Linked
  <2>5. QED
    BY <2>1, <2>2, <2>3, <2>4, <2>6 DEF Linked
<1>10. Keeps(s, t)
  <2>1. \A p \in OperationId : ended(s, p) => ended(t, p)
    BY <1>1 DEF ended, Terminal
  <2>2. \A p \in OperationId : t.operations[p].expires_at = s.operations[p].expires_at
    BY <1>1
  <2>3. QED
    BY <1>2, <1>3, <1>4, <1>5, <1>6, <1>8, <2>1, <2>2 DEF Keeps
<1>11. QED
  BY <1>1, <1>9, <1>10 DEF t

LEMMA KeepsItself == ASSUME NEW s PROVE Keeps(s, s)
BY DEF Keeps

LEMMA KeepsAlong ==
  ASSUME NEW s \in Tables, NEW t \in Tables, NEW u, Keeps(s, t), Keeps(t, u)
  PROVE  Keeps(s, u)
<1>1. \A i \in Identity : s.receipts[i] # NoReceipt => s.receipts[i].operation \in OperationId
  BY TablesOf DEF Receipt
<1>2. QED
  BY <1>1 DEF Keeps

LEMMA ExpireKeeps ==
  ASSUME NEW s \in Tables, Linked(s), NEW o \in OperationId, clock \in Nat
  PROVE  /\ expire(s, o) \in Tables
         /\ Linked(expire(s, o))
         /\ Keeps(s, expire(s, o))
         /\ live(expire(s, o), o) => expire(s, o) = s /\ clock < s.operations[o].expires_at
         /\ expire(s, o).operations[o].recipient = s.operations[o].recipient
         /\ expire(s, o).quota = s.quota
<1>1. s.operations[o].expires_at \in Nat
  BY TablesOf DEF Operation
<1>2. CASE live(s, o) /\ clock >= s.operations[o].expires_at
  <2>1. expire(s, o) = terminate(s, o, "expired") /\ "expired" \in Terminal
    BY <1>2 DEF expire, Terminal
  <2>2. /\ terminate(s, o, "expired").operations[o].state = "expired"
        /\ terminate(s, o, "expired").operations[o].recipient = s.operations[o].recipient
        /\ terminate(s, o, "expired").quota = s.quota
    BY <2>1, TerminateForm
  <2>3. ~live(terminate(s, o, "expired"), o)
    BY <2>2 DEF live
  <2>4. QED
    BY <1>2, <2>1, <2>2, <2>3, TerminateKeeps
<1>3. CASE ~(live(s, o) /\ clock >= s.operations[o].expires_at)
  <2>1. expire(s, o) = s
    BY <1>3 DEF expire
  <2>2. live(s, o) => clock < s.operations[o].expires_at
    BY <1>1, <1>3
  <2>3. QED
    BY <2>1, <2>2, KeepsItself
<1>4. QED
  BY <1>2, <1>3

\* Rows change without the life of an operation, the work of an attempt or a receipt.
LEMMA EditKeeps ==
  ASSUME NEW s \in Tables, NEW t \in Tables, Linked(s),
         \A p \in OperationId : /\ used(s, p) <=> used(t, p)
                                /\ live(s, p) <=> live(t, p)
                                /\ t.operations[p].expires_at = s.operations[p].expires_at
                                /\ ~live(s, p) => t.operations[p].code = s.operations[p].code,
         \A a \in AttemptId : /\ t.attempts[a].operation = s.attempts[a].operation
                              /\ t.attempts[a].state = "unused" <=> s.attempts[a].state = "unused"
                              /\ t.attempts[a].state = "pending" => s.attempts[a].state = "pending",
         t.receipts = s.receipts
  PROVE  Linked(t) /\ Keeps(s, t)
<1>1. \A a \in AttemptId : s.attempts[a].operation \in OperationId \cup {None}
  BY TablesOf DEF Attempt
<1>2. \A i \in Identity : s.receipts[i] # NoReceipt => s.receipts[i].operation \in OperationId
  BY TablesOf DEF Receipt
<1>3. \A p \in OperationId : /\ s.operations[p].state \in
                                  {"absent", "prepared", "active", "closed", "expired", "deleted"}
                             /\ t.operations[p].state \in
                                  {"absent", "prepared", "active", "closed", "expired", "deleted"}
  BY TablesOf DEF Operation
<1>4. \A p \in OperationId : ended(s, p) => ended(t, p)
  BY <1>3 DEF ended, used, live
<1>5. Linked(t)
  <2>1. /\ \E n \in Nat : \A p \in OperationId : used(t, p) <=> p <= n
        /\ \E n \in Nat : \A a \in AttemptId : t.attempts[a].state # "unused" <=> a <= n
    BY DEF Linked
  <2>2. \A p \in OperationId : ~live(t, p) => t.operations[p].code = NoCode
    BY DEF Linked
  <2>3. ASSUME NEW a \in AttemptId
        PROVE  /\ t.attempts[a].state = "unused" <=> t.attempts[a].operation = None
               /\ t.attempts[a].operation # None => used(t, t.attempts[a].operation)
               /\ t.attempts[a].state = "pending" => live(t, t.attempts[a].operation)
    <3>1. /\ s.attempts[a].state = "unused" <=> s.attempts[a].operation = None
          /\ s.attempts[a].operation # None => used(s, s.attempts[a].operation)
          /\ s.attempts[a].state = "pending" => live(s, s.attempts[a].operation)
      BY DEF Linked
    <3>2. QED
      BY <1>1, <3>1
  <2>4. ASSUME NEW i \in Identity, t.receipts[i] # NoReceipt
        PROVE  /\ used(t, t.receipts[i].operation)
               /\ t.receipts[i].code_fingerprint # NoCode => live(t, t.receipts[i].operation)
    BY <1>2, <2>4 DEF Linked
  <2>5. QED
    BY <2>1, <2>2, <2>3, <2>4 DEF Linked
<1>6. QED
  BY <1>2, <1>4, <1>5 DEF Keeps

LEMMA Numbers ==
  ASSUME NEW M \in Nat, NEW S \in SUBSET (1 .. M), NEW n \in Nat,
         \A x \in 1 .. M : x \in S <=> x <= n
  PROVE  /\ Cardinality(S) \in Nat
         /\ \A x \in 1 .. M : x \in S <=> x <= Cardinality(S)
<1> DEFINE m == IF n <= M THEN n ELSE M
<1>1. S = 1 .. m /\ m \in Nat
  <2>1. m \in Nat /\ m <= M
    OBVIOUS
  <2>2. \A x \in 1 .. M : x <= n <=> x <= m
    OBVIOUS
  <2> HIDE DEF m
  <2>3. S \subseteq 1 .. m
    BY <2>1, <2>2
  <2>4. ASSUME NEW x \in 1 .. m PROVE x \in S
    <3>1. x \in 1 .. M /\ x <= m
      BY <2>1
    <3>2. QED
      BY <2>2, <3>1
  <2>5. QED
    BY <2>1, <2>3, <2>4
<1>2. Cardinality(1 .. m) = m
  BY <1>1, FS_Interval
<1>3. QED
  BY <1>1, <1>2

\* The next number is not in use.
LEMMA NextIsFree ==
  ASSUME NEW s \in Tables, Linked(s)
  PROVE  /\ nextOperation(s) \in Nat
         /\ \A o \in OperationId : used(s, o) <=> o < nextOperation(s)
         /\ nextAttempt(s) \in Nat
         /\ \A a \in AttemptId : s.attempts[a].state # "unused" <=> a < nextAttempt(s)
<1> DEFINE O == {o \in OperationId : s.operations[o].state # "absent"}
<1> DEFINE A == {a \in AttemptId : s.attempts[a].state # "unused"}
<1>1. MaxOperations \in Nat /\ MaxAttempts \in Nat
  BY BoundAssumption
<1>2. PICK n \in Nat : \A o \in OperationId : used(s, o) <=> o <= n
  BY DEF Linked
<1>3. PICK k \in Nat : \A a \in AttemptId : s.attempts[a].state # "unused" <=> a <= k
  BY DEF Linked
<1>4. /\ O \in SUBSET (1 .. MaxOperations)
      /\ \A o \in 1 .. MaxOperations : o \in O <=> o <= n
  BY <1>2 DEF OperationId, used
<1>5. /\ A \in SUBSET (1 .. MaxAttempts)
      /\ \A a \in 1 .. MaxAttempts : a \in A <=> a <= k
  BY <1>3 DEF AttemptId
<1> HIDE DEF O, A
<1>6. /\ Cardinality(O) \in Nat
      /\ \A o \in 1 .. MaxOperations : o \in O <=> o <= Cardinality(O)
  BY <1>1, <1>4, Numbers
<1>7. /\ Cardinality(A) \in Nat
      /\ \A a \in 1 .. MaxAttempts : a \in A <=> a <= Cardinality(A)
  BY <1>1, <1>5, Numbers
<1>8. nextOperation(s) = Cardinality(O) + 1 /\ nextAttempt(s) = Cardinality(A) + 1
  BY DEF nextOperation, nextAttempt, O, A
<1>9. /\ \A o \in OperationId : o \in O <=> used(s, o)
      /\ \A a \in AttemptId : a \in A <=> s.attempts[a].state # "unused"
  BY DEF O, A, used
<1>10. QED
  BY <1>6, <1>7, <1>8, <1>9 DEF OperationId, AttemptId

Limits == [scope : Scope, kind : {"create", "admission", "send"}, maximum : Nat \ {0},
           window : Nat \ {0}]
Ids    == {"operation", "attempt"} \X Nat

LEMMA LimitsOf ==
  ASSUME NEW who \in Recipient
  PROVE  /\ admissionLimits(who) \subseteq Limits
         /\ sendLimits(who) \subseteq Limits
         /\ admissionLimit(who) \in Limits
BY LimitAssumption, DurationAssumption
   DEF admissionLimits, sendLimits, commonSendLimits, providerSendLimits, recipientLimit,
       admissionLimit, limit, Limits, Scope

\* Counting changes nothing but quota events.
LEMMA CountForm ==
  ASSUME NEW s \in Tables, NEW limits \in SUBSET Limits, NEW id \in Ids, clock \in Nat
  PROVE  LET t == countQuotas(s, limits, id)
         IN  /\ t \in Tables
             /\ t.operations = s.operations
             /\ t.attempts = s.attempts
             /\ t.receipts = s.receipts
<1> DEFINE added == {[scope |-> l.scope, kind |-> l.kind, id |-> id, at |-> clock] :
                       l \in {k \in limits : \A e \in s.quota :
                                <<e.scope, e.kind, e.id>> # <<k.scope, k.kind, id>>}}
<1>1. added \subseteq Event
  BY DEF Limits, Ids, Event
<1>2. countQuotas(s, limits, id) = [s EXCEPT !.quota = s.quota \cup added]
  BY DEF countQuotas
<1> HIDE DEF added
<1>3. s.quota \cup added \in SUBSET Event
  BY <1>1, TablesOf
<1>4. QED
  BY <1>2, <1>3 DEF Tables

LEMMA ExtendForm ==
  ASSUME NEW s \in Tables, NEW who \in Recipient, NEW id \in Ids, clock \in Nat
  PROVE  LET t == extendAdmission(s, who, id)
         IN  /\ t \in Tables
             /\ t.operations = s.operations
             /\ t.attempts = s.attempts
             /\ t.receipts = s.receipts
<1> DEFINE mine == {e \in s.quota : e.kind = "admission" /\ e.id = id}
<1> DEFINE new == {e \in s.quota : e \notin mine} \cup
                    {[scope |-> who, kind |-> "admission", id |-> id, at |-> clock]}
<1>1. new \in SUBSET Event
  <2>1. [scope |-> who, kind |-> "admission", id |-> id, at |-> clock] \in Event
    BY DEF Event, Ids, Scope
  <2>2. QED
    BY <2>1, TablesOf
<1>2. extendAdmission(s, who, id) = [s EXCEPT !.quota = new]
  BY DEF extendAdmission
<1> HIDE DEF new
<1>3. QED
  BY <1>1, <1>2 DEF Tables

LEMMA ScheduleKeeps ==
  ASSUME NEW s \in Tables, Linked(s), NEW o \in OperationId, live(s, o),
         nextAttempt(s) \in AttemptId
  PROVE  LET t == schedule(s, o)
         IN  /\ t \in Tables /\ Linked(t) /\ Keeps(s, t)
             /\ live(t, o)
             /\ t.operations[o].current_attempt_id = nextAttempt(s)
             /\ t.receipts = s.receipts /\ t.quota = s.quota
<1> DEFINE a == nextAttempt(s)
<1> DEFINE new == [operation |-> o, state |-> "pending"]
<1> DEFINE row == [s.operations[o] EXCEPT !.current_attempt_id = a]
<1> DEFINE t == schedule(s, o)
<1>1. new \in Attempt /\ new.operation = o /\ new.state = "pending"
  BY DEF Attempt
<1>2. /\ row \in Operation
      /\ row.state = s.operations[o].state
      /\ row.code = s.operations[o].code
      /\ row.expires_at = s.operations[o].expires_at
      /\ row.current_attempt_id = a
  BY TablesOf DEF Operation
<1>3. t = [operations |-> [s.operations EXCEPT ![o] = row],
           attempts   |-> [s.attempts EXCEPT ![a] = new],
           quota      |-> s.quota,
           receipts   |-> s.receipts]
  <2>1. s = [operations |-> s.operations, attempts |-> s.attempts, quota |-> s.quota,
             receipts |-> s.receipts]
    BY DEF Tables
  <2>2. [s.operations EXCEPT ![o].current_attempt_id = a] = [s.operations EXCEPT ![o] = row]
    BY TablesOf
  <2>3. t = [s EXCEPT !.attempts = [s.attempts EXCEPT ![a] = new],
                      !.operations = [s.operations EXCEPT ![o].current_attempt_id = a]]
    BY DEF schedule
  <2> HIDE DEF t, row, new
  <2>4. t = [s EXCEPT !.attempts = [s.attempts EXCEPT ![a] = new],
                      !.operations = [s.operations EXCEPT ![o] = row]]
    BY <2>2, <2>3
  <2>5. QED
    BY <2>1, <2>4
<1> HIDE DEF new, row, t
<1>4. /\ t.operations = [s.operations EXCEPT ![o] = row]
      /\ t.attempts = [s.attempts EXCEPT ![a] = new]
      /\ t.receipts = s.receipts /\ t.quota = s.quota
      /\ t \in Tables
  BY <1>1, <1>2, <1>3, TablesOf DEF Tables
<1>5. /\ \A p \in OperationId : p # o => t.operations[p] = s.operations[p]
      /\ t.operations[o] = row
      /\ \A b \in AttemptId : b # a => t.attempts[b] = s.attempts[b]
      /\ t.attempts[a] = new
  BY <1>4, TablesOf
<1>6. \A p \in OperationId : /\ used(s, p) <=> used(t, p)
                             /\ live(s, p) <=> live(t, p)
                             /\ ended(s, p) <=> ended(t, p)
                             /\ t.operations[p].expires_at = s.operations[p].expires_at
                             /\ t.operations[p].code = s.operations[p].code
  BY <1>2, <1>5 DEF used, live, ended
<1>7. /\ nextAttempt(s) \in Nat
      /\ \A b \in AttemptId : s.attempts[b].state # "unused" <=> b < nextAttempt(s)
  BY NextIsFree
<1>8. s.attempts[a].state = "unused" /\ s.attempts[a].operation = None
  BY <1>7 DEF Linked
<1>9. Linked(t)
  <2>1. \E n \in Nat : \A p \in OperationId : used(t, p) <=> p <= n
    BY <1>6 DEF Linked
  <2>2. \A b \in AttemptId : t.attempts[b].state # "unused" <=> b <= a
    BY <1>1, <1>5, <1>7 DEF AttemptId
  <2>3. ASSUME NEW b \in AttemptId
        PROVE  /\ t.attempts[b].state = "unused" <=> t.attempts[b].operation = None
               /\ t.attempts[b].operation # None => used(t, t.attempts[b].operation)
               /\ t.attempts[b].state = "pending" => live(t, t.attempts[b].operation)
    <3>1. CASE b = a
      <4>1. used(t, o) /\ live(t, o) /\ o # None
        BY <1>6 DEF live, used, OperationId, None
      <4>2. QED
        BY <1>1, <1>5, <3>1, <4>1
    <3>2. CASE b # a
      <4>1. s.attempts[b].operation \in OperationId \cup {None}
        BY TablesOf DEF Attempt
      <4>2. /\ s.attempts[b].state = "unused" <=> s.attempts[b].operation = None
            /\ s.attempts[b].operation # None => used(s, s.attempts[b].operation)
            /\ s.attempts[b].state = "pending" => live(s, s.attempts[b].operation)
        BY DEF Linked
      <4>3. s.attempts[b].state = "pending" => s.attempts[b].state # "unused"
        OBVIOUS
      <4>4. QED
        BY <1>5, <1>6, <3>2, <4>1, <4>2, <4>3
    <3>3. QED
      BY <3>1, <3>2
  <2>4. ASSUME NEW i \in Identity, t.receipts[i] # NoReceipt
        PROVE  /\ used(t, t.receipts[i].operation)
               /\ t.receipts[i].code_fingerprint # NoCode => live(t, t.receipts[i].operation)
    <3>1. s.receipts[i].operation \in OperationId
      BY <1>4, <2>4, TablesOf DEF Receipt
    <3>2. QED
      BY <1>4, <1>6, <2>4, <3>1 DEF Linked
  <2>5. \A p \in OperationId : ~live(t, p) => t.operations[p].code = NoCode
    BY <1>6 DEF Linked
  <2>6. QED
    BY <1>7, <2>1, <2>2, <2>3, <2>4, <2>5 DEF Linked
<1>10. Keeps(s, t)
  <2>1. \A i \in Identity : s.receipts[i] # NoReceipt => s.receipts[i].operation \in OperationId
    BY TablesOf DEF Receipt
  <2>2. QED
    BY <1>4, <1>5, <1>6, <1>8, <2>1 DEF Keeps
<1>11. QED
  BY <1>2, <1>4, <1>5, <1>6, <1>9, <1>10 DEF t

LEMMA Fields ==
  ASSUME NEW r \in Request
  PROVE  /\ r.name \in {"prepare", "create", "submit", "deliver", "close"}
         /\ r.target \in OperationId \cup {None}
         /\ r.recipient \in Recipient
         /\ r.code \in Code \cup {NoCode}
         /\ r.expiresAt \in Nat
         /\ r.target = None <=> r.name \in {"prepare", "create"}
         /\ r.code # NoCode <=> r.name \in {"create", "submit"}
BY RequestAssumption DEF RequestType

LEMMA AdmitKeeps ==
  ASSUME NEW s \in Tables, Linked(s), NEW r \in Request, nextOperation(s) \in OperationId,
         clock \in Nat
  PROVE  LET t == admitOperation(s, r)
             o == nextOperation(s)
         IN  /\ t \in Tables /\ Linked(t) /\ Keeps(s, t)
             /\ live(t, o)
             /\ t.operations[o].expires_at = r.expiresAt
             /\ t.operations[o].code = NoCode
             /\ t.attempts = s.attempts /\ t.receipts = s.receipts
<1> DEFINE o == nextOperation(s)
<1> DEFINE row == [state |-> "prepared", recipient |-> r.recipient, expires_at |-> r.expiresAt,
                   code |-> NoCode, next_user_send_at |-> clock, terminal_at |-> 0,
                   current_attempt_id |-> None]
<1> DEFINE u == [s EXCEPT !.operations[o] = row]
<1> DEFINE t == admitOperation(s, r)
<1>1. /\ row \in Operation /\ row.state = "prepared" /\ row.code = NoCode
      /\ row.expires_at = r.expiresAt
  BY Fields DEF Operation
<1>2. t = countQuotas(u, admissionLimits(r.recipient), <<"operation", o>>)
  BY DEF admitOperation
<1> HIDE DEF row
<1>3. /\ u \in Tables /\ u.operations = [s.operations EXCEPT ![o] = row]
      /\ u.attempts = s.attempts /\ u.receipts = s.receipts
  BY <1>1, TablesOf DEF Tables
<1> HIDE DEF u, t
<1>4. /\ t \in Tables /\ t.operations = [s.operations EXCEPT ![o] = row]
      /\ t.attempts = s.attempts /\ t.receipts = s.receipts
  <2>1. admissionLimits(r.recipient) \in SUBSET Limits /\ <<"operation", o>> \in Ids
    BY LimitsOf, Fields DEF Ids, OperationId
  <2>2. QED
    BY <1>2, <1>3, <2>1, CountForm
<1>5. /\ nextOperation(s) \in Nat
      /\ \A p \in OperationId : used(s, p) <=> p < nextOperation(s)
  BY NextIsFree
<1>6. /\ \A p \in OperationId : p # o => t.operations[p] = s.operations[p]
      /\ t.operations[o] = row
  BY <1>4, TablesOf
<1>7. ~used(s, o) /\ used(t, o) /\ live(t, o) /\ ~ended(s, o)
  BY <1>1, <1>5, <1>6 DEF used, live, ended
<1>8. \A p \in OperationId : p # o =>
        /\ used(s, p) <=> used(t, p)
        /\ live(s, p) <=> live(t, p)
        /\ ended(s, p) <=> ended(t, p)
  BY <1>6 DEF used, live, ended
<1>9. \A i \in Identity : s.receipts[i] # NoReceipt =>
        /\ s.receipts[i].operation \in OperationId
        /\ used(s, s.receipts[i].operation)
        /\ s.receipts[i].operation # o
  <2>1. \A i \in Identity : s.receipts[i] # NoReceipt => s.receipts[i].operation \in OperationId
    BY TablesOf DEF Receipt
  <2>2. QED
    BY <1>7, <2>1 DEF Linked
<1>10. \A a \in AttemptId : s.attempts[a].operation # None =>
         /\ s.attempts[a].operation \in OperationId
         /\ used(s, s.attempts[a].operation)
         /\ s.attempts[a].operation # o
  <2>1. \A a \in AttemptId : s.attempts[a].operation \in OperationId \cup {None}
    BY TablesOf DEF Attempt
  <2>2. QED
    BY <1>7, <2>1 DEF Linked
<1>11. Linked(t)
  <2>1. \A p \in OperationId : used(t, p) <=> p <= o
    BY <1>5, <1>7, <1>8 DEF OperationId
  <2>2. \E n \in Nat : \A a \in AttemptId : t.attempts[a].state # "unused" <=> a <= n
    BY <1>4 DEF Linked
  <2>3. \A p \in OperationId : ~live(t, p) => t.operations[p].code = NoCode
    BY <1>6, <1>7, <1>8 DEF Linked
  <2>4. ASSUME NEW a \in AttemptId
        PROVE  /\ t.attempts[a].state = "unused" <=> t.attempts[a].operation = None
               /\ t.attempts[a].operation # None => used(t, t.attempts[a].operation)
               /\ t.attempts[a].state = "pending" => live(t, t.attempts[a].operation)
    <3>1. /\ s.attempts[a].state = "unused" <=> s.attempts[a].operation = None
          /\ s.attempts[a].state = "pending" => live(s, s.attempts[a].operation)
      BY DEF Linked
    <3>2. QED
      BY <1>4, <1>8, <1>10, <3>1
  <2>5. ASSUME NEW i \in Identity, t.receipts[i] # NoReceipt
        PROVE  /\ used(t, t.receipts[i].operation)
               /\ t.receipts[i].code_fingerprint # NoCode => live(t, t.receipts[i].operation)
    BY <1>4, <1>8, <1>9, <2>5 DEF Linked
  <2>6. QED
    BY <1>5, <2>1, <2>2, <2>3, <2>4, <2>5 DEF Linked
<1>12. Keeps(s, t)
  <2>1. \A p \in OperationId :
          /\ used(s, p) => used(t, p) /\ t.operations[p].expires_at = s.operations[p].expires_at
          /\ ended(s, p) => ended(t, p)
    BY <1>6, <1>7, <1>8
  <2>2. \A i \in Identity : s.receipts[i] # NoReceipt =>
          (live(t, s.receipts[i].operation) => live(s, s.receipts[i].operation))
    BY <1>8, <1>9
  <2>3. QED
    BY <1>4, <2>1, <2>2 DEF Keeps
<1>13. QED
  BY <1>1, <1>4, <1>6, <1>7, <1>11, <1>12 DEF t

LEMMA StoreForm ==
  ASSUME NEW s \in Tables, NEW o \in OperationId, NEW code \in Code, clock \in Nat
  PROVE  LET u == storeCode(s, o, code)
         IN  /\ u \in Tables
             /\ u.attempts = s.attempts /\ u.receipts = s.receipts /\ u.quota = s.quota
             /\ \A p \in OperationId : p # o => u.operations[p] = s.operations[p]
             /\ u.operations[o].state = "active" /\ u.operations[o].code = code
             /\ u.operations[o].expires_at = s.operations[o].expires_at
             /\ u.operations[o].recipient = s.operations[o].recipient
             /\ u.operations[o].current_attempt_id = s.operations[o].current_attempt_id
<1> DEFINE row == [s.operations[o] EXCEPT !.code = code, !.state = "active",
                                          !.next_user_send_at = clock + resendCooldown]
<1> DEFINE u == storeCode(s, o, code)
<1>1. u = [s EXCEPT !.operations = [s.operations EXCEPT ![o] = row]]
  BY DEF storeCode
<1>2. clock + resendCooldown \in Nat
  BY DurationAssumption
<1>3. /\ row \in Operation /\ row.state = "active" /\ row.code = code
      /\ row.expires_at = s.operations[o].expires_at
      /\ row.recipient = s.operations[o].recipient
      /\ row.current_attempt_id = s.operations[o].current_attempt_id
  <2>1. s.operations[o] \in Operation
    BY TablesOf
  <2>2. QED
    BY <1>2, <2>1 DEF Operation
<1> HIDE DEF row, u
<1>4. /\ u \in Tables /\ u.operations = [s.operations EXCEPT ![o] = row]
      /\ u.attempts = s.attempts /\ u.receipts = s.receipts /\ u.quota = s.quota
  BY <1>1, <1>3, TablesOf DEF Tables
<1>5. /\ \A p \in OperationId : p # o => u.operations[p] = s.operations[p]
      /\ u.operations[o] = row
  BY <1>4, TablesOf
<1>6. QED
  BY <1>3, <1>4, <1>5 DEF u

LEMMA StoreKeeps ==
  ASSUME NEW s \in Tables, Linked(s), NEW o \in OperationId, NEW code \in Code, live(s, o),
         clock \in Nat
  PROVE  LET u == storeCode(s, o, code)
         IN  Linked(u) /\ Keeps(s, u) /\ live(u, o) /\ nextAttempt(u) = nextAttempt(s)
<1> DEFINE u == storeCode(s, o, code)
<1>1. /\ u \in Tables /\ u.attempts = s.attempts /\ u.receipts = s.receipts
      /\ \A p \in OperationId : p # o => u.operations[p] = s.operations[p]
      /\ u.operations[o].state = "active"
      /\ u.operations[o].expires_at = s.operations[o].expires_at
  BY StoreForm
<1> HIDE DEF u
<1>2. \A p \in OperationId : /\ used(s, p) <=> used(u, p)
                             /\ live(s, p) <=> live(u, p)
                             /\ u.operations[p].expires_at = s.operations[p].expires_at
                             /\ ~live(s, p) => u.operations[p].code = s.operations[p].code
  BY <1>1 DEF used, live
<1>3. \A a \in AttemptId : /\ u.attempts[a].operation = s.attempts[a].operation
                           /\ u.attempts[a].state = s.attempts[a].state
  BY <1>1
<1>4. Linked(u) /\ Keeps(s, u)
  BY <1>1, <1>2, <1>3, EditKeeps
<1>5. nextAttempt(u) = nextAttempt(s)
  BY <1>1 DEF nextAttempt
<1>6. QED
  BY <1>2, <1>4, <1>5 DEF u

LEMMA AttachKeeps ==
  ASSUME NEW s \in Tables, Linked(s), NEW o \in OperationId, NEW code \in Code, live(s, o),
         s.operations[o].code # code => nextAttempt(s) \in AttemptId, clock \in Nat
  PROVE  LET t == attachCode(s, o, code)
         IN  t \in Tables /\ Linked(t) /\ Keeps(s, t) /\ live(t, o) /\ t.receipts = s.receipts
<1> DEFINE u == storeCode(s, o, code)
<1> DEFINE t == attachCode(s, o, code)
<1>1. CASE s.operations[o].code = code
  BY <1>1, KeepsItself DEF attachCode
<1>2. CASE s.operations[o].code # code
  <2>1. t = schedule(u, o)
    BY <1>2 DEF attachCode
  <2>2. /\ u \in Tables /\ u.receipts = s.receipts /\ Linked(u) /\ Keeps(s, u) /\ live(u, o)
        /\ nextAttempt(u) = nextAttempt(s)
    BY StoreForm, StoreKeeps
  <2> HIDE DEF t, u
  <2>3. t \in Tables /\ Linked(t) /\ Keeps(u, t) /\ live(t, o) /\ t.receipts = u.receipts
    BY <1>2, <2>1, <2>2, ScheduleKeeps
  <2>4. QED
    BY <2>2, <2>3, KeepsAlong DEF t
<1>3. QED
  BY <1>1, <1>2

\* A user's send replaces what waits, and makes the next one wait.
waiting(s, o) ==
  [s EXCEPT !.attempts = suppressPendingAttempts(@, o),
            !.operations[o].next_user_send_at = clock + resendCooldown]

LEMMA WaitingKeeps ==
  ASSUME NEW s \in Tables, Linked(s), NEW o \in OperationId, clock \in Nat
  PROVE  LET t == waiting(s, o)
         IN  /\ t \in Tables /\ Linked(t) /\ Keeps(s, t)
             /\ live(s, o) <=> live(t, o)
             /\ nextAttempt(t) = nextAttempt(s)
             /\ \A p \in OperationId : t.operations[p].recipient = s.operations[p].recipient
             /\ \A a \in AttemptId : s.attempts[a].state # "pending" =>
                  t.attempts[a].state = s.attempts[a].state
             /\ t.receipts = s.receipts /\ t.quota = s.quota
<1> DEFINE row == [s.operations[o] EXCEPT !.next_user_send_at = clock + resendCooldown]
<1> DEFINE u == waiting(s, o)
<1>1. clock + resendCooldown \in Nat
  BY DurationAssumption
<1>2. /\ row \in Operation /\ row.state = s.operations[o].state
      /\ row.code = s.operations[o].code
      /\ row.expires_at = s.operations[o].expires_at
      /\ row.recipient = s.operations[o].recipient
  BY <1>1, TablesOf DEF Operation
<1>3. /\ u \in Tables /\ u.operations = [s.operations EXCEPT ![o] = row]
      /\ u.attempts = suppressPendingAttempts(s.attempts, o) /\ u.receipts = s.receipts
      /\ u.quota = s.quota
  <2>1. [s.operations EXCEPT ![o].next_user_send_at = clock + resendCooldown]
          = [s.operations EXCEPT ![o] = row]
    BY TablesOf
  <2>2. u = [s EXCEPT !.attempts = suppressPendingAttempts(s.attempts, o),
                      !.operations = [s.operations EXCEPT ![o].next_user_send_at = clock + resendCooldown]]
    BY DEF waiting
  <2> HIDE DEF u, row
  <2>3. u = [s EXCEPT !.attempts = suppressPendingAttempts(s.attempts, o),
                      !.operations = [s.operations EXCEPT ![o] = row]]
    BY <2>1, <2>2
  <2>4. [s.operations EXCEPT ![o] = row] \in [OperationId -> Operation]
    BY <1>2, TablesOf
  <2>5. suppressPendingAttempts(s.attempts, o) \in [AttemptId -> Attempt]
    BY SuppressForm, TablesOf
  <2>6. QED
    BY <2>3, <2>4, <2>5 DEF Tables
<1> HIDE DEF u, row
<1>4. /\ \A p \in OperationId : p # o => u.operations[p] = s.operations[p]
      /\ u.operations[o] = row
  BY <1>3, TablesOf
<1>5. \A a \in AttemptId :
        /\ u.attempts[a].operation = s.attempts[a].operation
        /\ u.attempts[a].state = IF s.attempts[a].operation = o /\ s.attempts[a].state = "pending"
                                 THEN "suppressed" ELSE s.attempts[a].state
  BY <1>3, SuppressForm, TablesOf
<1>6. \A p \in OperationId : /\ used(s, p) <=> used(u, p)
                             /\ live(s, p) <=> live(u, p)
                             /\ u.operations[p].expires_at = s.operations[p].expires_at
                             /\ u.operations[p].recipient = s.operations[p].recipient
                             /\ ~live(s, p) => u.operations[p].code = s.operations[p].code
  BY <1>2, <1>4 DEF used, live
<1>7. Linked(u) /\ Keeps(s, u)
  <2>1. \A a \in AttemptId :
          /\ u.attempts[a].operation = s.attempts[a].operation
          /\ u.attempts[a].state = "unused" <=> s.attempts[a].state = "unused"
          /\ u.attempts[a].state = "pending" => s.attempts[a].state = "pending"
    BY <1>5
  <2>2. QED
    BY <1>3, <1>6, <2>1, EditKeeps
<1>8. nextAttempt(u) = nextAttempt(s)
  <2>1. {a \in AttemptId : u.attempts[a].state # "unused"}
          = {a \in AttemptId : s.attempts[a].state # "unused"}
    BY <1>5
  <2>2. QED
    BY <2>1 DEF nextAttempt
<1>9. QED
  BY <1>3, <1>5, <1>6, <1>7, <1>8 DEF u

LEMMA RequestSendKeeps ==
  ASSUME NEW s \in Tables, Linked(s), NEW o \in OperationId, live(s, o),
         nextAttempt(s) \in AttemptId, clock \in Nat
  PROVE  LET t == requestSend(s, o)
         IN  t \in Tables /\ Linked(t) /\ Keeps(s, t) /\ live(t, o) /\ t.receipts = s.receipts
<1> DEFINE u == waiting(s, o)
<1> DEFINE v == schedule(u, o)
<1> DEFINE t == requestSend(s, o)
<1>1. t = countQuotas(v, {admissionLimit(s.operations[o].recipient)},
                      <<"attempt", v.operations[o].current_attempt_id>>)
  BY DEF requestSend, waiting
<1>2. s.operations[o].recipient \in Recipient
  BY TablesOf DEF Operation
<1> HIDE DEF u, v, t
<1>3. /\ u \in Tables /\ Linked(u) /\ Keeps(s, u) /\ live(u, o)
      /\ nextAttempt(u) = nextAttempt(s) /\ u.receipts = s.receipts
  BY WaitingKeeps DEF u
<1>4. /\ v \in Tables /\ Linked(v) /\ Keeps(u, v) /\ live(v, o)
      /\ v.operations[o].current_attempt_id = nextAttempt(s)
      /\ v.receipts = u.receipts
  BY <1>3, ScheduleKeeps DEF v
<1>5. /\ t \in Tables /\ t.operations = v.operations /\ t.attempts = v.attempts
      /\ t.receipts = v.receipts
  <2>1. {admissionLimit(s.operations[o].recipient)} \in SUBSET Limits
    BY <1>2, LimitsOf
  <2>2. <<"attempt", v.operations[o].current_attempt_id>> \in Ids
    BY <1>4 DEF Ids, AttemptId
  <2>3. QED
    BY <1>1, <1>4, <2>1, <2>2, CountForm
<1>6. Linked(t) /\ Keeps(v, t) /\ live(t, o)
  <2>1. \A p \in OperationId : /\ used(v, p) <=> used(t, p)
                               /\ live(v, p) <=> live(t, p)
                               /\ t.operations[p].expires_at = v.operations[p].expires_at
                               /\ t.operations[p].code = v.operations[p].code
    BY <1>5 DEF used, live
  <2>2. QED
    BY <1>4, <1>5, <2>1, EditKeeps
<1>7. QED
  BY <1>3, <1>4, <1>5, <1>6, KeepsAlong DEF t

\* An attempt that is under way gets on.
LEMMA MoveKeeps ==
  ASSUME NEW s \in Tables, Linked(s), NEW a \in AttemptId,
         s.attempts[a].state \in {"pending", "dispatching"},
         NEW x \in {"suppressed", "dispatching", "done"}
  PROVE  LET t == [s EXCEPT !.attempts[a].state = x]
         IN  /\ t \in Tables /\ Linked(t) /\ Keeps(s, t)
             /\ t.operations = s.operations /\ t.receipts = s.receipts /\ t.quota = s.quota
<1> DEFINE row == [s.attempts[a] EXCEPT !.state = x]
<1> DEFINE t == [s EXCEPT !.attempts[a].state = x]
<1>1. s.attempts[a] \in Attempt
  BY TablesOf
<1>2. row \in Attempt /\ row.state = x /\ row.operation = s.attempts[a].operation
  BY <1>1 DEF Attempt
<1>3. t = [s EXCEPT !.attempts = [s.attempts EXCEPT ![a] = row]]
  BY TablesOf
<1> HIDE DEF row, t
<1>4. /\ t \in Tables /\ t.operations = s.operations /\ t.receipts = s.receipts
      /\ t.quota = s.quota /\ t.attempts = [s.attempts EXCEPT ![a] = row]
  BY <1>2, <1>3, TablesOf DEF Tables
<1>5. /\ \A b \in AttemptId : b # a => t.attempts[b] = s.attempts[b]
      /\ t.attempts[a] = row
  BY <1>4, TablesOf
<1>6. \A b \in AttemptId :
        /\ t.attempts[b].operation = s.attempts[b].operation
        /\ t.attempts[b].state = "unused" <=> s.attempts[b].state = "unused"
        /\ t.attempts[b].state = "pending" => s.attempts[b].state = "pending"
  BY <1>2, <1>5
<1>7. \A p \in OperationId : /\ used(s, p) <=> used(t, p)
                             /\ live(s, p) <=> live(t, p)
                             /\ t.operations[p].expires_at = s.operations[p].expires_at
                             /\ t.operations[p].code = s.operations[p].code
  BY <1>4 DEF used, live
<1>8. Linked(t) /\ Keeps(s, t)
  BY <1>4, <1>6, <1>7, EditKeeps
<1>9. QED
  BY <1>4, <1>8 DEF t

LEMMA ReserveKeeps ==
  ASSUME NEW s \in Tables, Linked(s), NEW a \in AttemptId, s.attempts[a].state = "pending",
         NEW who \in Recipient, clock \in Nat
  PROVE  LET t == reserve(s, a, who)
         IN  t \in Tables /\ Linked(t) /\ Keeps(s, t)
<1> DEFINE o == s.attempts[a].operation
<1> DEFINE at == IF s.operations[o].next_user_send_at > clock + resendCooldown
                 THEN s.operations[o].next_user_send_at ELSE clock + resendCooldown
<1> DEFINE row == [s.operations[o] EXCEPT !.next_user_send_at = at]
<1> DEFINE u == [s EXCEPT !.attempts[a].state = "dispatching"]
<1> DEFINE v == [u EXCEPT !.operations = [s.operations EXCEPT ![o] = row]]
<1> DEFINE t == reserve(s, a, who)
<1>1. o \in OperationId /\ s.operations[o] \in Operation
  <2>1. s.attempts[a].operation \in OperationId \cup {None}
    BY TablesOf DEF Attempt
  <2>2. s.attempts[a].operation # None
    BY DEF Linked
  <2>3. QED
    BY <2>1, <2>2, TablesOf
<1>2. at \in Nat
  <2>1. s.operations[o].next_user_send_at \in Nat /\ clock + resendCooldown \in Nat
    BY <1>1, DurationAssumption DEF Operation
  <2>2. QED
    BY <2>1
<1>3. t = extendAdmission(countQuotas(v, sendLimits(who), <<"attempt", a>>), who, <<"attempt", a>>)
  <2>1. [s.operations EXCEPT ![o].next_user_send_at = at] = [s.operations EXCEPT ![o] = row]
    BY TablesOf
  <2>2. [s EXCEPT !.attempts[a].state = "dispatching",
                  !.operations[o].next_user_send_at = at]
          = [u EXCEPT !.operations = [s.operations EXCEPT ![o].next_user_send_at = at]]
    BY DEF Tables
  <2>3. QED
    BY <2>1, <2>2 DEF reserve
<1>4. /\ u \in Tables /\ Linked(u) /\ Keeps(s, u)
      /\ u.operations = s.operations /\ u.receipts = s.receipts
  BY MoveKeeps
<1>5. /\ row \in Operation /\ row.state = s.operations[o].state
      /\ row.code = s.operations[o].code
      /\ row.expires_at = s.operations[o].expires_at
  BY <1>1, <1>2 DEF Operation
<1> HIDE DEF u, row, t, at
<1>6. /\ v \in Tables /\ v.operations = [u.operations EXCEPT ![o] = row]
      /\ v.attempts = u.attempts /\ v.receipts = u.receipts
  BY <1>4, <1>5, TablesOf DEF Tables
<1> HIDE DEF v, o
<1>7. /\ t \in Tables /\ t.operations = v.operations /\ t.attempts = v.attempts
      /\ t.receipts = v.receipts
  <2> DEFINE q == countQuotas(v, sendLimits(who), <<"attempt", a>>)
  <2>1. <<"attempt", a>> \in Ids /\ sendLimits(who) \in SUBSET Limits
    BY LimitsOf DEF Ids, AttemptId
  <2>2. /\ q \in Tables /\ q.operations = v.operations /\ q.attempts = v.attempts
        /\ q.receipts = v.receipts
    BY <1>6, <2>1, CountForm
  <2>3. t = extendAdmission(q, who, <<"attempt", a>>)
    BY <1>3
  <2> HIDE DEF q
  <2>4. QED
    BY <2>1, <2>2, <2>3, ExtendForm
<1>8. /\ \A p \in OperationId : p # o => t.operations[p] = u.operations[p]
      /\ t.operations[o] = row
  BY <1>1, <1>4, <1>6, <1>7, TablesOf
<1>9. \A p \in OperationId : /\ used(u, p) <=> used(t, p)
                             /\ live(u, p) <=> live(t, p)
                             /\ t.operations[p].expires_at = u.operations[p].expires_at
                             /\ t.operations[p].code = u.operations[p].code
  BY <1>4, <1>5, <1>8 DEF used, live
<1>10. Linked(t) /\ Keeps(u, t)
  <2>1. t.attempts = u.attempts /\ t.receipts = u.receipts
    BY <1>6, <1>7
  <2>2. QED
    BY <1>4, <1>7, <1>9, <2>1, EditKeeps
<1>11. QED
  BY <1>4, <1>7, <1>10, KeepsAlong DEF t

LEMMA SaveForm ==
  ASSUME NEW s \in Tables, NEW r \in Request, NEW o \in OperationId, clock \in Nat
  PROVE  LET t == save(s, r, o)
             new == t.receipts[identity(r)]
         IN  /\ t \in Tables
             /\ resultOf(s, o) \in Result
             /\ t.operations = s.operations /\ t.attempts = s.attempts /\ t.quota = s.quota
             /\ \A i \in Identity : i # identity(r) => t.receipts[i] = s.receipts[i]
             /\ new \in Receipt
             /\ new.operation = o
             /\ new.fingerprint = fingerprint(r)
             /\ new.code_fingerprint = IF live(s, o) THEN r.code ELSE NoCode
             /\ new.response = resultOf(s, o)
             /\ new.retain_until = clock + ReceiptRetention
<1> DEFINE new == [operation |-> o, fingerprint |-> fingerprint(r),
                   code_fingerprint |-> IF live(s, o) THEN r.code ELSE NoCode,
                   response |-> resultOf(s, o), retain_until |-> clock + ReceiptRetention]
<1>1. s.operations[o].current_attempt_id \in AttemptId \cup {None}
  BY TablesOf DEF Operation
<1>2. resultOf(s, o) \in Result
  BY <1>1 DEF resultOf, Result
<1>3. fingerprint(r) \in Recipient \X Nat /\ r.code \in Code \cup {NoCode}
  BY Fields DEF fingerprint
<1>4. clock + ReceiptRetention \in Nat
  BY DurationAssumption
<1>5. new \in Receipt
  BY <1>2, <1>3, <1>4 DEF Receipt
<1>6. identity(r) \in Identity
  BY IdentityOf
<1>7. save(s, r, o) = [s EXCEPT !.receipts = [s.receipts EXCEPT ![identity(r)] = new]]
  BY DEF save
<1>8. /\ new.operation = o
      /\ new.fingerprint = fingerprint(r)
      /\ new.code_fingerprint = IF live(s, o) THEN r.code ELSE NoCode
      /\ new.response = resultOf(s, o)
      /\ new.retain_until = clock + ReceiptRetention
  OBVIOUS
<1> HIDE DEF new
<1>9. /\ save(s, r, o) \in Tables
      /\ save(s, r, o).operations = s.operations /\ save(s, r, o).attempts = s.attempts
      /\ save(s, r, o).quota = s.quota
      /\ save(s, r, o).receipts = [s.receipts EXCEPT ![identity(r)] = new]
  BY <1>5, <1>6, <1>7, TablesOf DEF Tables
<1>10. /\ save(s, r, o).receipts[identity(r)] = new
       /\ \A i \in Identity : i # identity(r) => save(s, r, o).receipts[i] = s.receipts[i]
  BY <1>6, <1>9, TablesOf
<1>11. QED
  BY <1>2, <1>5, <1>8, <1>9, <1>10

-----------------------------------------------------------------------------
(***************************************************************************)
(* Maintenance.                                                            *)
(***************************************************************************)
LEMMA ExpireOverdueKeeps ==
  ASSUME db \in Tables, Linked(db), clock \in Nat
  PROVE  /\ expireOverdue \in Tables /\ Linked(expireOverdue) /\ Keeps(db, expireOverdue)
<1> DEFINE due == {o \in unlocked : live(db, o) /\ db.operations[o].expires_at <= clock}
<1> DEFINE O == [o \in OperationId |-> IF o \in due THEN terminate(db, o, "expired").operations[o]
                                       ELSE db.operations[o]]
<1> DEFINE A == [a \in AttemptId |->
                   IF db.attempts[a].operation \in due
                   THEN suppressPendingAttempts(db.attempts, db.attempts[a].operation)[a]
                   ELSE db.attempts[a]]
<1> DEFINE R == [i \in Identity |->
                   IF db.receipts[i] # NoReceipt /\ db.receipts[i].operation \in due
                   THEN [db.receipts[i] EXCEPT !.code_fingerprint = NoCode] ELSE db.receipts[i]]
<1> DEFINE t == expireOverdue
<1>1. t = [db EXCEPT !.operations = O, !.attempts = A, !.receipts = R]
  BY DEF expireOverdue
<1>2. due \subseteq OperationId /\ \A o \in due : live(db, o)
  BY DEF unlocked
<1>3. \A o \in due : /\ terminate(db, o, "expired").operations[o] \in Operation
                     /\ terminate(db, o, "expired").operations[o].state = "expired"
                     /\ terminate(db, o, "expired").operations[o].code = NoCode
                     /\ terminate(db, o, "expired").operations[o].expires_at
                          = db.operations[o].expires_at
  <2>1. ASSUME NEW o \in due
        PROVE  /\ terminate(db, o, "expired") \in Tables
               /\ terminate(db, o, "expired").operations[o].state = "expired"
               /\ terminate(db, o, "expired").operations[o].code = NoCode
               /\ terminate(db, o, "expired").operations[o].expires_at
                    = db.operations[o].expires_at
    <3>1. o \in OperationId /\ "expired" \in Terminal
      BY <1>2 DEF Terminal
    <3>2. QED
      BY <3>1, TerminateForm
  <2>2. QED
    BY <1>2, <2>1, TablesOf
<1>4. ASSUME NEW a \in AttemptId
      PROVE  /\ A[a] \in Attempt
             /\ A[a].operation = db.attempts[a].operation
             /\ A[a].state = IF db.attempts[a].operation \in due /\ db.attempts[a].state = "pending"
                             THEN "suppressed" ELSE db.attempts[a].state
  <2>1. db.attempts \in [AttemptId -> Attempt]
    BY TablesOf
  <2>2. CASE db.attempts[a].operation \in due
    <3>1. db.attempts[a].operation \in OperationId
      BY <1>2, <2>2
    <3>2. A[a] = suppressPendingAttempts(db.attempts, db.attempts[a].operation)[a]
      BY <2>2
    <3>3. QED
      BY <2>1, <2>2, <3>1, <3>2, SuppressForm
  <2>3. CASE db.attempts[a].operation \notin due
    BY <2>1, <2>3
  <2>4. QED
    BY <2>2, <2>3
<1>5. ASSUME NEW i \in Identity
      PROVE  /\ R[i] \in Receipt \cup {NoReceipt}
             /\ db.receipts[i] = NoReceipt <=> R[i] = NoReceipt
             /\ db.receipts[i] # NoReceipt =>
                  /\ R[i].operation = db.receipts[i].operation
                  /\ R[i].fingerprint = db.receipts[i].fingerprint
                  /\ R[i].response = db.receipts[i].response
                  /\ R[i].retain_until = db.receipts[i].retain_until
                  /\ R[i].code_fingerprint = IF db.receipts[i].operation \in due THEN NoCode
                                             ELSE db.receipts[i].code_fingerprint
  <2>1. db.receipts[i] \in Receipt \cup {NoReceipt}
    BY TablesOf
  <2>2. ASSUME NEW x \in Receipt
        PROVE  /\ [x EXCEPT !.code_fingerprint = NoCode] \in Receipt
               /\ [x EXCEPT !.code_fingerprint = NoCode].operation = x.operation
               /\ [x EXCEPT !.code_fingerprint = NoCode].fingerprint = x.fingerprint
               /\ [x EXCEPT !.code_fingerprint = NoCode].response = x.response
               /\ [x EXCEPT !.code_fingerprint = NoCode].retain_until = x.retain_until
               /\ [x EXCEPT !.code_fingerprint = NoCode].code_fingerprint = NoCode
    BY DEF Receipt
  <2>3. R[i] = IF db.receipts[i] # NoReceipt /\ db.receipts[i].operation \in due
               THEN [db.receipts[i] EXCEPT !.code_fingerprint = NoCode] ELSE db.receipts[i]
    OBVIOUS
  <2> HIDE DEF R, due
  <2>4. QED
    BY <2>1, <2>2, <2>3, AbsenceAssumption
<1>6. \A o \in OperationId : O[o] = IF o \in due THEN terminate(db, o, "expired").operations[o]
                                   ELSE db.operations[o]
  OBVIOUS
<1>7. /\ O = [o \in OperationId |-> O[o]] /\ A = [a \in AttemptId |-> A[a]]
      /\ R = [i \in Identity |-> R[i]]
  OBVIOUS
<1> HIDE DEF O, A, R, due, t
<1>8. \A o \in OperationId : O[o] \in Operation
  BY <1>3, <1>6, TablesOf
<1>9. t \in Tables /\ t.operations = O /\ t.attempts = A /\ t.receipts = R
  <2>1. /\ O \in [OperationId -> Operation] /\ A \in [AttemptId -> Attempt]
        /\ R \in [Identity -> Receipt \cup {NoReceipt}]
    BY <1>4, <1>5, <1>7, <1>8
  <2>2. QED
    BY <1>1, <2>1 DEF Tables
<1>10. \A o \in OperationId :
         /\ used(db, o) <=> used(t, o)
         /\ o \in due => live(db, o) /\ ~live(t, o)
         /\ o \notin due => (live(db, o) <=> live(t, o))
         /\ ended(db, o) => ended(t, o)
         /\ t.operations[o].expires_at = db.operations[o].expires_at
         /\ o \in due => t.operations[o].code = NoCode
         /\ o \notin due => t.operations[o].code = db.operations[o].code
  BY <1>2, <1>3, <1>6, <1>9 DEF used, live, ended
<1>11. \A i \in Identity : db.receipts[i] # NoReceipt => db.receipts[i].operation \in OperationId
  BY TablesOf DEF Receipt
<1>12. Linked(t)
  <2>1. /\ \E n \in Nat : \A o \in OperationId : used(t, o) <=> o <= n
        /\ \E n \in Nat : \A a \in AttemptId : t.attempts[a].state # "unused" <=> a <= n
    BY <1>4, <1>9, <1>10 DEF Linked
  <2>2. \A o \in OperationId : ~live(t, o) => t.operations[o].code = NoCode
    BY <1>10 DEF Linked
  <2>3. ASSUME NEW a \in AttemptId
        PROVE  /\ t.attempts[a].state = "unused" <=> t.attempts[a].operation = None
               /\ t.attempts[a].operation # None => used(t, t.attempts[a].operation)
               /\ t.attempts[a].state = "pending" => live(t, t.attempts[a].operation)
    <3>1. db.attempts[a].operation \in OperationId \cup {None}
      BY TablesOf DEF Attempt
    <3>2. /\ db.attempts[a].state = "unused" <=> db.attempts[a].operation = None
          /\ db.attempts[a].operation # None => used(db, db.attempts[a].operation)
          /\ db.attempts[a].state = "pending" => live(db, db.attempts[a].operation)
      BY DEF Linked
    <3>3. /\ t.attempts[a].operation = db.attempts[a].operation
          /\ t.attempts[a].state = IF db.attempts[a].operation \in due
                                      /\ db.attempts[a].state = "pending"
                                   THEN "suppressed" ELSE db.attempts[a].state
      BY <1>4, <1>9
    <3>4. db.attempts[a].operation \in OperationId =>
            /\ used(db, db.attempts[a].operation) <=> used(t, db.attempts[a].operation)
            /\ db.attempts[a].operation \notin due =>
                 (live(db, db.attempts[a].operation) <=> live(t, db.attempts[a].operation))
      BY <1>10
    <3>5. None \notin OperationId
      BY DEF None, OperationId
    <3>6. QED
      BY <3>1, <3>2, <3>3, <3>4, <3>5
  <2>4. ASSUME NEW i \in Identity, t.receipts[i] # NoReceipt
        PROVE  /\ used(t, t.receipts[i].operation)
               /\ t.receipts[i].code_fingerprint # NoCode => live(t, t.receipts[i].operation)
    <3>1. db.receipts[i] # NoReceipt /\ db.receipts[i].operation \in OperationId
      BY <1>5, <1>9, <1>11, <2>4
    <3>2. QED
      BY <1>5, <1>9, <1>10, <3>1 DEF Linked
  <2>5. QED
    BY <2>1, <2>2, <2>3, <2>4 DEF Linked
<1>13. Keeps(db, t)
  <2>1. \A i \in Identity : db.receipts[i] # NoReceipt =>
          (live(t, db.receipts[i].operation) =>
             live(db, db.receipts[i].operation) /\ db.receipts[i].operation \notin due)
    BY <1>10, <1>11
  <2>2. \A a \in AttemptId : t.attempts[a].operation = db.attempts[a].operation
    BY <1>4, <1>9
  <2>3. QED
    BY <1>5, <1>9, <1>10, <2>1, <2>2 DEF Keeps
<1>14. QED
  BY <1>9, <1>12, <1>13 DEF t

\* What cleaning up preserves: receipts that are dropped have nothing left to answer for.
Preserves(s, t, now) ==
  /\ \A o \in OperationId :
       /\ used(s, o) => used(t, o) /\ t.operations[o].expires_at = s.operations[o].expires_at
       /\ ended(s, o) => ended(t, o)
  /\ \A i \in Identity :
       /\ s.receipts[i] = NoReceipt => t.receipts[i] = NoReceipt
       /\ (s.receipts[i] # NoReceipt /\ t.receipts[i] = NoReceipt) =>
            s.receipts[i].retain_until <= now /\ ended(t, s.receipts[i].operation)
       /\ (s.receipts[i] # NoReceipt /\ t.receipts[i] # NoReceipt) =>
            /\ t.receipts[i].operation = s.receipts[i].operation
            /\ t.receipts[i].fingerprint = s.receipts[i].fingerprint
            /\ t.receipts[i].response = s.receipts[i].response
            /\ t.receipts[i].retain_until = s.receipts[i].retain_until
            /\ live(t, s.receipts[i].operation) =>
                 /\ live(s, s.receipts[i].operation)
                 /\ t.receipts[i].code_fingerprint = s.receipts[i].code_fingerprint
  /\ \A a \in AttemptId :
       s.attempts[a].operation # None => t.attempts[a].operation = s.attempts[a].operation

LEMMA KeepsPreserves == ASSUME NEW s, NEW t, NEW now, Keeps(s, t) PROVE Preserves(s, t, now)
BY DEF Keeps, Preserves

LEMMA CleanupPreserves ==
  ASSUME db \in Tables, Linked(db), clock \in Nat
  PROVE  /\ cleanupBatch \in Tables /\ Linked(cleanupBatch)
         /\ Preserves(db, cleanupBatch, clock)
<1> DEFINE s == expireOverdue
<1> DEFINE O == [o \in OperationId |-> IF o \in forgotten(s)
                   THEN [s.operations[o] EXCEPT !.state = "deleted"] ELSE s.operations[o]]
<1> DEFINE R == [i \in Identity |-> IF s.receipts[i] # NoReceipt /\ droppable(s, s.receipts[i])
                                    THEN NoReceipt ELSE s.receipts[i]]
<1> DEFINE t == cleanupBatch
<1>1. s \in Tables /\ Linked(s) /\ Keeps(db, s)
  BY ExpireOverdueKeeps
<1>2. t = [s EXCEPT !.receipts = R, !.operations = O, !.quota = {e \in s.quota : ~outdated(e)}]
  BY DEF cleanupBatch
<1> HIDE DEF s, t
<1>3. \A o \in forgotten(s) : o \in OperationId /\ s.operations[o].state \in {"closed", "expired"}
  BY DEF forgotten, unlocked
<1>4. \A o \in OperationId :
        /\ O[o] \in Operation
        /\ O[o].expires_at = s.operations[o].expires_at
        /\ O[o].code = s.operations[o].code
        /\ O[o].state = IF o \in forgotten(s) THEN "deleted" ELSE s.operations[o].state
  <2>1. \A o \in OperationId : s.operations[o] \in Operation
    BY <1>1, TablesOf
  <2>2. ASSUME NEW x \in Operation
        PROVE  LET y == [x EXCEPT !.state = "deleted"]
               IN  y \in Operation /\ y.expires_at = x.expires_at /\ y.code = x.code
                   /\ y.state = "deleted"
    BY DEF Operation
  <2>3. QED
    BY <2>1, <2>2
<1>5. \A i \in Identity : R[i] = IF s.receipts[i] # NoReceipt /\ droppable(s, s.receipts[i])
                                THEN NoReceipt ELSE s.receipts[i]
  OBVIOUS
<1>6. O = [o \in OperationId |-> O[o]] /\ R = [i \in Identity |-> R[i]]
  OBVIOUS
<1> HIDE DEF O, R
<1>7. /\ t \in Tables /\ t.operations = O /\ t.receipts = R /\ t.attempts = s.attempts
  <2>1. \A i \in Identity : R[i] \in Receipt \cup {NoReceipt}
    BY <1>1, <1>5, TablesOf
  <2>2. /\ O \in [OperationId -> Operation] /\ R \in [Identity -> Receipt \cup {NoReceipt}]
        /\ {e \in s.quota : ~outdated(e)} \in SUBSET Event
    BY <1>1, <1>4, <1>6, <2>1, TablesOf
  <2>3. QED
    BY <1>1, <1>2, <2>2 DEF Tables
<1>8. \A o \in OperationId :
        /\ used(s, o) <=> used(t, o)
        /\ live(s, o) <=> live(t, o)
        /\ ended(s, o) => ended(t, o)
        /\ t.operations[o].expires_at = s.operations[o].expires_at
        /\ t.operations[o].code = s.operations[o].code
  BY <1>3, <1>4, <1>7 DEF used, live, ended
<1>9. \A i \in Identity : s.receipts[i] # NoReceipt =>
        s.receipts[i].operation \in OperationId /\ used(s, s.receipts[i].operation)
  BY <1>1, TablesOf DEF Receipt, Linked
<1>10. Linked(t)
  <2>1. /\ \E n \in Nat : \A o \in OperationId : used(t, o) <=> o <= n
        /\ \E n \in Nat : \A a \in AttemptId : t.attempts[a].state # "unused" <=> a <= n
    BY <1>1, <1>7, <1>8 DEF Linked
  <2>2. \A o \in OperationId : ~live(t, o) => t.operations[o].code = NoCode
    BY <1>1, <1>8 DEF Linked
  <2>3. ASSUME NEW a \in AttemptId
        PROVE  /\ t.attempts[a].state = "unused" <=> t.attempts[a].operation = None
               /\ t.attempts[a].operation # None => used(t, t.attempts[a].operation)
               /\ t.attempts[a].state = "pending" => live(t, t.attempts[a].operation)
    <3>1. s.attempts[a].operation \in OperationId \cup {None}
      BY <1>1, TablesOf DEF Attempt
    <3>2. /\ s.attempts[a].state = "unused" <=> s.attempts[a].operation = None
          /\ s.attempts[a].operation # None => used(s, s.attempts[a].operation)
          /\ s.attempts[a].state = "pending" => live(s, s.attempts[a].operation)
      BY <1>1 DEF Linked
    <3>3. s.attempts[a].state = "pending" => s.attempts[a].operation \in OperationId
      BY <3>1, <3>2
    <3>4. QED
      BY <1>7, <1>8, <3>1, <3>2, <3>3
  <2>4. ASSUME NEW i \in Identity, t.receipts[i] # NoReceipt
        PROVE  /\ used(t, t.receipts[i].operation)
               /\ t.receipts[i].code_fingerprint # NoCode => live(t, t.receipts[i].operation)
    <3>1. t.receipts[i] = s.receipts[i] /\ s.receipts[i] # NoReceipt
      BY <1>5, <1>7, <2>4
    <3>2. s.receipts[i].code_fingerprint # NoCode => live(s, s.receipts[i].operation)
      BY <1>1, <3>1 DEF Linked
    <3>3. QED
      BY <1>8, <1>9, <3>1, <3>2
  <2>5. QED
    BY <2>1, <2>2, <2>3, <2>4 DEF Linked
<1>11. Preserves(s, t, clock)
  <2>1. ASSUME NEW i \in Identity, s.receipts[i] # NoReceipt, t.receipts[i] = NoReceipt
        PROVE  s.receipts[i].retain_until <= clock /\ ended(t, s.receipts[i].operation)
    <3>1. droppable(s, s.receipts[i])
      BY <1>5, <1>7, <2>1
    <3>2. s.receipts[i].operation \in OperationId /\ used(s, s.receipts[i].operation)
      BY <1>9, <2>1
    <3>3. s.operations[s.receipts[i].operation].state
            \in {"absent", "prepared", "active", "closed", "expired", "deleted"}
      BY <1>1, <3>2, TablesOf DEF Operation
    <3>4. ended(s, s.receipts[i].operation)
      BY <3>1, <3>2, <3>3 DEF droppable, live, ended, used
    <3>5. QED
      BY <1>8, <3>1, <3>2, <3>4 DEF droppable
  <2>2. ASSUME NEW i \in Identity, s.receipts[i] # NoReceipt, t.receipts[i] # NoReceipt
        PROVE  t.receipts[i] = s.receipts[i]
    BY <1>5, <1>7, <2>2
  <2>3. \A i \in Identity : s.receipts[i] = NoReceipt => t.receipts[i] = NoReceipt
    BY <1>5, <1>7
  <2>4. \A i \in Identity : s.receipts[i] # NoReceipt =>
          (live(t, s.receipts[i].operation) => live(s, s.receipts[i].operation))
    BY <1>8, <1>9
  <2>5. QED
    BY <1>7, <1>8, <2>1, <2>2, <2>3, <2>4 DEF Preserves
<1>12. Preserves(db, t, clock)
  <2>1. \A i \in Identity : db.receipts[i] # NoReceipt => db.receipts[i].operation \in OperationId
    BY TablesOf DEF Receipt
  <2>2. QED
    BY <1>1, <1>11, <2>1 DEF Keeps, Preserves
<1>13. QED
  BY <1>7, <1>10, <1>12 DEF t

-----------------------------------------------------------------------------
(***************************************************************************)
(* What was executed is remembered, and what was logged stays timely.      *)
(***************************************************************************)
LEMMA Targets ==
  ASSUME NEW r \in Request
  PROVE  /\ identity(r) \in Identity
         /\ r.target # None => r.target \in OperationId
         /\ r.expiresAt \in Nat /\ fingerprint(r)[2] = r.expiresAt
BY IdentityOf, RequestAssumption DEF RequestType, fingerprint

LEMMA RememberedAlong ==
  ASSUME NEW s \in Tables, NEW t \in Tables, NEW now \in Nat, Preserves(s, t, now),
         NEW done, done \subseteq [request : Request, result : Result], Remembered(s, done, now)
  PROVE  Remembered(t, done, now)
<1>1. \A i \in Identity : s.receipts[i] # NoReceipt =>
        /\ s.receipts[i].operation \in OperationId
        /\ s.receipts[i].retain_until \in Nat
  BY TablesOf DEF Receipt
<1>2. ASSUME NEW i \in Identity, s.receipts[i] # NoReceipt, t.receipts[i] # NoReceipt, NEW e,
             stands(s, s.receipts[i], e)
      PROVE  stands(t, t.receipts[i], e)
  BY <1>1, <1>2 DEF stands, Preserves
<1>3. ASSUME NEW e \in done
      PROVE  \/ /\ t.receipts[identity(e.request)] # NoReceipt
                /\ stands(t, t.receipts[identity(e.request)], e)
             \/ over(t, e, now)
  <2>1. /\ e.request \in Request /\ identity(e.request) \in Identity
        /\ e.request.target # None => e.request.target \in OperationId
        /\ e.request.expiresAt \in Nat /\ fingerprint(e.request)[2] = e.request.expiresAt
    BY Targets
  <2>2. CASE over(s, e, now)
    BY <2>1, <2>2 DEF over, Preserves
  <2>3. CASE /\ s.receipts[identity(e.request)] # NoReceipt
             /\ stands(s, s.receipts[identity(e.request)], e)
             /\ t.receipts[identity(e.request)] = NoReceipt
    <3>1. /\ s.receipts[identity(e.request)].retain_until <= now
          /\ ended(t, s.receipts[identity(e.request)].operation)
      BY <2>1, <2>3 DEF Preserves
    <3>2. /\ e.request.target # None =>
               s.receipts[identity(e.request)].operation = e.request.target
          /\ e.request.target = None =>
               s.receipts[identity(e.request)].fingerprint[2]
                 <= s.receipts[identity(e.request)].retain_until
      BY <2>1, <2>3 DEF Remembered
    <3>3. s.receipts[identity(e.request)].fingerprint = fingerprint(e.request)
      BY <2>3 DEF stands
    <3>4. s.receipts[identity(e.request)].retain_until \in Nat
      BY <1>1, <2>1, <2>3
    <3>5. e.request.target = None => e.request.expiresAt <= now
      BY <2>1, <3>1, <3>2, <3>3, <3>4
    <3>6. QED
      BY <3>1, <3>2, <3>5 DEF over
  <2>4. QED
    BY <1>2, <2>1, <2>2, <2>3 DEF Remembered
<1>4. ASSUME NEW r \in Request, t.receipts[identity(r)] # NoReceipt
      PROVE  LET receipt == t.receipts[identity(r)]
             IN  /\ \E e \in done : identity(e.request) = identity(r) /\ stands(t, receipt, e)
                 /\ r.target # None => receipt.operation = r.target
                 /\ r.target = None => receipt.fingerprint[2] <= receipt.retain_until
  <2>1. identity(r) \in Identity
    BY Targets
  <2>2. s.receipts[identity(r)] # NoReceipt
    BY <1>4, <2>1 DEF Preserves
  <2>3. /\ \E e \in done : identity(e.request) = identity(r)
                           /\ stands(s, s.receipts[identity(r)], e)
        /\ r.target # None => s.receipts[identity(r)].operation = r.target
        /\ r.target = None =>
             s.receipts[identity(r)].fingerprint[2] <= s.receipts[identity(r)].retain_until
    BY <2>2 DEF Remembered
  <2>4. /\ t.receipts[identity(r)].operation = s.receipts[identity(r)].operation
        /\ t.receipts[identity(r)].fingerprint = s.receipts[identity(r)].fingerprint
        /\ t.receipts[identity(r)].retain_until = s.receipts[identity(r)].retain_until
    BY <1>4, <2>1, <2>2 DEF Preserves
  <2>5. QED
    BY <1>2, <1>4, <2>1, <2>2, <2>3, <2>4
<1>5. QED
  BY <1>3, <1>4 DEF Remembered

LEMMA RememberedLater ==
  ASSUME NEW s \in Tables, NEW now \in Nat, NEW later \in Nat, now <= later,
         NEW done, done \subseteq [request : Request, result : Result], Remembered(s, done, now)
  PROVE  Remembered(s, done, later)
<1>1. ASSUME NEW e \in done, over(s, e, now) PROVE over(s, e, later)
  <2>1. e.request \in Request /\ e.request.expiresAt \in Nat
    BY Targets
  <2>2. QED
    BY <1>1, <2>1 DEF over
<1>2. QED
  BY <1>1 DEF Remembered

LEMMA TimelyAlong ==
  ASSUME NEW s, NEW t, NEW now, Preserves(s, t, now), NEW entries, Timely(s, entries)
  PROVE  Timely(t, entries)
BY DEF Timely, Preserves

\* A request is executed when it has no receipt, before its deadline or while its
\* operation lives; its receipt is then the memory of that.
LEMMA ExecutedIsRemembered ==
  ASSUME NEW s \in Tables, NEW u \in Tables, clock \in Nat, Linked(u), Keeps(s, u),
         NEW done, done \subseteq [request : Request, result : Result],
         Remembered(s, done, clock),
         NEW r \in Request, s.receipts[identity(r)] = NoReceipt,
         NEW o \in OperationId, used(u, o), r.target # None => o = r.target,
         r.target = None => r.expiresAt - clock <= maxLifetime
  PROVE  LET v == save(u, r, o)
             e == [request |-> r, result |-> resultOf(u, o)]
         IN  /\ v \in Tables /\ Linked(v)
             /\ e \in [request : Request, result : Result]
             /\ Remembered(v, done \cup {e}, clock)
<1> DEFINE v == save(u, r, o)
<1> DEFINE e == [request |-> r, result |-> resultOf(u, o)]
<1> DEFINE new == v.receipts[identity(r)]
<1>1. /\ v \in Tables
      /\ resultOf(u, o) \in Result
      /\ v.operations = u.operations /\ v.attempts = u.attempts
      /\ \A i \in Identity : i # identity(r) => v.receipts[i] = u.receipts[i]
      /\ new \in Receipt
      /\ new.operation = o
      /\ new.fingerprint = fingerprint(r)
      /\ new.code_fingerprint = IF live(u, o) THEN r.code ELSE NoCode
      /\ new.response = resultOf(u, o)
      /\ new.retain_until = clock + ReceiptRetention
  BY SaveForm
<1>2. new # NoReceipt
  BY <1>1, AbsenceAssumption
<1>3. e.request = r /\ e.result = resultOf(u, o) /\ e \in [request : Request, result : Result]
  BY <1>1
<1>4. \A p \in OperationId : /\ used(u, p) <=> used(v, p)
                             /\ live(u, p) <=> live(v, p)
                             /\ ended(u, p) <=> ended(v, p)
  BY <1>1 DEF used, live, ended
<1>5. identity(r) \in Identity
  BY Targets
<1>6. \A i \in Identity : u.receipts[i] # NoReceipt => u.receipts[i].operation \in OperationId
  BY TablesOf DEF Receipt
<1>7. Remembered(u, done, clock)
  BY KeepsPreserves, RememberedAlong
<1>8. u.receipts[identity(r)] = NoReceipt
  BY <1>5 DEF Keeps
<1> HIDE DEF v, e
<1>9. Linked(v)
  <2>1. /\ \E n \in Nat : \A p \in OperationId : used(v, p) <=> p <= n
        /\ \E n \in Nat : \A a \in AttemptId : v.attempts[a].state # "unused" <=> a <= n
    BY <1>1, <1>4 DEF Linked
  <2>2. \A p \in OperationId : ~live(v, p) => v.operations[p].code = NoCode
    BY <1>1, <1>4 DEF Linked
  <2>3. ASSUME NEW a \in AttemptId
        PROVE  /\ v.attempts[a].state = "unused" <=> v.attempts[a].operation = None
               /\ v.attempts[a].operation # None => used(v, v.attempts[a].operation)
               /\ v.attempts[a].state = "pending" => live(v, v.attempts[a].operation)
    <3>1. u.attempts[a].operation \in OperationId \cup {None}
      BY TablesOf DEF Attempt
    <3>2. /\ u.attempts[a].state = "unused" <=> u.attempts[a].operation = None
          /\ u.attempts[a].operation # None => used(u, u.attempts[a].operation)
          /\ u.attempts[a].state = "pending" => live(u, u.attempts[a].operation)
      BY DEF Linked
    <3>3. u.attempts[a].state = "pending" => u.attempts[a].operation \in OperationId
      BY <3>1, <3>2
    <3>4. QED
      BY <1>1, <1>4, <3>1, <3>2, <3>3
  <2>4. ASSUME NEW i \in Identity, v.receipts[i] # NoReceipt
        PROVE  /\ used(v, v.receipts[i].operation)
               /\ v.receipts[i].code_fingerprint # NoCode => live(v, v.receipts[i].operation)
    <3>1. CASE i = identity(r)
      BY <1>1, <1>4, <3>1
    <3>2. CASE i # identity(r)
      <4>1. v.receipts[i] = u.receipts[i] /\ u.receipts[i].operation \in OperationId
        BY <1>1, <1>6, <2>4, <3>2
      <4>2. /\ used(u, u.receipts[i].operation)
            /\ u.receipts[i].code_fingerprint # NoCode => live(u, u.receipts[i].operation)
        BY <2>4, <4>1 DEF Linked
      <4>3. QED
        BY <1>4, <4>1, <4>2
    <3>3. QED
      BY <3>1, <3>2
  <2>5. QED
    BY <2>1, <2>2, <2>3, <2>4 DEF Linked
<1>10. stands(v, new, e)
  BY <1>1, <1>3, <1>4 DEF stands
<1>11. ASSUME NEW i \in Identity, i # identity(r), u.receipts[i] # NoReceipt, NEW f,
              stands(u, u.receipts[i], f)
       PROVE  v.receipts[i] # NoReceipt /\ stands(v, v.receipts[i], f)
  BY <1>1, <1>4, <1>6, <1>11 DEF stands
<1>12. ASSUME NEW f \in done \cup {e}
       PROVE  \/ /\ v.receipts[identity(f.request)] # NoReceipt
                 /\ stands(v, v.receipts[identity(f.request)], f)
              \/ over(v, f, clock)
  <2>1. CASE f = e
    BY <1>2, <1>3, <1>10, <2>1
  <2>2. CASE f \in done
    <3>1. /\ f.request \in Request /\ identity(f.request) \in Identity
          /\ f.request.target # None => f.request.target \in OperationId
      BY <2>2, Targets
    <3>2. CASE over(u, f, clock)
      BY <1>4, <3>1, <3>2 DEF over
    <3>3. CASE /\ u.receipts[identity(f.request)] # NoReceipt
               /\ stands(u, u.receipts[identity(f.request)], f)
      BY <1>8, <1>11, <3>1, <3>3
    <3>4. QED
      BY <1>7, <2>2, <3>2, <3>3 DEF Remembered
  <2>3. QED
    BY <2>1, <2>2
<1>13. ASSUME NEW q \in Request, v.receipts[identity(q)] # NoReceipt
       PROVE  LET receipt == v.receipts[identity(q)]
              IN  /\ \E f \in done \cup {e} :
                       identity(f.request) = identity(q) /\ stands(v, receipt, f)
                  /\ q.target # None => receipt.operation = q.target
                  /\ q.target = None => receipt.fingerprint[2] <= receipt.retain_until
  <2>1. identity(q) \in Identity
    BY Targets
  <2>2. CASE identity(q) = identity(r)
    <3>1. q.target = r.target
      BY <2>2 DEF identity
    <3>2. r.target = None => new.fingerprint[2] <= new.retain_until
      <4>1. r.expiresAt \in Nat /\ fingerprint(r)[2] = r.expiresAt
        BY Targets
      <4>2. QED
        BY <1>1, <4>1, DurationAssumption
    <3>3. QED
      BY <1>1, <1>3, <1>10, <2>2, <3>1, <3>2
  <2>3. CASE identity(q) # identity(r)
    <3>1. v.receipts[identity(q)] = u.receipts[identity(q)]
      BY <1>1, <2>1, <2>3
    <3>2. /\ \E f \in done : identity(f.request) = identity(q)
                             /\ stands(u, u.receipts[identity(q)], f)
          /\ q.target # None => u.receipts[identity(q)].operation = q.target
          /\ q.target = None =>
               u.receipts[identity(q)].fingerprint[2] <= u.receipts[identity(q)].retain_until
      BY <1>7, <1>13, <3>1 DEF Remembered
    <3>3. QED
      BY <1>11, <1>13, <2>1, <2>3, <3>1, <3>2
  <2>4. QED
    BY <2>2, <2>3
<1>14. Remembered(v, done \cup {e}, clock)
  BY <1>12, <1>13 DEF Remembered
<1>15. QED
  BY <1>1, <1>3, <1>9, <1>14 DEF v, e

\* Nothing executed before counts as the same request.
LEMMA ExecutedAnew ==
  ASSUME NEW s, NEW done, Remembered(s, done, clock), clock \in Nat,
         done \subseteq [request : Request, result : Result],
         NEW r \in Request, s.receipts[identity(r)] = NoReceipt, r.name # "close",
         IF r.target = None THEN r.expiresAt > clock ELSE live(s, r.target)
  PROVE  \A e \in done : ~(/\ identity(e.request) = identity(r)
                           /\ fingerprint(e.request) = fingerprint(r))
<1> SUFFICES ASSUME NEW e \in done, identity(e.request) = identity(r),
                    fingerprint(e.request) = fingerprint(r)
             PROVE  FALSE
  OBVIOUS
<1>1. over(s, e, clock)
  BY DEF Remembered
<1>2. e.request.target = r.target /\ e.request.expiresAt = r.expiresAt
  BY DEF identity, fingerprint
<1>3. r.expiresAt \in Nat
  BY Targets
<1>4. QED
  BY <1>1, <1>2, <1>3 DEF over, ended, live

-----------------------------------------------------------------------------
(***************************************************************************)
(* Sessions.                                                               *)
(***************************************************************************)
LEMMA TypeFacts ==
  ASSUME TypeOK
  PROVE  /\ clock \in Nat /\ db \in Tables
         /\ \A w \in Session :
              /\ session[w].request \in Request \cup {NoRequest}
              /\ session[w].attempt \in AttemptId \cup {None}
              /\ session[w].blocked \in BOOLEAN
BY BoundAssumption DEF TypeOK

LEMMA LocksOf ==
  ASSUME db \in Tables, NEW r \in Request
  PROVE  /\ requestLock(r) \subseteq requestLocks(r)
         /\ requestLocks(r) \subseteq Lock
<1>1. /\ identity(r) \in Identity
      /\ r.recipient \in Recipient
      /\ r.target # None => r.target \in OperationId
  BY Targets, Fields
<1>2. recipientOf(r) \in Recipient
  BY <1>1, TablesOf DEF recipientOf, Operation
<1>3. admissionLimits(recipientOf(r)) \subseteq Limits
  BY <1>2, LimitsOf
<1>4. lockQuotas(lockedLimits(r)) \subseteq {"quota"} \X Scope
  BY <1>3 DEF lockQuotas, lockedLimits, Limits
<1>5. requestLock(r) \subseteq {"request"} \X Identity
  BY <1>1 DEF requestLock
<1>6. (IF r.target = None THEN {} ELSE operationLock(r.target)) \subseteq {"operation"} \X OperationId
  BY <1>1 DEF operationLock
<1>7. QED
  BY <1>4, <1>5, <1>6 DEF requestLocks, Lock

\* A session enters with locks nobody else holds.
LEMMA EntersKeepsInv ==
  ASSUME AdmissionInv, requests' = requests,
         NEW w \in Session, NEW pc \in {"prepared", "decide"}, NEW r \in Request \cup {NoRequest},
         NEW a \in AttemptId \cup {None}, NEW limits, NEW locks \in SUBSET Lock,
         enters(w, pc, r, a, limits, locks),
         pc = "prepared" => r # NoRequest /\ r.target = None,
         pc = "decide" =>
           IF r = NoRequest THEN a \in AttemptId /\ db.attempts[a].operation # None
           ELSE /\ requestLock(r) \subseteq locks
                /\ unknown(r)
                /\ r.target # None => used(db, r.target)
  PROVE  AdmissionInv'
<1> DEFINE row == [pc |-> pc, request |-> r, attempt |-> a, held |-> locks,
                   blocked |-> quotaBlocks(db, limits) # {}]
<1>1. /\ db' = db /\ clock' = clock /\ log' = log /\ executed' = executed /\ answer' = NoAnswer
      /\ session' = [session EXCEPT ![w] = row]
      /\ free(w, locks)
  BY DEF enters
<1>2. /\ row.pc = pc /\ row.request = r /\ row.attempt = a /\ row.held = locks
      /\ row \in [pc : {"idle", "prepared", "decide"}, request : Request \cup {NoRequest},
                  attempt : AttemptId \cup {None}, blocked : BOOLEAN, held : SUBSET Lock]
  OBVIOUS
<1> HIDE DEF row
<1>3. TypeOK'
  BY <1>1, <1>2 DEF AdmissionInv, TypeOK
<1>4. /\ session'[w] = row /\ \A v \in Session : v # w => session'[v] = session[v]
  BY <1>1, <1>2 DEF AdmissionInv, TypeOK
<1>5. Sessions'
  <2>1. \A u, v \in Session : u # v => session'[u].held \cap session'[v].held = {}
    BY <1>1, <1>2, <1>4 DEF AdmissionInv, Sessions, free
  <2>2. ASSUME NEW v \in Session
        PROVE  /\ session'[v].pc = "decide" =>
                    IF session'[v].request = NoRequest
                    THEN session'[v].attempt \in AttemptId
                         /\ db.attempts[session'[v].attempt].operation # None
                    ELSE /\ requestLock(session'[v].request) \subseteq session'[v].held
                         /\ unknown(session'[v].request)
                         /\ session'[v].request.target # None =>
                              used(db, session'[v].request.target)
               /\ session'[v].pc = "prepared" =>
                    session'[v].request # NoRequest /\ session'[v].request.target = None
    <3>1. CASE v = w
      BY <1>2, <1>4, <3>1
    <3>2. CASE v # w
      BY <1>4, <3>2 DEF AdmissionInv, Sessions
    <3>3. QED
      BY <3>1, <3>2
  <2>3. QED
    BY <1>1, <2>1, <2>2 DEF Sessions, unknown
<1>6. AnswersAreFaithful'
  BY <1>1 DEF AnswersAreFaithful
<1>7. QED
  BY <1>1, <1>3, <1>5, <1>6
     DEF AdmissionInv, ExecutedOK, ExecutedOnce

\* The rows a step may change leave the others' sessions as they are.
LEMMA SessionsAlong ==
  ASSUME TypeOK, Sessions, db' \in Tables,
         \A o \in OperationId : used(db, o) => used(db', o),
         \A a \in AttemptId :
           db.attempts[a].operation # None => db'.attempts[a].operation = db.attempts[a].operation,
         \A v \in Session :
           (session'[v].pc = "decide" /\ session[v].pc = "decide"
              /\ session[v].request \in Request) =>
             db'.receipts[identity(session[v].request)] = NoReceipt,
         \/ session' = session
         \/ \E w \in Session : leave(w)
  PROVE  /\ Sessions'
         /\ session' \in [Session -> [pc : {"idle", "prepared", "decide"},
                                      request : Request \cup {NoRequest},
                                      attempt : AttemptId \cup {None}, blocked : BOOLEAN,
                                      held : SUBSET Lock]]
<1>1. Idle \in [pc : {"idle", "prepared", "decide"}, request : Request \cup {NoRequest},
                attempt : AttemptId \cup {None}, blocked : BOOLEAN, held : SUBSET Lock]
      /\ Idle.pc = "idle" /\ Idle.held = {}
  BY DEF Idle
<1>2. session' \in [Session -> [pc : {"idle", "prepared", "decide"},
                                request : Request \cup {NoRequest},
                                attempt : AttemptId \cup {None}, blocked : BOOLEAN,
                                held : SUBSET Lock]]
  BY <1>1 DEF TypeOK, leave
<1>3. \A v \in Session : session'[v] = session[v] \/ session'[v] = Idle
  BY DEF TypeOK, leave
<1>4. \A u, v \in Session : u # v => session'[u].held \cap session'[v].held = {}
  BY <1>1, <1>3 DEF Sessions
<1>5. ASSUME NEW v \in Session, session'[v].pc = "decide", session'[v].request = NoRequest
      PROVE  session'[v].attempt \in AttemptId
             /\ db'.attempts[session'[v].attempt].operation # None
  <2>1. session'[v] = session[v]
    BY <1>1, <1>3, <1>5
  <2>2. session[v].attempt \in AttemptId /\ db.attempts[session[v].attempt].operation # None
    BY <1>5, <2>1 DEF Sessions
  <2>3. QED
    BY <2>1, <2>2
<1>6. ASSUME NEW v \in Session, session'[v].pc = "decide", session'[v].request # NoRequest
      PROVE  /\ requestLock(session'[v].request) \subseteq session'[v].held
             /\ db'.receipts[identity(session'[v].request)] = NoReceipt
             /\ session'[v].request.target # None => used(db', session'[v].request.target)
  <2>1. session'[v] = session[v]
    BY <1>1, <1>3, <1>6
  <2>2. /\ requestLock(session[v].request) \subseteq session[v].held
        /\ db.receipts[identity(session[v].request)] = NoReceipt
        /\ session[v].request.target # None => used(db, session[v].request.target)
    BY <1>6, <2>1 DEF Sessions, unknown
  <2>3. session[v].request \in Request
    BY <1>6, <2>1, TypeFacts
  <2>4. /\ identity(session[v].request) \in Identity
        /\ session[v].request.target # None => session[v].request.target \in OperationId
    BY <2>3, Targets
  <2>5. QED
    BY <1>6, <2>1, <2>2, <2>3, <2>4
<1>7. \A v \in Session : session'[v].pc = "prepared" =>
        session'[v].request # NoRequest /\ session'[v].request.target = None
  BY <1>1, <1>3 DEF Sessions
<1>8. Sessions'
  BY <1>4, <1>5, <1>6, <1>7 DEF Sessions, unknown
<1>9. QED
  BY <1>2, <1>8

\* A step that executes nothing.
LEMMA RowsMove ==
  ASSUME AdmissionInv, requests' = requests, clock' = clock, executed' = executed,
         db' \in Tables, Linked(db'), Preserves(db, db', clock), Timely(db', log'),
         AnswersAreFaithful',
         \/ session' = session
         \/ \E w \in Session : leave(w)
  PROVE  AdmissionInv'
<1>1. clock \in Nat /\ db \in Tables
  BY TypeFacts DEF AdmissionInv
<1>2. Sessions' /\ TypeOK'
  <2>1. \A v \in Session :
          (session[v].pc = "decide" /\ session[v].request \in Request) =>
            db'.receipts[identity(session[v].request)] = NoReceipt
    <3>1. ASSUME NEW v \in Session, session[v].pc = "decide", session[v].request \in Request
          PROVE  db'.receipts[identity(session[v].request)] = NoReceipt
      <4>1. session[v].request # NoRequest /\ identity(session[v].request) \in Identity
        BY <3>1, AbsenceAssumption, Targets
      <4>2. db.receipts[identity(session[v].request)] = NoReceipt
        BY <3>1, <4>1 DEF AdmissionInv, Sessions, unknown
      <4>3. QED
        BY <4>1, <4>2 DEF Preserves
    <3>2. QED
      BY <3>1
  <2>2. /\ \A o \in OperationId : used(db, o) => used(db', o)
        /\ \A a \in AttemptId :
             db.attempts[a].operation # None =>
               db'.attempts[a].operation = db.attempts[a].operation
    BY DEF Preserves
  <2>3. Sessions' /\ session' \in [Session -> [pc : {"idle", "prepared", "decide"},
                                      request : Request \cup {NoRequest},
                                      attempt : AttemptId \cup {None}, blocked : BOOLEAN,
                                      held : SUBSET Lock]]
    BY <2>1, <2>2, SessionsAlong DEF AdmissionInv
  <2>4. QED
    BY <2>3 DEF AdmissionInv, TypeOK
<1>3. Remembered(db', executed, clock)
  BY <1>1, RememberedAlong DEF AdmissionInv, ExecutedOK
<1>4. QED
  BY <1>2, <1>3 DEF AdmissionInv, ExecutedOK, ExecutedOnce

\* A step that executes a request.
LEMMA ExecuteKeepsInv ==
  ASSUME AdmissionInv, requests' = requests, clock' = clock,
         NEW w \in Session, session[w].pc = "decide", session[w].request \in Request,
         NEW u \in Tables, Linked(u), Keeps(db, u), NEW o \in OperationId, used(u, o),
         session[w].request.target # None => o = session[w].request.target,
         session[w].request.target = None => session[w].request.expiresAt - clock <= maxLifetime,
         session[w].request.name # "close" =>
           IF session[w].request.target = None THEN session[w].request.expiresAt > clock
           ELSE live(db, session[w].request.target),
         execute(w, u, o), Timely(u, log')
  PROVE  AdmissionInv'
<1> DEFINE r == session[w].request
<1> DEFINE e == [request |-> r, result |-> resultOf(u, o)]
<1>1. /\ db' = save(u, r, o)
      /\ executed' = executed \cup {e}
      /\ answer' = [request |-> r, result |-> resultOf(u, o), live |-> live(u, o)]
      /\ leave(w)
  BY DEF execute
<1>2. /\ clock \in Nat /\ db \in Tables /\ TypeOK /\ Sessions /\ Remembered(db, executed, clock)
      /\ executed \subseteq [request : Request, result : Result]
  BY TypeFacts DEF AdmissionInv, ExecutedOK
<1>3. e.request = r /\ e.result = resultOf(u, o)
  OBVIOUS
<1>4. r \in Request /\ r # NoRequest /\ identity(r) \in Identity
  BY AbsenceAssumption, Targets
<1>5. db.receipts[identity(r)] = NoReceipt /\ requestLock(r) \subseteq session[w].held
  BY <1>2, <1>4 DEF Sessions, unknown
<1>6. /\ db' \in Tables /\ Linked(db')
      /\ e \in [request : Request, result : Result]
      /\ Remembered(db', executed \cup {e}, clock)
  BY <1>1, <1>2, <1>4, <1>5, ExecutedIsRemembered
<1>7. /\ db'.operations = u.operations /\ db'.attempts = u.attempts
      /\ \A i \in Identity : i # identity(r) => db'.receipts[i] = u.receipts[i]
  BY <1>1, <1>2, <1>4, SaveForm
<1>8. r.name # "close" =>
        \A f \in executed : ~(/\ identity(f.request) = identity(r)
                              /\ fingerprint(f.request) = fingerprint(r))
  BY <1>2, <1>4, <1>5, ExecutedAnew
<1> HIDE DEF e
<1>9. Sessions' /\ session' \in [Session -> [pc : {"idle", "prepared", "decide"},
                                    request : Request \cup {NoRequest},
                                    attempt : AttemptId \cup {None}, blocked : BOOLEAN,
                                    held : SUBSET Lock]]
  <2>1. ASSUME NEW v \in Session, session'[v].pc = "decide", session[v].pc = "decide",
               session[v].request \in Request
        PROVE  db'.receipts[identity(session[v].request)] = NoReceipt
    <3>1. v # w
      BY <1>1, <1>2, <2>1 DEF leave, Idle, TypeOK
    <3>2. session[v].request # NoRequest /\ identity(session[v].request) \in Identity
      BY <2>1, AbsenceAssumption, Targets
    <3>3. /\ requestLock(session[v].request) \subseteq session[v].held
          /\ db.receipts[identity(session[v].request)] = NoReceipt
          /\ session[v].held \cap session[w].held = {}
      BY <1>2, <2>1, <3>1, <3>2 DEF Sessions, unknown
    <3>4. identity(session[v].request) # identity(r)
      BY <1>5, <3>3 DEF requestLock
    <3>5. u.receipts[identity(session[v].request)] = NoReceipt
      BY <3>2, <3>3 DEF Keeps
    <3>6. QED
      BY <1>7, <3>2, <3>4, <3>5
  <2>2. /\ \A p \in OperationId : used(db, p) => used(db', p)
        /\ \A a \in AttemptId :
             db.attempts[a].operation # None =>
               db'.attempts[a].operation = db.attempts[a].operation
    BY <1>7 DEF Keeps, used
  <2>3. QED
    BY <1>1, <1>2, <1>6, <2>1, <2>2, SessionsAlong
<1>10. Timely(db', log')
  BY <1>7 DEF Timely, used
<1>11. ExecutedOnce'
  <2>1. ASSUME NEW f \in executed', NEW g \in executed', identity(f.request) = identity(g.request),
               f.request.name # "close", fingerprint(f.request) = fingerprint(g.request)
        PROVE  f = g
    <3>1. f.request.name = g.request.name
      BY <2>1 DEF identity
    <3>2. CASE f \in executed /\ g \in executed
      BY <2>1, <3>2 DEF AdmissionInv, ExecutedOnce
    <3>3. CASE f = e /\ g = e
      BY <3>3
    <3>4. CASE f = e /\ g \in executed
      BY <1>3, <1>8, <2>1, <3>1, <3>4
    <3>5. CASE f \in executed /\ g = e
      BY <1>3, <1>8, <2>1, <3>1, <3>5
    <3>6. QED
      BY <1>1, <2>1, <3>2, <3>3, <3>4, <3>5
  <2>2. QED
    BY <2>1 DEF ExecutedOnce
<1>12. AnswersAreFaithful'
  <2>1. answer'.request = r /\ answer'.result = resultOf(u, o)
    BY <1>1
  <2>2. e \in executed'
    BY <1>1
  <2>3. QED
    BY <1>3, <2>1, <2>2 DEF AnswersAreFaithful
<1>13. TypeOK' /\ ExecutedOK'
  BY <1>1, <1>2, <1>6, <1>9 DEF TypeOK, ExecutedOK
<1>14. Remembered(db', executed', clock')
  BY <1>1, <1>6
<1>15. QED
  BY <1>6, <1>9, <1>10, <1>11, <1>12, <1>13, <1>14 DEF AdmissionInv

-----------------------------------------------------------------------------
(***************************************************************************)
(* The steps.                                                              *)
(***************************************************************************)
LEMMA ReplayStep ==
  ASSUME AdmissionInv, requests' = requests, NEW w \in Session, NEW r \in Request, Replay(w, r)
  PROVE  AdmissionInv'
<1> DEFINE s == replayed(db, r)
<1> DEFINE o == db.receipts[identity(r)].operation
<1>1. /\ clock \in Nat /\ db \in Tables /\ Linked(db) /\ Remembered(db, executed, clock)
      /\ Timely(db, log)
  BY TypeFacts DEF AdmissionInv
<1>2. identity(r) \in Identity /\ db.receipts[identity(r)] # NoReceipt
  BY Targets DEF Replay, unknown
<1>3. o \in OperationId
  BY <1>1, <1>2, TablesOf DEF Receipt
<1>4. s = expire(db, o)
  BY <1>2 DEF replayed
<1>5. s \in Tables /\ Linked(s) /\ Keeps(db, s)
  BY <1>1, <1>3, <1>4, ExpireKeeps
<1>6. /\ clock' = clock /\ log' = log /\ executed' = executed /\ leave(w)
      /\ db' = s \/ db' = db
      /\ \/ answer' = NoAnswer
         \/ /\ agrees(s.receipts[identity(r)], r)
            /\ answer' = [request |-> r, result |-> s.receipts[identity(r)].response,
                          live |-> live(s, s.receipts[identity(r)].operation)]
  BY DEF Replay
<1> HIDE DEF s, o
<1>7. db' \in Tables /\ Linked(db') /\ Preserves(db, db', clock)
  BY <1>1, <1>5, <1>6, KeepsItself, KeepsPreserves
<1>8. AnswersAreFaithful'
  <2>1. CASE answer' = NoAnswer
    BY <2>1 DEF AnswersAreFaithful
  <2>2. CASE /\ agrees(s.receipts[identity(r)], r)
             /\ answer' = [request |-> r, result |-> s.receipts[identity(r)].response,
                           live |-> live(s, s.receipts[identity(r)].operation)]
    <3>1. Remembered(s, executed, clock)
      BY <1>1, <1>5, KeepsPreserves, RememberedAlong DEF AdmissionInv, ExecutedOK
    <3>2. s.receipts[identity(r)] # NoReceipt
      BY <1>2, <1>5 DEF Keeps
    <3>3. PICK e \in executed : /\ identity(e.request) = identity(r)
                                /\ stands(s, s.receipts[identity(r)], e)
      BY <3>1, <3>2 DEF Remembered
    <3>4. fingerprint(e.request) = fingerprint(r) /\ e.result = s.receipts[identity(r)].response
      BY <2>2, <3>3 DEF stands, agrees
    <3>5. ASSUME live(s, s.receipts[identity(r)].operation) PROVE e.request.code = r.code
      <4>1. e.request.code \in {NoCode, r.code}
        BY <2>2, <3>3, <3>5 DEF stands, agrees
      <4>2. e.request.name = r.name /\ e.request \in Request
        BY <3>3 DEF identity, AdmissionInv, ExecutedOK
      <4>3. (e.request.code # NoCode) <=> (r.code # NoCode)
        BY <4>2, RequestAssumption
      <4>4. QED
        BY <4>1, <4>3
    <3>6. /\ answer'.request = r /\ answer'.result = s.receipts[identity(r)].response
          /\ answer'.live = live(s, s.receipts[identity(r)].operation)
      BY <2>2
    <3>7. QED
      BY <1>6, <3>3, <3>4, <3>5, <3>6 DEF AnswersAreFaithful
  <2>3. QED
    BY <1>6, <2>1, <2>2
<1>9. Timely(db', log')
  BY <1>1, <1>6, <1>7, TimelyAlong
<1>10. QED
  BY <1>6, <1>7, <1>8, <1>9, RowsMove

LEMMA LookupStep ==
  ASSUME AdmissionInv, requests' = requests, NEW w \in Session, NEW r \in Request, Lookup(w, r)
  PROVE  AdmissionInv'
<1>1. CASE Replay(w, r)
  BY <1>1, ReplayStep
<1>2. CASE enters(w, "prepared", r, None, {}, {})
  <2>1. r # NoRequest /\ r.target = None /\ {} \in SUBSET Lock
    BY AbsenceAssumption DEF Lookup
  <2>2. QED
    BY <1>2, <2>1, EntersKeepsInv
<1>3. QED
  BY <1>1, <1>2 DEF Lookup

LEMMA EnterStep ==
  ASSUME AdmissionInv, requests' = requests, NEW w \in Session, NEW r \in Request,
         unknown(r), r.target # None => used(db, r.target),
         enters(w, "decide", r, None, checkedLimits(r), requestLocks(r))
  PROVE  AdmissionInv'
<1>1. requestLock(r) \subseteq requestLocks(r) /\ requestLocks(r) \in SUBSET Lock
  BY TypeFacts, LocksOf DEF AdmissionInv
<1>2. r # NoRequest
  BY AbsenceAssumption
<1>3. QED
  BY <1>1, <1>2, EntersKeepsInv

LEMMA EnterGateStep ==
  ASSUME AdmissionInv, requests' = requests, NEW w \in Session, NEW a \in AttemptId,
         EnterGate(w, a)
  PROVE  AdmissionInv'
<1> DEFINE o == db.attempts[a].operation
<1> DEFINE limits == sendLimits(db.operations[o].recipient)
<1> DEFINE locks == operationLock(o) \cup lockQuotas(limits)
<1>1. db \in Tables /\ Linked(db)
  BY TypeFacts DEF AdmissionInv
<1>2. db.attempts[a].operation # None /\ o \in OperationId
  <2>1. db.attempts[a].state = "pending"
    BY DEF EnterGate
  <2>2. db.attempts[a].operation \in OperationId \cup {None}
    BY <1>1, TablesOf DEF Attempt
  <2>3. QED
    BY <1>1, <2>1, <2>2 DEF Linked
<1>3. db.operations[o].recipient \in Recipient
  BY <1>1, <1>2, TablesOf DEF Operation
<1>4. limits \subseteq Limits
  BY <1>3, LimitsOf
<1>5. enters(w, "decide", NoRequest, a, limits, locks)
  BY DEF EnterGate
<1> HIDE DEF limits
<1>6. lockQuotas(limits) \subseteq {"quota"} \X Scope
  BY <1>4 DEF lockQuotas, Limits
<1>7. operationLock(o) \subseteq {"operation"} \X OperationId
  BY <1>2 DEF operationLock
<1>8. locks \in SUBSET Lock
  BY <1>6, <1>7 DEF Lock
<1> HIDE DEF locks
<1>9. QED
  BY <1>2, <1>5, <1>8, EntersKeepsInv

\* A refusal or a rejection leaves rows that are kept, and executes nothing.
leavesRows(w, s) ==
  /\ db' = s /\ leave(w) /\ answer' = NoAnswer
  /\ log' = log /\ executed' = executed

LEMMA RefuseLeaves ==
  ASSUME NEW w, NEW s, refuse(w, s)
  PROVE  leavesRows(w, s) /\ rejected' = rejected
BY DEF refuse, leavesRows

LEMMA RefuseStep ==
  ASSUME AdmissionInv, requests' = requests, clock' = clock, NEW w \in Session,
         NEW s \in Tables, Linked(s), Keeps(db, s), refuse(w, s) \/ leavesRows(w, s)
  PROVE  AdmissionInv'
<1>1. /\ db' = s /\ answer' = NoAnswer /\ log' = log /\ executed' = executed /\ leave(w)
  BY RefuseLeaves DEF leavesRows
<1>2. Preserves(db, db', clock)
  BY <1>1, KeepsPreserves
<1>3. AnswersAreFaithful' /\ Timely(db', log')
  BY <1>1, <1>2, TimelyAlong DEF AnswersAreFaithful, AdmissionInv
<1>4. QED
  BY <1>1, <1>2, <1>3, RowsMove

\* Who decides is a request whose target is in use.
LEMMA Decides ==
  ASSUME AdmissionInv, NEW w \in Session, NEW names, decides(w, names)
  PROVE  /\ session[w].pc = "decide" /\ session[w].request \in Request
         /\ session[w].request.name \in names
         /\ session[w].request.target # None =>
              /\ session[w].request.target \in OperationId
              /\ used(db, session[w].request.target)
         /\ session[w].request.target = None <=>
              session[w].request.name \in {"prepare", "create"}
         /\ clock \in Nat /\ db \in Tables /\ Linked(db)
<1>1. session[w].request \in Request /\ clock \in Nat /\ db \in Tables
  BY TypeFacts DEF AdmissionInv, decides
<1>2. QED
  BY <1>1, Targets, RequestAssumption DEF AdmissionInv, Sessions, decides

LEMMA LoggedIsTimely ==
  ASSUME NEW t, Timely(t, log), NEW o \in OperationId, used(t, o),
         clock < t.operations[o].expires_at, NEW what, NEW who, NEW id, logged(what, who, o, id)
  PROVE  Timely(t, log')
<1> DEFINE new == [what |-> what, who |-> who, operation |-> o, id |-> id, at |-> clock]
<1>1. new.operation = o /\ new.at = clock
  OBVIOUS
<1>2. log' = log \cup {new}
  BY DEF logged
<1> HIDE DEF new
<1>3. QED
  BY <1>1, <1>2 DEF Timely

LEMMA AdmitStep ==
  ASSUME AdmissionInv, requests' = requests, NEW w \in Session, Admit(w)
  PROVE  AdmissionInv'
<1> DEFINE r == session[w].request
<1> DEFINE o == nextOperation(db)
<1> DEFINE s == admitOperation(db, r)
<1> DEFINE u == IF r.name = "create" THEN attachCode(s, o, r.code) ELSE s
<1>1. /\ session[w].pc = "decide" /\ r \in Request /\ r.target = None
      /\ r.name \in {"prepare", "create"}
      /\ clock \in Nat /\ db \in Tables /\ Linked(db)
  BY Decides DEF Admit
<1>2. clock' = clock
  BY DEF Admit
<1>3. CASE refuse(w, db)
  BY <1>1, <1>2, <1>3, KeepsItself, RefuseStep
<1>4. CASE /\ r.expiresAt > clock /\ r.expiresAt - clock <= maxLifetime
           /\ o \in OperationId
           /\ r.name = "create" => nextAttempt(db) \in AttemptId
           /\ execute(w, u, o)
           /\ logged("create", r.recipient, o, <<"operation", o>>)
  <2>1. /\ s \in Tables /\ Linked(s) /\ Keeps(db, s) /\ live(s, o)
        /\ s.operations[o].expires_at = r.expiresAt
        /\ s.operations[o].code = NoCode
        /\ s.attempts = db.attempts
    BY <1>1, <1>4, AdmitKeeps
  <2> HIDE DEF s, o
  <2>2. u \in Tables /\ Linked(u) /\ Keeps(s, u) /\ live(u, o)
    <3>1. CASE r.name = "create"
      <4>1. nextAttempt(s) \in AttemptId
        BY <1>4, <2>1, <3>1 DEF nextAttempt
      <4>2. r.code \in Code
        <5>1. r.code # NoCode /\ r.code \in Code \cup {NoCode}
          BY <1>1, <3>1, RequestAssumption DEF RequestType
        <5>2. QED
          BY <5>1
      <4>3. o \in OperationId
        BY <1>4
      <4>4. LET v == attachCode(s, o, r.code)
            IN  v \in Tables /\ Linked(v) /\ Keeps(s, v) /\ live(v, o)
        BY <1>1, <2>1, <4>1, <4>2, <4>3, AttachKeeps
      <4>5. QED
        BY <3>1, <4>4
    <3>2. CASE r.name # "create"
      BY <2>1, <3>2, KeepsItself
    <3>3. QED
      BY <3>1, <3>2
  <2> HIDE DEF u
  <2>3. Keeps(db, u)
    BY <1>1, <2>1, <2>2, KeepsAlong
  <2>4. used(u, o) /\ u.operations[o].expires_at = r.expiresAt
    BY <1>4, <2>1, <2>2 DEF Keeps, live, used
  <2>5. Timely(u, log')
    <3>1. Timely(u, log)
      BY <2>3, KeepsPreserves, TimelyAlong DEF AdmissionInv
    <3>2. clock < u.operations[o].expires_at
      <4>1. r.expiresAt \in Nat
        BY <1>1, Targets
      <4>2. QED
        BY <1>1, <1>4, <2>4, <4>1
    <3>3. QED
      BY <1>4, <2>4, <3>1, <3>2, LoggedIsTimely
  <2>6. QED
    BY <1>1, <1>2, <1>4, <2>2, <2>3, <2>4, <2>5, ExecuteKeepsInv
<1>5. CASE ~(r.expiresAt <= clock \/ r.expiresAt - clock > maxLifetime \/ session[w].blocked)
  <2>1. r.expiresAt \in Nat /\ maxLifetime \in Nat
    BY <1>1, Targets, DurationAssumption
  <2>2. r.expiresAt > clock /\ r.expiresAt - clock <= maxLifetime
    BY <1>1, <1>5, <2>1
  <2>3. QED
    BY <1>4, <1>5, <2>2 DEF Admit
<1>6. QED
  BY <1>3, <1>5 DEF Admit

LEMMA SubmitStep ==
  ASSUME AdmissionInv, requests' = requests, NEW w \in Session, Submit(w)
  PROVE  AdmissionInv'
<1> DEFINE r == session[w].request
<1> DEFINE o == r.target
<1> DEFINE s == expire(db, o)
<1> DEFINE u == attachCode(s, o, r.code)
<1>1. /\ session[w].pc = "decide" /\ r \in Request /\ r.name = "submit"
      /\ o # None /\ o \in OperationId /\ used(db, o)
      /\ clock \in Nat /\ db \in Tables /\ Linked(db)
  BY Decides DEF Submit
<1>2. clock' = clock
  BY DEF Submit
<1>3. /\ s \in Tables /\ Linked(s) /\ Keeps(db, s)
      /\ live(s, o) => s = db /\ clock < db.operations[o].expires_at
  BY <1>1, ExpireKeeps
<1>4. CASE refuse(w, s)
  BY <1>2, <1>3, <1>4, RefuseStep
<1>5. CASE /\ attachable(s, o, r.code)
           /\ s.operations[o].code # r.code => nextAttempt(s) \in AttemptId
           /\ execute(w, u, o)
           /\ log' = log
  <2>1. r.code \in Code
    <3>1. r.code # NoCode /\ r.code \in Code \cup {NoCode}
      BY <1>1, RequestAssumption DEF RequestType
    <3>2. QED
      BY <3>1
  <2>2. live(s, o)
    BY <1>5 DEF attachable
  <2> HIDE DEF s
  <2>3. u \in Tables /\ Linked(u) /\ Keeps(s, u) /\ live(u, o)
    BY <1>1, <1>3, <1>5, <2>1, <2>2, AttachKeeps
  <2> HIDE DEF u
  <2>4. Keeps(db, u) /\ live(db, o)
    BY <1>1, <1>3, <2>2, <2>3, KeepsAlong
  <2>5. Timely(u, log') /\ used(u, o)
    BY <1>5, <2>3, <2>4, KeepsPreserves, TimelyAlong DEF AdmissionInv, live, used
  <2>6. QED
    BY <1>1, <1>2, <1>5, <2>3, <2>4, <2>5, ExecuteKeepsInv
<1>6. CASE attachable(s, o, r.code) /\ reject(w, s, o, r.code) /\ log' = log
  <2>1. r.code \in Code /\ live(s, o)
    BY <1>1, <1>6, Fields DEF attachable
  <2> DEFINE v == storeCode(s, o, r.code)
  <2>2. leavesRows(w, v)
    BY <1>6 DEF reject, leavesRows
  <2> HIDE DEF s
  <2>3. v \in Tables /\ Linked(v) /\ Keeps(s, v)
    BY <1>1, <1>3, <2>1, StoreForm, StoreKeeps
  <2> HIDE DEF v
  <2>4. Keeps(db, v)
    BY <1>1, <1>3, <2>3, KeepsAlong
  <2>5. QED
    BY <1>2, <2>2, <2>3, <2>4, RefuseStep
<1>7. QED
  BY <1>4, <1>5, <1>6 DEF Submit

LEMMA DeliverStep ==
  ASSUME AdmissionInv, requests' = requests, NEW w \in Session, Deliver(w)
  PROVE  AdmissionInv'
<1> DEFINE r == session[w].request
<1> DEFINE o == r.target
<1> DEFINE s == expire(db, o)
<1> DEFINE u == requestSend(s, o)
<1>1. /\ session[w].pc = "decide" /\ r \in Request /\ r.name = "deliver"
      /\ o # None /\ o \in OperationId /\ used(db, o)
      /\ clock \in Nat /\ db \in Tables /\ Linked(db)
  BY Decides DEF Deliver
<1>2. clock' = clock
  BY DEF Deliver
<1>3. /\ s \in Tables /\ Linked(s) /\ Keeps(db, s)
      /\ live(s, o) => s = db /\ clock < db.operations[o].expires_at
  BY <1>1, ExpireKeeps
<1>4. CASE refuse(w, s)
  BY <1>2, <1>3, <1>4, RefuseStep
<1>5. CASE /\ s.operations[o].state = "active"
           /\ nextAttempt(s) \in AttemptId
           /\ execute(w, u, o)
           /\ logged("deliver", s.operations[o].recipient, o, <<"attempt", nextAttempt(s)>>)
  <2>1. live(s, o)
    BY <1>5 DEF live
  <2> HIDE DEF s
  <2>2. u \in Tables /\ Linked(u) /\ Keeps(s, u) /\ live(u, o)
    BY <1>1, <1>3, <1>5, <2>1, RequestSendKeeps
  <2> HIDE DEF u
  <2>3. Keeps(db, u) /\ live(db, o)
    BY <1>1, <1>3, <2>1, <2>2, KeepsAlong
  <2>4. used(u, o) /\ u.operations[o].expires_at = db.operations[o].expires_at
    BY <1>1, <2>3 DEF Keeps
  <2>5. Timely(u, log')
    <3>1. Timely(u, log)
      BY <2>3, KeepsPreserves, TimelyAlong DEF AdmissionInv
    <3>2. QED
      BY <1>1, <1>3, <1>5, <2>1, <2>4, <3>1, LoggedIsTimely
  <2>6. QED
    BY <1>1, <1>2, <1>5, <2>2, <2>3, <2>4, <2>5, ExecuteKeepsInv
<1>6. QED
  BY <1>4, <1>5 DEF Deliver

LEMMA CloseStep ==
  ASSUME AdmissionInv, requests' = requests, NEW w \in Session, Close(w)
  PROVE  AdmissionInv'
<1> DEFINE r == session[w].request
<1> DEFINE o == r.target
<1> DEFINE s == expire(db, o)
<1> DEFINE u == IF live(s, o) THEN terminate(s, o, "closed") ELSE s
<1>1. /\ session[w].pc = "decide" /\ r \in Request /\ r.name = "close"
      /\ o # None /\ o \in OperationId /\ used(db, o)
      /\ clock \in Nat /\ db \in Tables /\ Linked(db)
  BY Decides DEF Close
<1>2. clock' = clock /\ log' = log /\ execute(w, u, o)
  BY DEF Close
<1>3. /\ s \in Tables /\ Linked(s) /\ Keeps(db, s)
  BY <1>1, ExpireKeeps
<1> HIDE DEF s
<1>4. u \in Tables /\ Linked(u) /\ Keeps(s, u)
  <2>1. "closed" \in Terminal
    BY DEF Terminal
  <2>2. QED
    BY <1>1, <1>3, <2>1, TerminateKeeps, KeepsItself
<1> HIDE DEF u
<1>5. Keeps(db, u)
  BY <1>1, <1>3, <1>4, KeepsAlong
<1>6. Timely(u, log') /\ used(u, o)
  BY <1>1, <1>2, <1>5, KeepsPreserves, TimelyAlong DEF AdmissionInv, Keeps
<1>7. QED
  BY <1>1, <1>2, <1>4, <1>5, <1>6, ExecuteKeepsInv

LEMMA GateStep ==
  ASSUME AdmissionInv, requests' = requests, NEW w \in Session, Gate(w)
  PROVE  AdmissionInv'
<1> DEFINE a == session[w].attempt
<1> DEFINE o == db.attempts[a].operation
<1> DEFINE s == expire(db, o)
<1> DEFINE who == s.operations[o].recipient
<1>1. clock \in Nat /\ db \in Tables /\ Linked(db) /\ clock' = clock
  BY TypeFacts DEF AdmissionInv, Gate
<1>2. a \in AttemptId /\ o \in OperationId
  <2>1. a \in AttemptId /\ o # None
    BY DEF AdmissionInv, Sessions, Gate
  <2>2. db.attempts[a].operation \in OperationId \cup {None}
    BY <1>1, <2>1, TablesOf DEF Attempt
  <2>3. QED
    BY <2>1, <2>2
<1>3. /\ s \in Tables /\ Linked(s) /\ Keeps(db, s)
      /\ live(s, o) => s = db /\ clock < db.operations[o].expires_at
  BY <1>1, <1>2, ExpireKeeps
<1>4. CASE refuse(w, s)
  BY <1>1, <1>3, <1>4, RefuseStep
<1>5. CASE s.attempts[a].state = "pending" /\ refuse(w, [s EXCEPT !.attempts[a].state = "suppressed"])
  <2> DEFINE u == [s EXCEPT !.attempts[a].state = "suppressed"]
  <2> HIDE DEF s, a
  <2>1. u \in Tables /\ Linked(u) /\ Keeps(s, u)
    BY <1>2, <1>3, <1>5, MoveKeeps
  <2>2. refuse(w, u)
    BY <1>5
  <2> HIDE DEF u
  <2>3. Keeps(db, u)
    BY <1>1, <1>3, <2>1, KeepsAlong
  <2>4. QED
    BY <1>1, <2>1, <2>2, <2>3, RefuseStep
<1>6. CASE /\ s.attempts[a].state = "pending"
           /\ db' = reserve(s, a, who)
           /\ logged("send", who, o, <<"attempt", a>>)
           /\ leave(w)
           /\ answer' = NoAnswer
           /\ executed' = executed
  <2>1. s.attempts[a].operation = o
    <3> HIDE DEF s, a
    <3>1. o # None
      BY <1>2 DEF None, OperationId
    <3>2. \A b \in AttemptId : db.attempts[b].operation # None =>
            s.attempts[b].operation = db.attempts[b].operation
      BY <1>3 DEF Keeps
    <3>3. QED
      BY <1>2, <3>1, <3>2
  <2>2. live(s, o) /\ who \in Recipient
    <3>1. live(s, o)
      BY <1>2, <1>3, <1>6, <2>1 DEF Linked
    <3>2. who \in Recipient
      BY <1>2, <1>3, TablesOf DEF Operation
    <3>3. QED
      BY <3>1, <3>2
  <2> HIDE DEF s
  <2>3. db' \in Tables /\ Linked(db') /\ Keeps(s, db')
    BY <1>1, <1>2, <1>3, <1>6, <2>2, ReserveKeeps
  <2>4. Keeps(db, db')
    BY <1>1, <1>3, <2>3, KeepsAlong
  <2>5. used(db, o)
    BY <1>3, <2>2 DEF used, live
  <2>6. used(db', o) /\ db'.operations[o].expires_at = db.operations[o].expires_at
    BY <1>2, <2>4, <2>5 DEF Keeps
  <2>7. Timely(db', log')
    <3>1. Timely(db', log)
      BY <2>4, KeepsPreserves, TimelyAlong DEF AdmissionInv
    <3>2. QED
      BY <1>2, <1>3, <1>6, <2>2, <2>6, <3>1, LoggedIsTimely
  <2>8. Preserves(db, db', clock) /\ AnswersAreFaithful'
    BY <1>6, <2>4, KeepsPreserves DEF AnswersAreFaithful
  <2>9. QED
    BY <1>1, <1>6, <2>3, <2>7, <2>8, RowsMove
<1>7. QED
  BY <1>4, <1>5, <1>6 DEF Gate

\* A pending attempt is all that expiry changes.
LEMMA ExpireAttempts ==
  ASSUME NEW s \in Tables, NEW o \in OperationId, NEW a \in AttemptId, clock \in Nat,
         s.attempts[a].state = "dispatching"
  PROVE  expire(s, o).attempts[a].state = "dispatching"
<1>1. s.attempts \in [AttemptId -> Attempt]
  BY TablesOf
<1>2. terminate(s, o, "expired").attempts = suppressPendingAttempts(s.attempts, o)
  <2>1. "expired" \in Terminal
    BY DEF Terminal
  <2>2. QED
    BY <2>1, TerminateForm
<1>3. suppressPendingAttempts(s.attempts, o)[a].state = "dispatching"
  BY <1>1, SuppressForm
<1>4. QED
  BY <1>2, <1>3 DEF expire

LEMMA RecordOutcomeStep ==
  ASSUME AdmissionInv, requests' = requests, NEW a \in AttemptId, RecordOutcome(a)
  PROVE  AdmissionInv'
<1> DEFINE o == db.attempts[a].operation
<1> DEFINE s == expire(db, o)
<1>1. /\ clock \in Nat /\ db \in Tables /\ Linked(db)
      /\ clock' = clock /\ session' = session /\ log' = log /\ executed' = executed
      /\ answer' = NoAnswer
      /\ db.attempts[a].state = "dispatching"
      /\ db' = [s EXCEPT !.attempts[a].state = "done"]
  BY TypeFacts DEF AdmissionInv, RecordOutcome
<1>2. o \in OperationId
  <2>1. db.attempts[a].operation \in OperationId \cup {None}
    BY <1>1, TablesOf DEF Attempt
  <2>2. QED
    BY <1>1, <2>1 DEF Linked
<1>3. s \in Tables /\ Linked(s) /\ Keeps(db, s) /\ s.attempts[a].state = "dispatching"
  BY <1>1, <1>2, ExpireKeeps, ExpireAttempts
<1> HIDE DEF s
<1>4. db' \in Tables /\ Linked(db') /\ Keeps(s, db')
  BY <1>1, <1>3, MoveKeeps
<1>5. Preserves(db, db', clock) /\ AnswersAreFaithful'
  BY <1>1, <1>3, <1>4, KeepsAlong, KeepsPreserves DEF AnswersAreFaithful
<1>6. Timely(db', log')
  BY <1>1, <1>5, TimelyAlong DEF AdmissionInv
<1>7. QED
  BY <1>1, <1>4, <1>5, <1>6, RowsMove

LEMMA AbortStep ==
  ASSUME AdmissionInv, requests' = requests, NEW w \in Session, Abort(w)
  PROVE  AdmissionInv'
<1>1. /\ db' = db /\ clock' = clock /\ log' = log /\ executed' = executed /\ answer' = NoAnswer
      /\ leave(w)
  BY DEF Abort
<1>2. db \in Tables /\ Linked(db) /\ Timely(db, log)
  BY TypeFacts DEF AdmissionInv
<1>3. Preserves(db, db', clock) /\ AnswersAreFaithful'
  BY <1>1, KeepsItself, KeepsPreserves DEF AnswersAreFaithful
<1>4. QED
  BY <1>1, <1>2, <1>3, RowsMove

LEMMA CleanupStep ==
  ASSUME AdmissionInv, requests' = requests, Cleanup
  PROVE  AdmissionInv'
<1>1. /\ db' = cleanupBatch /\ clock' = clock /\ log' = log /\ executed' = executed
      /\ answer' = NoAnswer /\ session' = session
  BY DEF Cleanup
<1>2. /\ db' \in Tables /\ Linked(db') /\ Preserves(db, db', clock)
  BY <1>1, TypeFacts, CleanupPreserves DEF AdmissionInv
<1>3. Timely(db', log') /\ AnswersAreFaithful'
  BY <1>1, <1>2, TimelyAlong DEF AnswersAreFaithful, AdmissionInv
<1>4. QED
  BY <1>1, <1>2, <1>3, RowsMove

LEMMA TickStep ==
  ASSUME AdmissionInv, requests' = requests, Tick
  PROVE  AdmissionInv'
<1>1. /\ db' = db /\ session' = session /\ log' = log /\ executed' = executed
      /\ answer' = NoAnswer /\ clock < MaxClock /\ clock' = clock + 1
  BY DEF Tick
<1>2. clock \in Nat /\ db \in Tables /\ MaxClock \in Nat
  BY TypeFacts, BoundAssumption DEF AdmissionInv
<1>3. TypeOK'
  BY <1>1, <1>2 DEF AdmissionInv, TypeOK
<1>4. Remembered(db, executed, clock')
  BY <1>1, <1>2, RememberedLater DEF AdmissionInv, ExecutedOK
<1>5. Sessions'
  BY <1>1 DEF AdmissionInv, Sessions, unknown
<1>6. QED
  BY <1>1, <1>3, <1>4, <1>5
     DEF AdmissionInv, ExecutedOK, ExecutedOnce, AnswersAreFaithful

LEMMA InitStep == Init => AdmissionInv
<1> SUFFICES ASSUME Init PROVE AdmissionInv
  OBVIOUS
<1> DEFINE someone == CHOOSE who \in Recipient : TRUE
<1> DEFINE row == [state |-> "absent", recipient |-> someone,
                   expires_at |-> 0, code |-> NoCode, next_user_send_at |-> 0, terminal_at |-> 0,
                   current_attempt_id |-> None]
<1> DEFINE spare == [operation |-> None, state |-> "unused"]
<1>1. someone \in Recipient
  BY RecipientAssumption
<1>2. /\ db = [operations |-> [o \in OperationId |-> row],
               attempts   |-> [a \in AttemptId |-> spare],
               quota      |-> {},
               receipts   |-> [i \in Identity |-> NoReceipt]]
      /\ clock = 0 /\ session = [w \in Session |-> Idle]
      /\ log = {} /\ executed = {} /\ answer = NoAnswer
      /\ requests \in Scenarios
  BY DEF Init
<1> HIDE DEF someone
<1>3. row \in Operation /\ row.state = "absent" /\ row.code = NoCode
  BY <1>1 DEF Operation
<1>4. spare \in Attempt /\ spare.operation = None /\ spare.state = "unused"
  BY DEF Attempt
<1> HIDE DEF row, spare
<1>5. /\ db \in Tables
      /\ \A o \in OperationId : db.operations[o] = row
      /\ \A a \in AttemptId : db.attempts[a] = spare
      /\ \A i \in Identity : db.receipts[i] = NoReceipt
  BY <1>2, <1>3, <1>4 DEF Tables
<1>6. requests \subseteq Request
  BY <1>2 DEF Request
<1>7. /\ Idle \in [pc : {"idle", "prepared", "decide"}, request : Request \cup {NoRequest},
                   attempt : AttemptId \cup {None}, blocked : BOOLEAN, held : SUBSET Lock]
      /\ Idle.pc = "idle" /\ Idle.held = {}
  BY DEF Idle
<1>8. TypeOK
  BY <1>2, <1>5, <1>6, <1>7, BoundAssumption DEF TypeOK
<1>9. Linked(db)
  <2>1. /\ \A o \in OperationId : used(db, o) <=> o <= 0
        /\ \A a \in AttemptId : db.attempts[a].state # "unused" <=> a <= 0
    BY <1>3, <1>4, <1>5 DEF used, OperationId, AttemptId
  <2>2. QED
    BY <1>3, <1>4, <1>5, <2>1 DEF Linked
<1>10. Remembered(db, executed, clock) /\ Timely(db, log)
  BY <1>2, <1>5, IdentityOf DEF Remembered, Timely
<1>11. Sessions
  BY <1>2, <1>7 DEF Sessions
<1>12. QED
  BY <1>2, <1>8, <1>9, <1>10, <1>11
     DEF AdmissionInv, ExecutedOK, ExecutedOnce, AnswersAreFaithful

LEMMA NextStep ==
  ASSUME AdmissionInv, [Next]_vars
  PROVE  AdmissionInv'
<1>1. CASE UNCHANGED vars
  BY <1>1 DEF vars, AdmissionInv, TypeOK, ExecutedOK, Sessions, unknown, ExecutedOnce,
              AnswersAreFaithful
<1>2. CASE Next
  <2>1. requests' = requests /\ requests \subseteq Request
    BY <1>2 DEF Next, AdmissionInv, TypeOK
  <2>2. ASSUME NEW w \in Session, NEW r \in requests, Lookup(w, r)
        PROVE  AdmissionInv'
    BY <2>1, <2>2, LookupStep
  <2>3. ASSUME NEW w \in Session, NEW r \in requests, Enter(w, r)
        PROVE  AdmissionInv'
    <3>1. r \in Request
      BY <2>1
    <3>2. CASE Replay(w, r)
      BY <2>1, <3>1, <3>2, ReplayStep
    <3>3. CASE unknown(r) /\ enters(w, "decide", r, None, checkedLimits(r), requestLocks(r))
      BY <2>1, <2>3, <3>1, <3>3, EnterStep DEF Enter, used
    <3>4. QED
      BY <2>3, <3>2, <3>3 DEF Enter
  <2>4. ASSUME NEW w \in Session, EnterPrepared(w)
        PROVE  AdmissionInv'
    <3> DEFINE r == session[w].request
    <3>1. r \in Request /\ r.target = None
      <4>1. r # NoRequest /\ r.target = None
        BY <2>4 DEF EnterPrepared, AdmissionInv, Sessions
      <4>2. QED
        BY <4>1, TypeFacts DEF AdmissionInv
    <3>2. CASE Replay(w, r)
      BY <2>1, <3>1, <3>2, ReplayStep
    <3>3. CASE unknown(r) /\ enters(w, "decide", r, None, checkedLimits(r), requestLocks(r))
      BY <2>1, <3>1, <3>3, EnterStep
    <3>4. QED
      BY <2>4, <3>2, <3>3 DEF EnterPrepared
  <2>5. ASSUME NEW w \in Session, NEW a \in AttemptId, EnterGate(w, a)
        PROVE  AdmissionInv'
    BY <2>1, <2>5, EnterGateStep
  <2>6. QED
    BY <1>2, <2>1, <2>2, <2>3, <2>4, <2>5, AdmitStep, SubmitStep, DeliverStep, CloseStep, GateStep,
       AbortStep, RecordOutcomeStep, CleanupStep, TickStep DEF Next
<1>3. QED
  BY <1>1, <1>2

LEMMA InvHolds == Spec => []AdmissionInv
<1>1. AdmissionInv /\ [Next]_vars => AdmissionInv'
  BY NextStep
<1>2. QED
  BY InitStep, <1>1, PTL DEF Spec

-----------------------------------------------------------------------------
(***************************************************************************)
(* Quotas.  The log tells what was admitted and sent, the quota events     *)
(* what the limits are checked against; maintenance deletes events, never  *)
(* log entries.                                                            *)
(***************************************************************************)
Sending == {"dispatching", "done"}

\* An entry belongs to its recipient's operation, and is the only one of its kind and
\* identifier.
EntryOK(s, e, now) ==
  /\ e.at \in Nat /\ e.at <= now
  /\ e.operation \in OperationId /\ used(s, e.operation)
  /\ e.who = s.operations[e.operation].recipient
  /\ \/ e.what = "create" /\ e.id = <<"operation", e.operation>>
     \/ \E a \in AttemptId :
          /\ e.id = <<"attempt", a>> /\ s.attempts[a].operation = e.operation
          /\ e.what \in {"deliver", "send"}
          /\ e.what = "send" => s.attempts[a].state \in Sending

LogOK(s, entries, now) ==
  /\ IsFiniteSet(entries)
  /\ \A e \in entries : EntryOK(s, e, now)
  /\ \A e, f \in entries : (e.what = f.what /\ e.id = f.id) => e = f

\* Events are of the past, and of operations that exist and attempts that got as far.
EventOK(s, q, now) ==
  /\ q.at <= now
  /\ \/ \E o \in OperationId : q.id = <<"operation", o>> /\ used(s, o) /\ q.kind # "send"
     \/ \E a \in AttemptId : /\ q.id = <<"attempt", a>> /\ s.attempts[a].operation # None
                             /\ q.kind = "send" => s.attempts[a].state \in Sending

EventsOK(s, now) == IsFiniteSet(s.quota) /\ \A q \in s.quota : EventOK(s, q, now)

\* Every entry of the last day still counts, as an admission at least from its moment on.
event(scope, kind, id, at) == [scope |-> scope, kind |-> kind, id |-> id, at |-> at]

Counted(s, entries, now) ==
  \A e \in entries : e.at > now - Day =>
    /\ \E q \in s.quota : /\ q.scope = e.who /\ q.kind = "admission" /\ q.id = e.id
                          /\ q.at >= e.at
    /\ e.what = "create" => event(e.who, "create", e.id, e.at) \in s.quota
    /\ e.what = "send" =>
         \A x \in {e.who, Deployment, Shared} : event(x, "send", e.id, e.at) \in s.quota

\* The limits a session that is to decide may use up: it holds their locks, and unless
\* it found one exhausted, each still has room.
recipientFor(s, x) ==
  IF x.request = NoRequest THEN s.operations[s.attempts[x.attempt].operation].recipient
  ELSE IF x.request.target = None THEN x.request.recipient
  ELSE s.operations[x.request.target].recipient

claims(s, x) ==
  IF x.request = NoRequest THEN sendLimits(recipientFor(s, x))
  ELSE {l \in admissionLimits(recipientFor(s, x)) :
          \/ x.request.name \in {"prepare", "create"}
          \/ x.request.name = "deliver" /\ l.kind = "admission"}

counting(events, l, now) ==
  {e \in events : e.scope = l.scope /\ e.kind = l.kind /\ e.at > now - l.window}

Claimed ==
  \A w \in Session : session[w].pc = "decide" =>
    /\ lockQuotas(claims(db, session[w])) \subseteq session[w].held
    /\ ~session[w].blocked =>
         \A l \in claims(db, session[w]) : Cardinality(counting(db.quota, l, clock)) < l.maximum

QuotaInv ==
  /\ AdmissionInv
  /\ LogOK(db, log, clock) /\ EventsOK(db, clock) /\ Counted(db, log, clock)
  /\ Claimed
  /\ QuotasHold

-----------------------------------------------------------------------------
(***************************************************************************)
(* What is never undone: whose an operation is, and that its send began.   *)
(***************************************************************************)
Stays(s, t) ==
  /\ \A o \in OperationId :
       used(s, o) => t.operations[o].recipient = s.operations[o].recipient
  /\ \A a \in AttemptId : s.attempts[a].state \in Sending => t.attempts[a].state \in Sending

LEMMA StaysAlong ==
  ASSUME NEW s, NEW t, NEW u, Keeps(s, t), Stays(s, t), Stays(t, u)
  PROVE  Stays(s, u)
BY DEF Keeps, Stays

LEMMA TerminateStays ==
  ASSUME NEW s \in Tables, NEW o \in OperationId, NEW x \in Terminal, clock \in Nat
  PROVE  Stays(s, terminate(s, o, x)) /\ terminate(s, o, x).quota = s.quota
<1> DEFINE t == terminate(s, o, x)
<1>1. /\ \A p \in OperationId : p # o => t.operations[p] = s.operations[p]
      /\ t.operations[o].recipient = s.operations[o].recipient
      /\ t.attempts = suppressPendingAttempts(s.attempts, o)
      /\ t.quota = s.quota
  BY TerminateForm
<1>2. s.attempts \in [AttemptId -> Attempt]
  BY TablesOf
<1> HIDE DEF t
<1>3. \A a \in AttemptId : s.attempts[a].state # "pending" =>
        t.attempts[a].state = s.attempts[a].state
  BY <1>1, <1>2, SuppressForm
<1>4. QED
  BY <1>1, <1>3 DEF Stays, Sending, t

LEMMA ExpireStays ==
  ASSUME NEW s \in Tables, NEW o \in OperationId, clock \in Nat
  PROVE  Stays(s, expire(s, o)) /\ expire(s, o).quota = s.quota
<1>1. "expired" \in Terminal
  BY DEF Terminal
<1>2. Stays(s, s)
  BY DEF Stays
<1>3. QED
  BY <1>1, <1>2, TerminateStays DEF expire

LEMMA ScheduleStays ==
  ASSUME NEW s \in Tables, Linked(s), NEW o \in OperationId, nextAttempt(s) \in AttemptId
  PROVE  /\ Stays(s, schedule(s, o))
         /\ schedule(s, o).quota = s.quota
         /\ schedule(s, o).attempts[nextAttempt(s)].operation = o
<1> DEFINE a == nextAttempt(s)
<1> DEFINE row == [s.operations[o] EXCEPT !.current_attempt_id = a]
<1> DEFINE new == [operation |-> o, state |-> "pending"]
<1> DEFINE t == schedule(s, o)
<1>1. row.recipient = s.operations[o].recipient /\ new.operation = o
  BY TablesOf DEF Operation
<1>2. /\ t.operations = [s.operations EXCEPT ![o] = row]
      /\ t.attempts = [s.attempts EXCEPT ![a] = new]
      /\ t.quota = s.quota
  <2>1. [s.operations EXCEPT ![o].current_attempt_id = a] = [s.operations EXCEPT ![o] = row]
    BY TablesOf
  <2>2. t = [s EXCEPT !.attempts = [s.attempts EXCEPT ![a] = new],
                      !.operations = [s.operations EXCEPT ![o].current_attempt_id = a]]
    BY DEF schedule
  <2> HIDE DEF t, row, new
  <2>3. QED
    BY <2>1, <2>2 DEF Tables
<1>3. s.attempts[a].state = "unused"
  BY NextIsFree DEF AttemptId
<1> HIDE DEF row, new, t
<1>4. \A p \in OperationId : t.operations[p].recipient = s.operations[p].recipient
  BY <1>1, <1>2, TablesOf
<1>5. /\ \A b \in AttemptId : b # a => t.attempts[b] = s.attempts[b]
      /\ t.attempts[a] = new
  BY <1>2, TablesOf
<1>6. QED
  BY <1>1, <1>2, <1>3, <1>4, <1>5 DEF Stays, Sending, t

LEMMA StoreStays ==
  ASSUME NEW s \in Tables, NEW o \in OperationId, NEW code \in Code, clock \in Nat
  PROVE  Stays(s, storeCode(s, o, code)) /\ storeCode(s, o, code).quota = s.quota
<1> DEFINE u == storeCode(s, o, code)
<1>1. /\ u.attempts = s.attempts /\ u.quota = s.quota
      /\ \A p \in OperationId : p # o => u.operations[p] = s.operations[p]
      /\ u.operations[o].recipient = s.operations[o].recipient
  BY StoreForm
<1> HIDE DEF u
<1>2. Stays(s, u)
  BY <1>1 DEF Stays
<1>3. QED
  BY <1>1, <1>2 DEF u

LEMMA AttachStays ==
  ASSUME NEW s \in Tables, Linked(s), NEW o \in OperationId, NEW code \in Code, live(s, o),
         s.operations[o].code # code => nextAttempt(s) \in AttemptId, clock \in Nat
  PROVE  Stays(s, attachCode(s, o, code)) /\ attachCode(s, o, code).quota = s.quota
<1> DEFINE u == storeCode(s, o, code)
<1> DEFINE t == attachCode(s, o, code)
<1>1. CASE s.operations[o].code = code
  BY <1>1 DEF attachCode, Stays
<1>2. CASE s.operations[o].code # code
  <2>1. t = schedule(u, o)
    BY <1>2 DEF attachCode
  <2>2. /\ u \in Tables /\ Linked(u) /\ Keeps(s, u) /\ nextAttempt(u) = nextAttempt(s)
        /\ Stays(s, u) /\ u.quota = s.quota
    BY StoreForm, StoreKeeps, StoreStays
  <2> HIDE DEF t, u
  <2>3. Stays(u, t) /\ t.quota = u.quota
    BY <1>2, <2>1, <2>2, ScheduleStays
  <2>4. QED
    BY <2>2, <2>3, StaysAlong DEF t
<1>3. QED
  BY <1>1, <1>2

\* The rows a step on an attempt leaves: it moves it alone.
LEMMA MoveStays ==
  ASSUME NEW s \in Tables, NEW a \in AttemptId, NEW x,
         s.attempts[a].state \in Sending => x \in Sending
  PROVE  LET t == [s EXCEPT !.attempts[a].state = x]
         IN  /\ Stays(s, t) /\ t.quota = s.quota /\ t.operations = s.operations
             /\ t.attempts[a].state = x /\ t.attempts[a].operation = s.attempts[a].operation
<1> DEFINE row == [s.attempts[a] EXCEPT !.state = x]
<1> DEFINE t == [s EXCEPT !.attempts[a].state = x]
<1>1. row.state = x /\ row.operation = s.attempts[a].operation
  BY TablesOf DEF Attempt
<1>2. t.operations = s.operations /\ t.quota = s.quota /\ t.attempts = [s.attempts EXCEPT ![a] = row]
  BY TablesOf DEF Tables
<1> HIDE DEF row, t
<1>3. /\ \A b \in AttemptId : b # a => t.attempts[b] = s.attempts[b]
      /\ t.attempts[a] = row
  BY <1>2, TablesOf
<1>4. QED
  BY <1>1, <1>2, <1>3 DEF Stays, t

LEMMA ExpireOverdueStays ==
  ASSUME db \in Tables, clock \in Nat
  PROVE  Stays(db, expireOverdue) /\ expireOverdue.quota = db.quota
<1> DEFINE due == {o \in unlocked : live(db, o) /\ db.operations[o].expires_at <= clock}
<1> DEFINE O == [o \in OperationId |-> IF o \in due THEN terminate(db, o, "expired").operations[o]
                                       ELSE db.operations[o]]
<1> DEFINE A == [a \in AttemptId |->
                   IF db.attempts[a].operation \in due
                   THEN suppressPendingAttempts(db.attempts, db.attempts[a].operation)[a]
                   ELSE db.attempts[a]]
<1> DEFINE R == [i \in Identity |->
                   IF db.receipts[i] # NoReceipt /\ db.receipts[i].operation \in due
                   THEN [db.receipts[i] EXCEPT !.code_fingerprint = NoCode] ELSE db.receipts[i]]
<1> DEFINE t == expireOverdue
<1>1. t = [db EXCEPT !.operations = O, !.attempts = A, !.receipts = R]
  BY DEF expireOverdue
<1>2. \A o \in OperationId : O[o].recipient = db.operations[o].recipient
  <2>1. "expired" \in Terminal
    BY DEF Terminal
  <2>2. QED
    BY <2>1, TerminateForm
<1>3. ASSUME NEW a \in AttemptId, db.attempts[a].state \in Sending
      PROVE  A[a].state \in Sending
  <2>1. db.attempts \in [AttemptId -> Attempt]
    BY TablesOf
  <2>2. CASE db.attempts[a].operation \in due
    <3>1. db.attempts[a].operation \in OperationId
      BY <2>2 DEF unlocked
    <3>2. A[a] = suppressPendingAttempts(db.attempts, db.attempts[a].operation)[a]
      BY <2>2
    <3> HIDE DEF A, due
    <3>3. A[a].state = db.attempts[a].state
      BY <1>3, <2>1, <3>1, <3>2, SuppressForm DEF Sending
    <3>4. QED
      BY <1>3, <3>3
  <2>3. CASE db.attempts[a].operation \notin due
    BY <1>3, <2>3
  <2>4. QED
    BY <2>2, <2>3
<1> HIDE DEF O, A, R, t
<1>4. t.operations = O /\ t.attempts = A /\ t.quota = db.quota
  BY <1>1 DEF Tables
<1>5. QED
  BY <1>2, <1>3, <1>4 DEF Stays, t

LEMMA CleanupStays ==
  ASSUME db \in Tables, Linked(db), clock \in Nat
  PROVE  Stays(db, cleanupBatch) /\ cleanupBatch.quota = {e \in db.quota : ~outdated(e)}
<1> DEFINE s == expireOverdue
<1> DEFINE O == [o \in OperationId |-> IF o \in forgotten(s)
                   THEN [s.operations[o] EXCEPT !.state = "deleted"] ELSE s.operations[o]]
<1> DEFINE R == [i \in Identity |-> IF s.receipts[i] # NoReceipt /\ droppable(s, s.receipts[i])
                                    THEN NoReceipt ELSE s.receipts[i]]
<1> DEFINE t == cleanupBatch
<1>1. s \in Tables /\ Keeps(db, s) /\ Stays(db, s) /\ s.quota = db.quota
  BY ExpireOverdueKeeps, ExpireOverdueStays
<1>2. t = [s EXCEPT !.receipts = R, !.operations = O, !.quota = {e \in s.quota : ~outdated(e)}]
  BY DEF cleanupBatch
<1> HIDE DEF s, t
<1>3. \A o \in OperationId : O[o].recipient = s.operations[o].recipient
  BY <1>1, TablesOf DEF Operation
<1> HIDE DEF O, R
<1>4. /\ t.operations = O /\ t.attempts = s.attempts
      /\ t.quota = {e \in s.quota : ~outdated(e)}
  BY <1>1, <1>2 DEF Tables
<1>5. Stays(s, t)
  BY <1>3, <1>4 DEF Stays
<1>6. QED
  BY <1>1, <1>4, <1>5, StaysAlong DEF t

-----------------------------------------------------------------------------
(***************************************************************************)
(* The ledger along a step that logs nothing: events may be deleted once   *)
(* they are a day old, and are never changed.                              *)
(***************************************************************************)
\* Rows that were in use stay in use, and attempts stay with their operation.
Continues(s, t) ==
  /\ Stays(s, t)
  /\ \A o \in OperationId : used(s, o) => used(t, o)
  /\ \A a \in AttemptId :
       s.attempts[a].operation # None => t.attempts[a].operation = s.attempts[a].operation

LEMMA ContinuesItself == ASSUME NEW s PROVE Continues(s, s)
BY DEF Continues, Stays

LEMMA KeepsContinues ==
  ASSUME NEW s, NEW t, Keeps(s, t), Stays(s, t)
  PROVE  Continues(s, t)
BY DEF Continues, Keeps

LEMMA ContinuesAlong ==
  ASSUME NEW s, NEW t, NEW u, Continues(s, t), Continues(t, u)
  PROVE  Continues(s, u)
BY DEF Continues, Stays

LEMMA EntryStays ==
  ASSUME NEW s, NEW t, NEW now, NEW e, EntryOK(s, e, now), Continues(s, t)
  PROVE  EntryOK(t, e, now)
<1>1. None \notin OperationId
  BY DEF None, OperationId
<1>2. e.operation \in OperationId /\ used(s, e.operation)
  BY DEF EntryOK
<1>3. used(t, e.operation) /\ t.operations[e.operation].recipient = s.operations[e.operation].recipient
  BY <1>2 DEF Continues, Stays
<1>4. \A a \in AttemptId : s.attempts[a].operation = e.operation =>
        /\ t.attempts[a].operation = e.operation
        /\ s.attempts[a].state \in Sending => t.attempts[a].state \in Sending
  BY <1>1, <1>2 DEF Continues, Stays
<1>5. QED
  BY <1>3, <1>4 DEF EntryOK

LEMMA EventStays ==
  ASSUME NEW s, NEW t, NEW now, NEW q, EventOK(s, q, now), Continues(s, t)
  PROVE  EventOK(t, q, now)
<1>1. /\ \A o \in OperationId : used(s, o) => used(t, o)
      /\ \A a \in AttemptId :
           /\ s.attempts[a].operation # None => t.attempts[a].operation # None
           /\ s.attempts[a].state \in Sending => t.attempts[a].state \in Sending
  BY DEF Continues, Stays
<1>2. QED
  BY <1>1 DEF EventOK

LEMMA LogAlong ==
  ASSUME NEW s, NEW t, NEW now, NEW entries, LogOK(s, entries, now),
         Continues(s, t)
  PROVE  LogOK(t, entries, now)
BY EntryStays DEF LogOK

LEMMA EventsAlong ==
  ASSUME NEW s, NEW t, NEW now, EventsOK(s, now), Continues(s, t),
         t.quota \subseteq s.quota
  PROVE  EventsOK(t, now)
BY EventStays, FS_Subset DEF EventsOK

LEMMA CountedAlong ==
  ASSUME NEW s, NEW t, NEW now \in Nat, NEW entries, LogOK(s, entries, now),
         s.quota \subseteq Event, Counted(s, entries, now),
         \A q \in s.quota : q.at > now - Day => q \in t.quota
  PROVE  Counted(t, entries, now)
<1> SUFFICES ASSUME NEW e \in entries, e.at > now - Day
             PROVE  /\ \E q \in t.quota : /\ q.scope = e.who /\ q.kind = "admission"
                                          /\ q.id = e.id /\ q.at >= e.at
                    /\ e.what = "create" => event(e.who, "create", e.id, e.at) \in t.quota
                    /\ e.what = "send" =>
                         \A x \in {e.who, Deployment, Shared} :
                           event(x, "send", e.id, e.at) \in t.quota
  BY DEF Counted
<1>1. e.at \in Nat /\ Day \in Nat
  BY DurationAssumption DEF LogOK, EntryOK
<1>2. PICK q \in s.quota : /\ q.scope = e.who /\ q.kind = "admission" /\ q.id = e.id
                           /\ q.at >= e.at
  BY DEF Counted
<1>3. q.at \in Nat
  BY DEF Event
<1>4. q \in t.quota
  BY <1>1, <1>2, <1>3
<1>5. \A x, kind : event(x, kind, e.id, e.at).at = e.at
  BY DEF event
<1>6. QED
  BY <1>2, <1>4, <1>5 DEF Counted

\* What a session may use up does not depend on what others do.
LEMMA SameClaims ==
  ASSUME AdmissionInv, NEW w \in Session, session[w].pc = "decide", NEW t,
         Continues(db, t)
  PROVE  /\ claims(t, session[w]) = claims(db, session[w])
         /\ recipientFor(db, session[w]) \in Recipient
<1>1. db \in Tables /\ Linked(db)
  BY TypeFacts DEF AdmissionInv
<1>2. CASE session[w].request = NoRequest
  <2> DEFINE a == session[w].attempt
  <2> DEFINE o == db.attempts[a].operation
  <2>1. a \in AttemptId /\ o # None
    BY <1>2 DEF AdmissionInv, Sessions
  <2>2. o \in OperationId /\ used(db, o)
    BY <1>1, <2>1, TablesOf DEF Attempt, Linked
  <2>3. t.attempts[a].operation = o /\ t.operations[o].recipient = db.operations[o].recipient
    BY <2>1, <2>2 DEF Continues, Stays
  <2>4. db.operations[o].recipient \in Recipient
    BY <1>1, <2>2, TablesOf DEF Operation
  <2>5. QED
    BY <1>2, <2>3, <2>4 DEF claims, recipientFor
<1>3. CASE session[w].request # NoRequest
  <2> DEFINE r == session[w].request
  <2>1. r \in Request /\ (r.target # None => used(db, r.target))
    BY <1>3, TypeFacts DEF AdmissionInv, Sessions
  <2>2. r.recipient \in Recipient /\ (r.target # None => r.target \in OperationId)
    BY <2>1, Targets, Fields
  <2>3. r.target # None =>
          /\ t.operations[r.target].recipient = db.operations[r.target].recipient
          /\ db.operations[r.target].recipient \in Recipient
    BY <1>1, <2>1, <2>2, TablesOf DEF Continues, Stays, Operation
  <2>4. QED
    BY <1>3, <2>2, <2>3 DEF claims, recipientFor
<1>4. QED
  BY <1>2, <1>3

LEMMA ClaimsAreLimits ==
  ASSUME NEW x, recipientFor(db, x) \in Recipient
  PROVE  claims(db, x) \subseteq Limits
BY LimitsOf DEF claims

\* Who still decides keeps what it claimed, as long as no event is added to its scopes.
LEMMA ClaimedAlong ==
  ASSUME AdmissionInv, Claimed, EventsOK(db, clock), clock' = clock,
         Continues(db, db'), NEW w \in Session,
         session' = session \/ leave(w),
         \A v \in Session : (session[v].pc = "decide" /\ (session' = session \/ v # w)) =>
           \A l \in claims(db, session[v]) : \A q \in db'.quota :
             q.scope = l.scope => q \in db.quota
  PROVE  Claimed'
<1>1. \A v \in Session : \/ session'[v] = session[v] /\ (session' = session \/ v # w)
                         \/ session'[v] = Idle
  BY DEF leave, AdmissionInv, TypeOK
<1>2. Idle.pc = "idle"
  BY DEF Idle
<1>3. ASSUME NEW v \in Session, session'[v].pc = "decide"
      PROVE  /\ lockQuotas(claims(db', session'[v])) \subseteq session'[v].held
             /\ ~session'[v].blocked =>
                  \A l \in claims(db', session'[v]) :
                    Cardinality(counting(db'.quota, l, clock)) < l.maximum
  <2>1. session'[v] = session[v] /\ (session' = session \/ v # w)
    BY <1>1, <1>2, <1>3
  <2>2. session[v].pc = "decide"
    BY <1>3, <2>1
  <2>3. claims(db', session[v]) = claims(db, session[v]) /\ claims(db, session[v]) \subseteq Limits
    BY <2>2, SameClaims, ClaimsAreLimits
  <2>4. ASSUME NEW l \in claims(db, session[v]), ~session[v].blocked
        PROVE  Cardinality(counting(db'.quota, l, clock)) < l.maximum
    <3> DEFINE S == counting(db.quota, l, clock)
    <3> DEFINE T == counting(db'.quota, l, clock)
    <3>1. T \subseteq S
      BY <2>1, <2>2 DEF counting
    <3>2. IsFiniteSet(S)
      BY FS_Subset DEF EventsOK, counting
    <3>3. Cardinality(S) < l.maximum /\ l.maximum \in Nat
      BY <2>2, <2>3, <2>4 DEF Claimed, Limits
    <3> HIDE DEF S, T
    <3>4. IsFiniteSet(T) /\ Cardinality(T) <= Cardinality(S)
      BY <3>1, <3>2, FS_Subset
    <3>5. Cardinality(S) \in Nat /\ Cardinality(T) \in Nat
      BY <3>2, <3>4, FS_CardinalityType
    <3>6. Cardinality(T) < l.maximum
      BY <3>3, <3>4, <3>5
    <3>7. QED
      BY <3>6 DEF T
  <2>5. lockQuotas(claims(db, session[v])) \subseteq session[v].held
    BY <2>2 DEF Claimed
  <2>6. QED
    BY <2>1, <2>3, <2>4, <2>5
<1>4. QED
  BY <1>3 DEF Claimed

LEMMA StillStep ==
  ASSUME QuotaInv, AdmissionInv', clock' = clock, log' = log,
         Continues(db, db'),
         db'.quota \subseteq db.quota,
         \A q \in db.quota : q.at > clock - Day => q \in db'.quota,
         session' = session \/ \E w \in Session : leave(w)
  PROVE  QuotaInv'
<1>1. clock \in Nat /\ db.quota \subseteq Event
  BY TypeFacts, TablesOf DEF QuotaInv, AdmissionInv
<1>2. LogOK(db', log, clock)
  BY <1>1, LogAlong DEF QuotaInv
<1>3. EventsOK(db', clock)
  BY <1>1, EventsAlong DEF QuotaInv
<1>4. Counted(db', log, clock)
  BY <1>1, CountedAlong DEF QuotaInv
<1>5. Claimed'
  <2>1. CASE session' = session /\ Session # {}
    BY <2>1, ClaimedAlong DEF QuotaInv
  <2>2. CASE \E w \in Session : leave(w)
    BY <2>2, ClaimedAlong DEF QuotaInv
  <2>3. CASE Session = {}
    BY <2>3 DEF Claimed
  <2>4. QED
    BY <2>1, <2>2, <2>3
<1>6. QuotasHold'
  BY DEF QuotaInv, QuotasHold, RollingLimits, RecipientIsLeftAlone, within, ofRecipient, sent
<1>7. QED
  BY <1>2, <1>3, <1>4, <1>5, <1>6 DEF QuotaInv

-----------------------------------------------------------------------------
(***************************************************************************)
(* A window grows by one entry at most, and what it holds of the log is    *)
(* never more than what the limit counted.                                 *)
(***************************************************************************)
recent(entries, l, now) == {e \in entries : e.at > now - l.window}

LEMMA RecentAreCounted ==
  ASSUME NEW entries, IsFiniteSet(entries), NEW events, IsFiniteSet(events), NEW l, NEW now,
         \A e, f \in entries : e.id = f.id => e = f,
         \A e \in recent(entries, l, now) : event(l.scope, l.kind, e.id, e.at) \in events
  PROVE  /\ IsFiniteSet(recent(entries, l, now))
         /\ Cardinality(recent(entries, l, now)) \in Nat
         /\ Cardinality(counting(events, l, now)) \in Nat
         /\ Cardinality(recent(entries, l, now)) <= Cardinality(counting(events, l, now))
<1> DEFINE S == recent(entries, l, now)
<1> DEFINE T == counting(events, l, now)
<1> DEFINE f == [e \in S |-> event(l.scope, l.kind, e.id, e.at)]
<1>1. IsFiniteSet(S) /\ IsFiniteSet(T)
  BY FS_Subset DEF recent, counting
<1>2. \A e \in S : /\ event(l.scope, l.kind, e.id, e.at) \in T
                   /\ event(l.scope, l.kind, e.id, e.at).id = e.id
  BY DEF event, recent, counting
<1>3. \A e \in S : e \in entries
  BY DEF recent
<1> HIDE DEF S, T
<1>4. f \in [S -> T] /\ \A e \in S : f[e].id = e.id
  BY <1>2
<1> HIDE DEF f
<1>5. \A d, e \in S : f[d] = f[e] => d = e
  BY <1>3, <1>4
<1>6. f \in Injection(S, T)
  BY <1>4, <1>5 DEF Injection, IsInjective
<1>7. Cardinality(S) <= Cardinality(T)
  BY <1>1, <1>6, FS_Injection
<1>8. QED
  BY <1>1, <1>7, FS_CardinalityType DEF S, T

LEMMA WindowGrows ==
  ASSUME NEW entries, IsFiniteSet(entries), NEW now \in Nat, NEW n, n.at = now,
         \A e \in entries : e.at \in Nat /\ e.at <= now,
         NEW window \in Nat \ {0}, NEW maximum \in Nat,
         within(entries, window, maximum),
         Cardinality({e \in entries : e.at > now - window}) < maximum
  PROVE  within(entries \cup {n}, window, maximum)
<1> DEFINE all == entries \cup {n}
<1> DEFINE held(t) == {f \in all : f.at \in (t - window + 1) .. t}
<1> SUFFICES ASSUME NEW e \in all
             PROVE  Cardinality(held(e.at)) <= maximum
  BY DEF within
<1>1. CASE e.at < now
  <2>1. e \in entries /\ e.at \in Nat
    BY <1>1
  <2>2. held(e.at) = {f \in entries : f.at \in (e.at - window + 1) .. e.at}
    BY <1>1, <2>1
  <2>3. QED
    BY <2>1, <2>2 DEF within
<1>2. CASE e.at = now
  <2> DEFINE S == {f \in entries : f.at > now - window}
  <2>1. held(now) = S \cup {n}
    <3>1. \A f \in entries : f.at \in (now - window + 1) .. now <=> f.at > now - window
      OBVIOUS
    <3>2. n.at \in (now - window + 1) .. now
      OBVIOUS
    <3>3. QED
      BY <3>1, <3>2
  <2>2. IsFiniteSet(S)
    BY FS_Subset
  <2> HIDE DEF S
  <2>3. Cardinality(S) \in Nat
    BY <2>2, FS_CardinalityType
  <2>4. Cardinality(S \cup {n}) \in {Cardinality(S), Cardinality(S) + 1}
    BY <2>2, FS_AddElement
  <2>5. Cardinality(S \cup {n}) \in Nat
    BY <2>2, FS_AddElement, FS_CardinalityType
  <2>6. Cardinality(S) < maximum
    BY DEF S
  <2>7. Cardinality(S \cup {n}) <= maximum
    BY <2>3, <2>4, <2>5, <2>6
  <2>8. QED
    BY <1>2, <2>1, <2>7
<1>3. e.at \in Nat /\ e.at <= now
  OBVIOUS
<1>4. QED
  BY <1>1, <1>2, <1>3

\* A limit with room left has room for one more entry in the log.
LEMMA RoomInTheWindow ==
  ASSUME NEW entries, IsFiniteSet(entries), NEW now \in Nat, NEW n, n.at = now,
         \A e \in entries : e.at \in Nat /\ e.at <= now,
         \A e, f \in entries : e.id = f.id => e = f,
         NEW events, IsFiniteSet(events), NEW l \in Limits, l.window <= Day,
         \A e \in entries : e.at > now - Day => event(l.scope, l.kind, e.id, e.at) \in events,
         Cardinality(counting(events, l, now)) < l.maximum,
         within(entries, l.window, l.maximum)
  PROVE  within(entries \cup {n}, l.window, l.maximum)
<1> DEFINE S == recent(entries, l, now)
<1>1. l.window \in Nat \ {0} /\ l.maximum \in Nat /\ Day \in Nat
  BY DurationAssumption DEF Limits
<1>2. \A e \in S : event(l.scope, l.kind, e.id, e.at) \in events
  BY <1>1 DEF recent
<1>3. /\ Cardinality(S) \in Nat /\ Cardinality(counting(events, l, now)) \in Nat
      /\ Cardinality(S) <= Cardinality(counting(events, l, now))
  BY <1>2, RecentAreCounted
<1> HIDE DEF S
<1>4. Cardinality(S) < l.maximum
  BY <1>1, <1>3
<1>5. QED
  BY <1>1, <1>4, WindowGrows DEF S, recent

-----------------------------------------------------------------------------
(***************************************************************************)
(* A session that goes ahead books its entry: in the log, and as events in *)
(* the scopes it holds.                                                    *)
(***************************************************************************)
\* One more entry keeps every window and every pause, while each limit it counts for has
\* room.
LEMMA EntryFits ==
  ASSUME NEW s, NEW now \in Nat, LogOK(s, log, now), EventsOK(s, now), Counted(s, log, now),
         s.quota \subseteq Event,
         QuotasHold, NEW what \in {"create", "deliver", "send"}, NEW who \in Recipient, NEW n,
         n.what = what, n.who = who, n.at = now, log' = log \cup {n},
         \A l \in Limits :
           \/ what = "create" /\ l \in admissionLimits(who)
           \/ what = "deliver" /\ l = admissionLimit(who)
           \/ what = "send" /\ l \in sendLimits(who)
           => Cardinality(counting(s.quota, l, now)) < l.maximum
  PROVE  QuotasHold'
<1>1. /\ IsFiniteSet(log) /\ IsFiniteSet(s.quota)
      /\ \A e \in log : e.at \in Nat /\ e.at <= now
      /\ \A e, f \in log : (e.what = f.what /\ e.id = f.id) => e = f
  BY DEF LogOK, EventsOK, EntryOK
<1>2. /\ Window <= Day /\ AdmissionWindow <= Day
      /\ {Window, Day, AdmissionWindow} \subseteq Nat \ {0}
  BY DurationAssumption
<1>3. \A kind, y : IsFiniteSet(ofRecipient(kind, y)) /\ ofRecipient(kind, y) \subseteq log
  BY <1>1, FS_Subset DEF ofRecipient
<1>4. IsFiniteSet(sent) /\ sent \subseteq log
  BY <1>1, FS_Subset DEF sent
<1>5. ASSUME NEW y \in Recipient
      PROVE  within(ofRecipient("create", y)', Window, recipientCreateLimit15m)
  <2> DEFINE l == recipientLimit(who, "create", recipientCreateLimit15m)
  <2>1. CASE what = "create" /\ y = who
    <3>1. /\ l \in Limits /\ l \in admissionLimits(who)
          /\ l.scope = who /\ l.kind = "create" /\ l.window = Window
          /\ l.maximum = recipientCreateLimit15m
      BY LimitsOf DEF admissionLimits, recipientLimit, limit
    <3> HIDE DEF l
    <3>2. ofRecipient("create", y)' = ofRecipient("create", who) \cup {n}
      BY <2>1 DEF ofRecipient
    <3>3. \A e \in ofRecipient("create", who) : e \in log /\ e.what = "create" /\ e.who = who
      BY DEF ofRecipient
    <3>4. \A e \in ofRecipient("create", who) : e.at > now - Day =>
            event(l.scope, l.kind, e.id, e.at) \in s.quota
      BY <3>1, <3>3 DEF Counted
    <3>5. \A e, f \in ofRecipient("create", who) : e.id = f.id => e = f
      BY <1>1, <3>3
    <3>6. within(ofRecipient("create", who), l.window, l.maximum)
      BY <3>1 DEF QuotasHold, RollingLimits
    <3>7. Cardinality(counting(s.quota, l, now)) < l.maximum
      BY <2>1, <3>1
    <3>8. within(ofRecipient("create", who) \cup {n}, l.window, l.maximum)
      BY <1>1, <1>2, <1>3, <3>1, <3>4, <3>5, <3>6, <3>7, RoomInTheWindow
    <3>9. QED
      BY <3>1, <3>2, <3>8
  <2>2. CASE ~(what = "create" /\ y = who)
    <3>1. ofRecipient("create", y)' = ofRecipient("create", y)
      BY <2>2 DEF ofRecipient
    <3>2. QED
      BY <3>1 DEF QuotasHold, RollingLimits
  <2>3. QED
    BY <2>1, <2>2
<1>6. ASSUME NEW y \in Recipient
      PROVE  within(ofRecipient("send", y)', Window, recipientSendLimit15m)
  <2> DEFINE l == recipientLimit(who, "send", recipientSendLimit15m)
  <2>1. CASE what = "send" /\ y = who
    <3>1. /\ l \in Limits /\ l \in sendLimits(who)
          /\ l.scope = who /\ l.kind = "send" /\ l.window = Window
          /\ l.maximum = recipientSendLimit15m
      BY LimitsOf DEF sendLimits, commonSendLimits, recipientLimit, limit
    <3> HIDE DEF l
    <3>2. ofRecipient("send", y)' = ofRecipient("send", who) \cup {n}
      BY <2>1 DEF ofRecipient
    <3>3. \A e \in ofRecipient("send", who) : e \in log /\ e.what = "send" /\ e.who = who
      BY DEF ofRecipient
    <3>4. \A e \in ofRecipient("send", who) : e.at > now - Day =>
            event(l.scope, l.kind, e.id, e.at) \in s.quota
      BY <3>1, <3>3 DEF Counted
    <3>5. \A e, f \in ofRecipient("send", who) : e.id = f.id => e = f
      BY <1>1, <3>3
    <3>6. within(ofRecipient("send", who), l.window, l.maximum)
      BY <3>1 DEF QuotasHold, RollingLimits
    <3>7. Cardinality(counting(s.quota, l, now)) < l.maximum
      BY <2>1, <3>1
    <3>8. within(ofRecipient("send", who) \cup {n}, l.window, l.maximum)
      BY <1>1, <1>2, <1>3, <3>1, <3>4, <3>5, <3>6, <3>7, RoomInTheWindow
    <3>9. QED
      BY <3>1, <3>2, <3>8
  <2>2. CASE ~(what = "send" /\ y = who)
    <3>1. ofRecipient("send", y)' = ofRecipient("send", y)
      BY <2>2 DEF ofRecipient
    <3>2. QED
      BY <3>1 DEF QuotasHold, RollingLimits
  <2>3. QED
    BY <2>1, <2>2
<1>7. /\ within(sent', Window, deploymentSendLimit15m)
      /\ within(sent', Day, sharedSendLimit24h)
  <2>1. CASE what = "send"
    <3> DEFINE d == limit(Deployment, "send", deploymentSendLimit15m, Window)
    <3> DEFINE h == limit(Shared, "send", sharedSendLimit24h, Day)
    <3>1. /\ d \in Limits /\ d \in sendLimits(who) /\ d.scope = Deployment /\ d.kind = "send"
          /\ d.window = Window /\ d.maximum = deploymentSendLimit15m
      BY LimitsOf DEF sendLimits, commonSendLimits, limit
    <3>2. /\ h \in Limits /\ h \in sendLimits(who) /\ h.scope = Shared /\ h.kind = "send"
          /\ h.window = Day /\ h.maximum = sharedSendLimit24h /\ h.window <= Day
      BY <1>2, LimitsOf DEF sendLimits, providerSendLimits, limit
    <3> HIDE DEF d, h
    <3>3. sent' = sent \cup {n}
      BY <2>1 DEF sent
    <3>4. \A e \in sent : e \in log /\ e.what = "send"
      BY DEF sent
    <3>5. \A e \in sent : e.at > now - Day =>
            /\ event(d.scope, d.kind, e.id, e.at) \in s.quota
            /\ event(h.scope, h.kind, e.id, e.at) \in s.quota
      BY <3>1, <3>2, <3>4 DEF Counted
    <3>6. \A e, f \in sent : e.id = f.id => e = f
      BY <1>1, <3>4
    <3>7. /\ Cardinality(counting(s.quota, d, now)) < d.maximum
          /\ Cardinality(counting(s.quota, h, now)) < h.maximum
      BY <2>1, <3>1, <3>2
    <3>8. within(sent, d.window, d.maximum) /\ within(sent, h.window, h.maximum)
      BY <3>1, <3>2 DEF QuotasHold, RollingLimits
    <3>9. within(sent \cup {n}, d.window, d.maximum)
      BY <1>1, <1>2, <1>4, <3>1, <3>5, <3>6, <3>7, <3>8, RoomInTheWindow
    <3>10. within(sent \cup {n}, h.window, h.maximum)
      BY <1>1, <1>2, <1>4, <3>2, <3>5, <3>6, <3>7, <3>8, RoomInTheWindow
    <3>11. QED
      BY <3>1, <3>2, <3>3, <3>9, <3>10
  <2>2. CASE what # "send"
    <3>1. sent' = sent
      BY <2>2 DEF sent
    <3>2. QED
      BY <3>1 DEF QuotasHold, RollingLimits
  <2>3. QED
    BY <2>1, <2>2
<1>8. RecipientIsLeftAlone'
  <2> SUFFICES ASSUME NEW e \in log', NEW f \in log', e # f, e.who = f.who, e.what # "send"
               PROVE  \/ f.at <= e.at - AdmissionWindow
                      \/ f.at > e.at
                      \/ f.at = e.at /\ f.what = "send"
    BY DEF RecipientIsLeftAlone
  <2>1. CASE e \in log /\ f \in log
    BY <2>1 DEF QuotasHold, RecipientIsLeftAlone
  \* Whoever was admitted or sent to a moment ago has an event that blocks.
  <2>2. ASSUME what # "send", NEW g \in log, g.who = who
        PROVE  g.at <= now - AdmissionWindow
    <3> DEFINE l == admissionLimit(who)
    <3>1. /\ l \in Limits /\ l \in admissionLimits(who) /\ l.scope = who
          /\ l.kind = "admission" /\ l.maximum = 1 /\ l.window = AdmissionWindow
          /\ l = admissionLimit(who)
      BY LimitsOf DEF admissionLimits, admissionLimit, limit
    <3> HIDE DEF l
    <3>2. Cardinality(counting(s.quota, l, now)) < 1
      BY <2>2, <3>1
    <3>3. IsFiniteSet(counting(s.quota, l, now))
      BY <1>1, FS_Subset DEF counting
    <3>4. counting(s.quota, l, now) = {}
      <4> DEFINE C == counting(s.quota, l, now)
      <4> HIDE DEF C
      <4>1. Cardinality(C) \in Nat /\ (Cardinality(C) = 0 <=> C = {})
        BY <3>3, FS_CardinalityType, FS_EmptySet DEF C
      <4>2. Cardinality(C) < 1
        BY <3>2 DEF C
      <4>3. QED
        BY <4>1, <4>2 DEF C
    <3>5. ASSUME g.at > now - AdmissionWindow PROVE FALSE
      <4>1. g.at \in Nat /\ g.at > now - Day
        BY <1>1, <1>2, <3>5
      <4>2. PICK q \in s.quota : /\ q.scope = who /\ q.kind = "admission" /\ q.at >= g.at
        BY <2>2, <4>1 DEF Counted
      <4>3. q.at \in Nat
        BY DEF Event
      <4>4. q.at > now - AdmissionWindow
        BY <1>2, <3>5, <4>1, <4>2, <4>3
      <4>5. q \in counting(s.quota, l, now)
        BY <3>1, <4>2, <4>4 DEF counting
      <4>6. QED
        BY <3>4, <4>5
    <3>6. g.at \in Nat
      BY <1>1
    <3>7. QED
      BY <1>2, <3>5, <3>6
  <2>3. CASE e = n /\ f \in log
    BY <2>2, <2>3
  <2>4. CASE f = n /\ e \in log
    <3>1. e.at \in Nat /\ e.at <= now
      BY <1>1, <2>4
    <3>2. CASE e.at < now
      BY <2>4, <3>1, <3>2
    <3>3. CASE e.at = now
      <4>1. what = "send"
        BY <1>2, <2>2, <2>4, <3>3
      <4>2. QED
        BY <2>4, <3>3, <4>1
    <3>4. QED
      BY <3>1, <3>2, <3>3
  <2>5. QED
    BY <2>1, <2>3, <2>4
<1>9. QED
  BY <1>5, <1>6, <1>7, <1>8 DEF QuotasHold, RollingLimits

\* A booking: the entry of a session with room in every limit it claims, and its events.
LEMMA BookingStep ==
  ASSUME QuotaInv, AdmissionInv', clock' = clock, NEW w \in Session,
         session[w].pc = "decide", ~session[w].blocked, leave(w),
         Continues(db, db'),
         NEW what \in {"create", "deliver", "send"}, NEW who, NEW o \in OperationId, NEW id,
         who = recipientFor(db, session[w]),
         logged(what, who, o, id),
         used(db', o), db'.operations[o].recipient = who,
         \/ what = "create" /\ id = <<"operation", o>> /\ ~used(db, o)
         \/ \E a \in AttemptId :
              /\ id = <<"attempt", a>> /\ db'.attempts[a].operation = o
              /\ what = "deliver" => db.attempts[a].operation = None
              /\ what = "send" =>
                   db.attempts[a].state \notin Sending /\ db'.attempts[a].state \in Sending
              /\ what # "create",
         what = "create" => admissionLimits(who) \subseteq claims(db, session[w]),
         what = "deliver" => admissionLimit(who) \in claims(db, session[w]),
         what = "send" => sendLimits(who) \subseteq claims(db, session[w]),
         NEW added, IsFiniteSet(added),
         \A q \in added : /\ q.id = id /\ q.at = clock
                          /\ q.kind = "send" => what = "send"
                          /\ <<"quota", q.scope>> \in lockQuotas(claims(db, session[w])),
         event(who, "admission", id, clock) \in added,
         what = "create" => event(who, "create", id, clock) \in added,
         what = "send" => \A x \in {who, Deployment, Shared} : event(x, "send", id, clock) \in added,
         db'.quota = {q \in db.quota : ~(q.kind = "admission" /\ q.id = id)} \cup added
  PROVE  QuotaInv'
<1> DEFINE n == [what |-> what, who |-> who, operation |-> o, id |-> id, at |-> clock]
<1>1. /\ n.what = what /\ n.who = who /\ n.operation = o /\ n.id = id /\ n.at = clock
      /\ log' = log \cup {n}
  BY DEF logged
<1> HIDE DEF n
<1>2. /\ clock \in Nat /\ db \in Tables /\ Linked(db) /\ db.quota \subseteq Event
      /\ None \notin OperationId
  BY TypeFacts, TablesOf DEF QuotaInv, AdmissionInv, None, OperationId
<1>3. who \in Recipient /\ claims(db, session[w]) \subseteq Limits
  BY <1>2, SameClaims, ClaimsAreLimits, ContinuesItself DEF QuotaInv
<1>4. EntryOK(db', n, clock)
  BY <1>1, <1>2 DEF EntryOK
<1>5. \A e \in log : EntryOK(db, e, clock) /\ EntryOK(db', e, clock)
  BY EntryStays DEF QuotaInv, LogOK
<1>6. LogOK(db', log', clock)
  <2>1. IsFiniteSet(log')
    BY <1>1, FS_AddElement DEF QuotaInv, LogOK
  <2>2. \A e \in log : e.what = what => e.id # id
    <3> SUFFICES ASSUME NEW e \in log, e.what = what, e.id = id PROVE FALSE
      OBVIOUS
    <3>1. /\ e.operation \in OperationId /\ used(db, e.operation)
          /\ \/ e.what = "create" /\ e.id = <<"operation", e.operation>>
             \/ \E a \in AttemptId :
                  /\ e.id = <<"attempt", a>> /\ db.attempts[a].operation = e.operation
                  /\ e.what \in {"deliver", "send"}
                  /\ e.what = "send" => db.attempts[a].state \in Sending
      BY <1>5 DEF EntryOK
    <3>2. QED
      BY <1>2, <3>1
  <2>3. \A e, f \in log' : (e.what = f.what /\ e.id = f.id) => e = f
    BY <1>1, <2>2 DEF QuotaInv, LogOK
  <2>4. QED
    BY <1>1, <1>4, <1>5, <2>1, <2>3 DEF LogOK
<1>7. EventsOK(db', clock)
  <2>1. IsFiniteSet({q \in db.quota : ~(q.kind = "admission" /\ q.id = id)})
    BY FS_Subset DEF QuotaInv, EventsOK
  <2> DEFINE kept == {q \in db.quota : ~(q.kind = "admission" /\ q.id = id)}
  <2>2. IsFiniteSet(db'.quota)
    <3>1. db'.quota = kept \cup added /\ IsFiniteSet(kept)
      BY <2>1
    <3> HIDE DEF kept
    <3>2. IsFiniteSet(kept \cup added)
      BY <3>1, FS_Union
    <3>3. QED
      BY <3>1, <3>2
  <2>3. \A q \in db.quota : EventOK(db', q, clock)
    BY EventStays DEF QuotaInv, EventsOK
  <2>4. ASSUME NEW q \in added
        PROVE  EventOK(db', q, clock)
    <3>1. q.id = id /\ q.at = clock /\ (q.kind = "send" => what = "send")
      OBVIOUS
    <3>2. CASE what = "create"
      <4>1. id = <<"operation", o>> /\ q.kind # "send"
        BY <3>1, <3>2
      <4>2. \E p \in OperationId : q.id = <<"operation", p>> /\ used(db', p) /\ q.kind # "send"
        BY <3>1, <4>1
      <4>3. q.at <= clock
        BY <1>2, <3>1
      <4>4. QED
        BY <4>2, <4>3 DEF EventOK
    <3>3. CASE what # "create"
      <4>1. PICK a \in AttemptId :
              /\ id = <<"attempt", a>> /\ db'.attempts[a].operation = o
              /\ what = "send" => db'.attempts[a].state \in Sending
        BY <3>3
      <4>2. q.at <= clock
        BY <1>2, <3>1
      <4>3. db'.attempts[a].operation # None
        BY <1>2, <4>1
      <4>4. QED
        BY <3>1, <4>1, <4>2, <4>3 DEF EventOK
    <3>4. QED
      BY <3>2, <3>3
  <2>5. QED
    BY <2>2, <2>3, <2>4 DEF EventsOK
<1>8. Counted(db', log', clock)
  <2> SUFFICES ASSUME NEW e \in log', e.at > clock - Day
               PROVE  /\ \E q \in db'.quota : /\ q.scope = e.who /\ q.kind = "admission"
                                              /\ q.id = e.id /\ q.at >= e.at
                      /\ e.what = "create" => event(e.who, "create", e.id, e.at) \in db'.quota
                      /\ e.what = "send" =>
                           \A x \in {e.who, Deployment, Shared} :
                             event(x, "send", e.id, e.at) \in db'.quota
    BY DEF Counted
  <2>1. \A x, kind, i, at : /\ event(x, kind, i, at).scope = x /\ event(x, kind, i, at).kind = kind
                            /\ event(x, kind, i, at).id = i /\ event(x, kind, i, at).at = at
    BY DEF event
  <2>2. CASE e = n
    BY <1>1, <1>2, <2>1, <2>2
  <2>3. CASE e \in log
    <3>1. PICK q \in db.quota : /\ q.scope = e.who /\ q.kind = "admission" /\ q.id = e.id
                                /\ q.at >= e.at
      BY <2>3 DEF QuotaInv, Counted
    <3>2. \E p \in db'.quota : /\ p.scope = e.who /\ p.kind = "admission" /\ p.id = e.id
                               /\ p.at >= e.at
      <4>1. CASE e.id # id
        BY <3>1, <4>1
      <4>2. CASE e.id = id
        <5>1. e.who = who
          <6>1. /\ e.who = db'.operations[e.operation].recipient
                /\ \/ e.id = <<"operation", e.operation>>
                   \/ \E a \in AttemptId :
                        e.id = <<"attempt", a>> /\ db'.attempts[a].operation = e.operation
            BY <1>5, <2>3 DEF EntryOK
          <6>2. e.operation = o
            BY <4>2, <6>1
          <6>3. QED
            BY <6>1, <6>2
        <5>2. e.at <= clock
          BY <1>5, <2>3 DEF EntryOK
        <5>3. QED
          BY <1>2, <2>1, <4>2, <5>1, <5>2
      <4>3. QED
        BY <4>1, <4>2
    <3>3. /\ e.what = "create" => event(e.who, "create", e.id, e.at) \in db.quota
          /\ e.what = "send" => \A x \in {e.who, Deployment, Shared} :
                                  event(x, "send", e.id, e.at) \in db.quota
      BY <2>3 DEF QuotaInv, Counted
    <3>4. QED
      BY <2>1, <3>2, <3>3
  <2>4. QED
    BY <1>1, <2>2, <2>3
<1>9. Claimed'
  <2>1. ASSUME NEW v \in Session, v # w, session[v].pc = "decide",
               NEW l \in claims(db, session[v]), NEW q \in db'.quota, q.scope = l.scope
        PROVE  q \in db.quota
    <3>1. <<"quota", l.scope>> \in session[v].held
      BY <2>1 DEF QuotaInv, Claimed, lockQuotas
    <3>2. lockQuotas(claims(db, session[w])) \subseteq session[w].held
      BY DEF QuotaInv, Claimed
    <3>3. session[v].held \cap session[w].held = {}
      BY <2>1 DEF QuotaInv, AdmissionInv, Sessions
    <3>4. q \notin added
      BY <2>1, <3>1, <3>2, <3>3
    <3>5. QED
      BY <3>4
  <2>2. session' # session
    BY DEF leave, Idle, QuotaInv, AdmissionInv, TypeOK
  <2>3. QED
    BY <2>1, <2>2, ClaimedAlong DEF QuotaInv
<1>10. QuotasHold'
  <2>1. \A l \in claims(db, session[w]) : Cardinality(counting(db.quota, l, clock)) < l.maximum
    BY DEF QuotaInv, Claimed
  <2>2. \A l \in Limits :
          \/ what = "create" /\ l \in admissionLimits(who)
          \/ what = "deliver" /\ l = admissionLimit(who)
          \/ what = "send" /\ l \in sendLimits(who)
          => Cardinality(counting(db.quota, l, clock)) < l.maximum
    BY <2>1
  <2>3. QED
    BY <1>1, <1>2, <1>3, <2>2, EntryFits DEF QuotaInv
<1>11. QED
  BY <1>6, <1>7, <1>8, <1>9, <1>10 DEF QuotaInv

-----------------------------------------------------------------------------
(***************************************************************************)
(* What the operations on rows book.                                       *)
(***************************************************************************)
eventsOf(limits, id) == {event(l.scope, l.kind, id, clock) : l \in limits}

LEMMA CountAdds ==
  ASSUME NEW s \in Tables, NEW limits, NEW id,
         \A q \in s.quota : \A l \in limits : q.kind = l.kind => q.id # id
  PROVE  countQuotas(s, limits, id).quota = s.quota \cup eventsOf(limits, id)
<1>1. {k \in limits : \A e \in s.quota : <<e.scope, e.kind, e.id>> # <<k.scope, k.kind, id>>}
        = limits
  OBVIOUS
<1>2. QED
  BY <1>1 DEF countQuotas, eventsOf, event, Tables

LEMMA ExtendAdds ==
  ASSUME NEW s \in Tables, NEW who, NEW id
  PROVE  extendAdmission(s, who, id).quota
           = {q \in s.quota : ~(q.kind = "admission" /\ q.id = id)}
               \cup {event(who, "admission", id, clock)}
BY DEF extendAdmission, event, Tables

LEMMA EventsOfLimits ==
  ASSUME NEW who, NEW id
  PROVE  /\ eventsOf(admissionLimits(who), id)
              = {event(who, "create", id, clock), event(who, "admission", id, clock)}
         /\ eventsOf({admissionLimit(who)}, id) = {event(who, "admission", id, clock)}
         /\ eventsOf(sendLimits(who), id)
              = {event(who, "send", id, clock), event(Deployment, "send", id, clock),
                 event(Shared, "send", id, clock)}
<1>1. eventsOf(admissionLimits(who), id)
        = {event(who, "create", id, clock), event(who, "admission", id, clock)}
  BY DEF eventsOf, admissionLimits, recipientLimit, admissionLimit, limit
<1>2. eventsOf({admissionLimit(who)}, id) = {event(who, "admission", id, clock)}
  BY DEF eventsOf, admissionLimit, limit
<1>3. eventsOf(sendLimits(who), id)
        = {event(who, "send", id, clock), event(Deployment, "send", id, clock),
           event(Shared, "send", id, clock)}
  BY DEF eventsOf, sendLimits, commonSendLimits, providerSendLimits, recipientLimit, limit
<1>4. QED
  BY <1>1, <1>2, <1>3

LEMMA AdmitBooks ==
  ASSUME NEW s \in Tables, Linked(s), EventsOK(s, clock), NEW r \in Request,
         nextOperation(s) \in OperationId, clock \in Nat
  PROVE  LET t == admitOperation(s, r)
             o == nextOperation(s)
         IN  /\ Stays(s, t)
             /\ t.operations[o].recipient = r.recipient
             /\ t.quota = s.quota \cup eventsOf(admissionLimits(r.recipient), <<"operation", o>>)
<1> DEFINE o == nextOperation(s)
<1> DEFINE row == [state |-> "prepared", recipient |-> r.recipient, expires_at |-> r.expiresAt,
                   code |-> NoCode, next_user_send_at |-> clock, terminal_at |-> 0,
                   current_attempt_id |-> None]
<1> DEFINE u == [s EXCEPT !.operations[o] = row]
<1> DEFINE t == admitOperation(s, r)
<1>1. row \in Operation /\ row.recipient = r.recipient
  BY Fields DEF Operation
<1>2. t = countQuotas(u, admissionLimits(r.recipient), <<"operation", o>>)
  BY DEF admitOperation
<1> HIDE DEF row
<1>3. /\ u \in Tables /\ u.operations = [s.operations EXCEPT ![o] = row]
      /\ u.attempts = s.attempts /\ u.quota = s.quota
  BY <1>1, TablesOf DEF Tables
<1> HIDE DEF u, t
<1>4. /\ t.operations = u.operations /\ t.attempts = u.attempts
  <2>1. admissionLimits(r.recipient) \in SUBSET Limits /\ <<"operation", o>> \in Ids
    BY LimitsOf, Fields DEF Ids, OperationId
  <2>2. QED
    BY <1>2, <1>3, <2>1, CountForm
<1>5. ~used(s, o)
  BY NextIsFree DEF OperationId
<1>6. /\ \A p \in OperationId : p # o => t.operations[p] = s.operations[p]
      /\ t.operations[o] = row
  BY <1>3, <1>4, TablesOf
<1>7. \A q \in s.quota : q.id # <<"operation", o>>
  BY <1>5 DEF EventsOK, EventOK
<1>8. t.quota = s.quota \cup eventsOf(admissionLimits(r.recipient), <<"operation", o>>)
  BY <1>2, <1>3, <1>7, CountAdds
<1>9. Stays(s, t)
  BY <1>3, <1>4, <1>5, <1>6 DEF Stays
<1>10. QED
  BY <1>1, <1>6, <1>8, <1>9 DEF t

LEMMA RequestSendBooks ==
  ASSUME NEW s \in Tables, Linked(s), EventsOK(s, clock), NEW o \in OperationId, live(s, o),
         nextAttempt(s) \in AttemptId, clock \in Nat
  PROVE  LET t  == requestSend(s, o)
             id == <<"attempt", nextAttempt(s)>>
         IN  /\ Stays(s, t)
             /\ t.attempts[nextAttempt(s)].operation = o
             /\ t.quota = s.quota \cup eventsOf({admissionLimit(s.operations[o].recipient)}, id)
<1> DEFINE who == s.operations[o].recipient
<1> DEFINE id == <<"attempt", nextAttempt(s)>>
<1> DEFINE u == waiting(s, o)
<1> DEFINE v == schedule(u, o)
<1> DEFINE t == requestSend(s, o)
<1>1. t = countQuotas(v, {admissionLimit(who)}, <<"attempt", v.operations[o].current_attempt_id>>)
  BY DEF requestSend, waiting
<1>2. who \in Recipient
  BY TablesOf DEF Operation
<1> HIDE DEF u, v, t
<1>3. /\ u \in Tables /\ Linked(u) /\ Keeps(s, u) /\ live(u, o) /\ Stays(s, u)
      /\ nextAttempt(u) = nextAttempt(s) /\ u.quota = s.quota
  <2>1. Stays(s, u)
    BY WaitingKeeps DEF u, Stays, Sending
  <2>2. QED
    BY <2>1, WaitingKeeps DEF u
<1>4. /\ v \in Tables /\ Keeps(u, v) /\ Stays(u, v) /\ v.quota = s.quota
      /\ v.operations[o].current_attempt_id = nextAttempt(s)
      /\ v.attempts[nextAttempt(s)].operation = o
  BY <1>3, ScheduleKeeps, ScheduleStays DEF v
<1>5. t = countQuotas(v, {admissionLimit(who)}, id)
  BY <1>1, <1>4
<1>6. t.operations = v.operations /\ t.attempts = v.attempts
  <2>1. {admissionLimit(who)} \in SUBSET Limits /\ id \in Ids
    BY <1>2, LimitsOf DEF Ids, AttemptId
  <2> HIDE DEF who, id
  <2>2. QED
    BY <1>4, <1>5, <2>1, CountForm
<1>7. \A q \in v.quota : q.id # id
  <2>1. s.attempts[nextAttempt(s)].state = "unused"
    BY NextIsFree DEF AttemptId
  <2>2. s.attempts[nextAttempt(s)].operation = None
    BY <2>1 DEF Linked
  <2>3. QED
    BY <1>4, <2>2 DEF EventsOK, EventOK
<1>8. t.quota = s.quota \cup eventsOf({admissionLimit(who)}, id)
  <2> HIDE DEF who, id
  <2>1. QED
    BY <1>4, <1>5, <1>7, CountAdds
<1>9. Stays(v, t)
  BY <1>6 DEF Stays
<1>10. Stays(s, t)
  <2>1. Keeps(s, v)
    BY <1>3, <1>4, KeepsAlong
  <2>2. Stays(s, v)
    BY <1>3, <1>4, StaysAlong
  <2>3. QED
    BY <1>9, <2>1, <2>2, StaysAlong
<1>11. QED
  BY <1>4, <1>6, <1>8, <1>10 DEF t

LEMMA ReserveBooks ==
  ASSUME NEW s \in Tables, Linked(s), EventsOK(s, clock), NEW a \in AttemptId,
         s.attempts[a].state = "pending", NEW who \in Recipient, clock \in Nat
  PROVE  LET t  == reserve(s, a, who)
             id == <<"attempt", a>>
         IN  /\ Stays(s, t)
             /\ t.attempts[a].state = "dispatching"
             /\ t.quota = {q \in s.quota : ~(q.kind = "admission" /\ q.id = id)}
                            \cup eventsOf(sendLimits(who), id)
                            \cup {event(who, "admission", id, clock)}
<1> DEFINE o == s.attempts[a].operation
<1> DEFINE at == IF s.operations[o].next_user_send_at > clock + resendCooldown
                 THEN s.operations[o].next_user_send_at ELSE clock + resendCooldown
<1> DEFINE row == [s.operations[o] EXCEPT !.next_user_send_at = at]
<1> DEFINE u == [s EXCEPT !.attempts[a].state = "dispatching"]
<1> DEFINE v == [u EXCEPT !.operations = [s.operations EXCEPT ![o] = row]]
<1> DEFINE id == <<"attempt", a>>
<1> DEFINE x == countQuotas(v, sendLimits(who), id)
<1> DEFINE t == reserve(s, a, who)
<1>1. o \in OperationId /\ s.operations[o] \in Operation
  BY TablesOf DEF Attempt, Linked
<1>2. row \in Operation /\ row.recipient = s.operations[o].recipient
  <2>1. s.operations[o].next_user_send_at \in Nat /\ clock + resendCooldown \in Nat
    BY <1>1, DurationAssumption DEF Operation
  <2>2. at \in Nat
    BY <2>1
  <2> HIDE DEF at
  <2>3. QED
    BY <1>1, <2>2 DEF Operation
<1>3. t = extendAdmission(x, who, id)
  <2>1. [s.operations EXCEPT ![o].next_user_send_at = at] = [s.operations EXCEPT ![o] = row]
    BY TablesOf
  <2>2. [s EXCEPT !.attempts[a].state = "dispatching",
                  !.operations[o].next_user_send_at = at]
          = [u EXCEPT !.operations = [s.operations EXCEPT ![o].next_user_send_at = at]]
    BY DEF Tables
  <2>3. QED
    BY <2>1, <2>2 DEF reserve
<1>4. /\ u \in Tables /\ Keeps(s, u) /\ Stays(s, u)
      /\ u.operations = s.operations /\ u.quota = s.quota
      /\ u.attempts[a].state = "dispatching"
  <2>1. u \in Tables /\ Keeps(s, u) /\ u.operations = s.operations
    BY MoveKeeps
  <2>2. Stays(s, u) /\ u.quota = s.quota /\ u.attempts[a].state = "dispatching"
    BY MoveStays DEF Sending
  <2>3. QED
    BY <2>1, <2>2
<1> HIDE DEF u, row, t, at
<1>5. /\ v \in Tables /\ v.operations = [s.operations EXCEPT ![o] = row]
      /\ v.attempts = u.attempts /\ v.quota = s.quota
  BY <1>2, <1>4, TablesOf DEF Tables
<1> HIDE DEF v, o
<1>6. id \in Ids /\ sendLimits(who) \in SUBSET Limits
  BY LimitsOf DEF Ids, AttemptId
<1>7. \A l \in sendLimits(who) : l.kind = "send"
  BY DEF sendLimits, commonSendLimits, providerSendLimits, recipientLimit, limit
<1>8. \A q \in v.quota : \A l \in sendLimits(who) : q.kind = l.kind => q.id # id
  <2>1. \A q \in s.quota : q.kind = "send" => q.id # id
    BY DEF EventsOK, EventOK, Sending
  <2>2. QED
    BY <1>5, <1>7, <2>1
<1> HIDE DEF id
<1>9. x \in Tables /\ x.operations = v.operations /\ x.attempts = v.attempts
  BY <1>5, <1>6, CountForm
<1>10. x.quota = s.quota \cup eventsOf(sendLimits(who), id)
  BY <1>5, <1>8, CountAdds
<1> HIDE DEF x
<1>11. t.operations = v.operations /\ t.attempts = v.attempts
  BY <1>3, <1>6, <1>9, ExtendForm
<1>12. t.quota = {q \in x.quota : ~(q.kind = "admission" /\ q.id = id)}
                   \cup {event(who, "admission", id, clock)}
  BY <1>3, <1>9, ExtendAdds
<1>13. \A q \in eventsOf(sendLimits(who), id) : q.kind = "send"
  BY <1>7 DEF eventsOf, event
<1>14. {q \in x.quota : ~(q.kind = "admission" /\ q.id = id)}
         = {q \in s.quota : ~(q.kind = "admission" /\ q.id = id)} \cup eventsOf(sendLimits(who), id)
  BY <1>10, <1>13
<1>15. Stays(u, t)
  BY <1>1, <1>2, <1>4, <1>5, <1>11, TablesOf DEF Stays
<1>16. Stays(s, t)
  BY <1>4, <1>15, StaysAlong
<1>17. QED
  BY <1>4, <1>5, <1>11, <1>12, <1>14, <1>16 DEF t, id

-----------------------------------------------------------------------------
(***************************************************************************)
(* The steps, with their quotas.                                           *)
(***************************************************************************)
\* A session enters with the limits it found open, and the locks of those it may use up.
LEMMA EntersClaims ==
  ASSUME QuotaInv, AdmissionInv', NEW w \in Session, NEW pc, NEW r, NEW a,
         NEW limits \in SUBSET Limits, NEW locks, enters(w, pc, r, a, limits, locks),
         pc = "decide" => \A x : (x.request = r /\ x.attempt = a) =>
           claims(db, x) \subseteq limits /\ lockQuotas(claims(db, x)) \subseteq locks
  PROVE  QuotaInv'
<1> DEFINE row == [pc |-> pc, request |-> r, attempt |-> a, held |-> locks,
                   blocked |-> quotaBlocks(db, limits) # {}]
<1>1. /\ db' = db /\ clock' = clock /\ log' = log
      /\ session' = [session EXCEPT ![w] = row]
  BY DEF enters
<1>2. /\ row.pc = pc /\ row.request = r /\ row.attempt = a /\ row.held = locks
      /\ ~row.blocked => quotaBlocks(db, limits) = {}
  OBVIOUS
<1> HIDE DEF row
<1>3. /\ session'[w] = row /\ \A v \in Session : v # w => session'[v] = session[v]
  BY <1>1 DEF QuotaInv, AdmissionInv, TypeOK
<1>4. ASSUME NEW l \in limits, quotaBlocks(db, limits) = {}
      PROVE  Cardinality(counting(db.quota, l, clock)) < l.maximum
  <2>1. ~(Cardinality(counting(db.quota, l, clock)) >= l.maximum)
    BY <1>4 DEF quotaBlocks, counting
  <2>2. IsFiniteSet(counting(db.quota, l, clock))
    BY FS_Subset DEF QuotaInv, EventsOK, counting
  <2>3. Cardinality(counting(db.quota, l, clock)) \in Nat /\ l.maximum \in Nat
    BY <2>2, FS_CardinalityType DEF Limits
  <2>4. QED
    BY <2>1, <2>3
<1>5. ASSUME NEW v \in Session, session'[v].pc = "decide"
      PROVE  /\ lockQuotas(claims(db, session'[v])) \subseteq session'[v].held
             /\ ~session'[v].blocked =>
                  \A l \in claims(db, session'[v]) :
                    Cardinality(counting(db.quota, l, clock)) < l.maximum
  <2>1. CASE v # w
    BY <1>3, <1>5, <2>1 DEF QuotaInv, Claimed
  <2>2. CASE v = w
    <3>1. claims(db, row) \subseteq limits /\ lockQuotas(claims(db, row)) \subseteq locks
      BY <1>2, <1>3, <1>5, <2>2
    <3>2. QED
      BY <1>2, <1>3, <1>4, <2>2, <3>1
  <2>3. QED
    BY <2>1, <2>2
<1>6. Claimed'
  BY <1>1, <1>5 DEF Claimed, claims, recipientFor
<1>7. QED
  BY <1>1, <1>6
     DEF QuotaInv, QuotasHold, RollingLimits, RecipientIsLeftAlone, within, ofRecipient, sent

\* A request claims the limits it locks.
LEMMA RequestClaims ==
  ASSUME db \in Tables, NEW r \in Request
  PROVE  /\ checkedLimits(r) \in SUBSET Limits
         /\ \A x : x.request = r =>
              /\ claims(db, x) \subseteq checkedLimits(r)
              /\ lockQuotas(claims(db, x)) \subseteq requestLocks(r)
<1>1. recipientOf(r) \in Recipient
  BY Fields, TablesOf DEF recipientOf, Operation
<1>2. checkedLimits(r) \in SUBSET Limits
  BY <1>1, LimitsOf DEF checkedLimits, lockedLimits
<1>3. ASSUME NEW x, x.request = r
      PROVE  claims(db, x) = lockedLimits(r)
  BY <1>3, AbsenceAssumption DEF claims, recipientFor, recipientOf, lockedLimits
<1>4. QED
  BY <1>2, <1>3 DEF checkedLimits, requestLocks

\* Steps that log nothing.
LEMMA ReplayHolds ==
  ASSUME QuotaInv, AdmissionInv', NEW w \in Session, NEW r \in Request, Replay(w, r)
  PROVE  QuotaInv'
<1> DEFINE s == replayed(db, r)
<1> DEFINE o == db.receipts[identity(r)].operation
<1>1. clock \in Nat /\ db \in Tables /\ Linked(db)
  BY TypeFacts DEF QuotaInv, AdmissionInv
<1>2. identity(r) \in Identity /\ db.receipts[identity(r)] # NoReceipt
  BY Targets DEF Replay, unknown
<1>3. o \in OperationId
  BY <1>1, <1>2, TablesOf DEF Receipt
<1>4. s = expire(db, o)
  BY <1>2 DEF replayed
<1>5. Keeps(db, s) /\ Stays(db, s) /\ s.quota = db.quota
  BY <1>1, <1>3, <1>4, ExpireKeeps, ExpireStays
<1>6. clock' = clock /\ log' = log /\ leave(w) /\ (db' = s \/ db' = db)
  BY DEF Replay
<1> HIDE DEF s
<1>7. Continues(db, db') /\ db'.quota = db.quota
  BY <1>5, <1>6, KeepsContinues, ContinuesItself
<1>8. QED
  BY <1>6, <1>7, StillStep

LEMMA LookupHolds ==
  ASSUME QuotaInv, AdmissionInv', NEW w \in Session, NEW r \in Request, Lookup(w, r)
  PROVE  QuotaInv'
<1>1. CASE Replay(w, r)
  BY <1>1, ReplayHolds
<1>2. CASE enters(w, "prepared", r, None, {}, {})
  BY <1>2, EntersClaims
<1>3. QED
  BY <1>1, <1>2 DEF Lookup

LEMMA EnterHolds ==
  ASSUME QuotaInv, AdmissionInv', NEW w \in Session, NEW r \in Request,
         enters(w, "decide", r, None, checkedLimits(r), requestLocks(r))
  PROVE  QuotaInv'
<1>1. db \in Tables
  BY TypeFacts DEF QuotaInv, AdmissionInv
<1>2. QED
  BY <1>1, RequestClaims, EntersClaims

LEMMA EnterGateHolds ==
  ASSUME QuotaInv, AdmissionInv', NEW w \in Session, NEW a \in AttemptId, EnterGate(w, a)
  PROVE  QuotaInv'
<1> DEFINE o == db.attempts[a].operation
<1> DEFINE limits == sendLimits(db.operations[o].recipient)
<1> DEFINE locks == operationLock(o) \cup lockQuotas(limits)
<1>1. db \in Tables /\ Linked(db)
  BY TypeFacts DEF QuotaInv, AdmissionInv
<1>2. o \in OperationId
  <2>1. db.attempts[a].state = "pending"
    BY DEF EnterGate
  <2>2. db.attempts[a].operation \in OperationId \cup {None}
    BY <1>1, TablesOf DEF Attempt
  <2>3. QED
    BY <1>1, <2>1, <2>2 DEF Linked
<1>3. limits \in SUBSET Limits
  <2>1. db.operations[o].recipient \in Recipient
    BY <1>1, <1>2, TablesOf DEF Operation
  <2>2. QED
    BY <2>1, LimitsOf
<1>4. enters(w, "decide", NoRequest, a, limits, locks)
  BY DEF EnterGate
<1>5. \A x : (x.request = NoRequest /\ x.attempt = a) => claims(db, x) = limits
  BY DEF claims, recipientFor
<1> HIDE DEF limits
<1>6. \A x : (x.request = NoRequest /\ x.attempt = a) =>
        claims(db, x) \subseteq limits /\ lockQuotas(claims(db, x)) \subseteq locks
  BY <1>5
<1> HIDE DEF locks
<1>7. QED
  BY <1>3, <1>4, <1>6, EntersClaims

\* Rows that keep what was and every event: whether the session refuses or executes.
LEMMA KeptStep ==
  ASSUME QuotaInv, AdmissionInv', clock' = clock, log' = log, NEW w \in Session, leave(w),
         Continues(db, db'), db'.quota = db.quota
  PROVE  QuotaInv'
BY StillStep

\* A receipt is saved beside the rows it is about.
LEMMA SaveContinues ==
  ASSUME NEW u \in Tables, Continues(db, u), NEW r \in Request, NEW o \in OperationId,
         clock \in Nat
  PROVE  LET t == save(u, r, o)
         IN  /\ t.operations = u.operations /\ t.attempts = u.attempts /\ t.quota = u.quota
             /\ Continues(db, t)
<1> DEFINE t == save(u, r, o)
<1>1. t.operations = u.operations /\ t.attempts = u.attempts /\ t.quota = u.quota
  BY SaveForm
<1> HIDE DEF t
<1>2. Continues(db, t)
  BY <1>1 DEF Continues, Stays, used
<1>3. QED
  BY <1>1, <1>2 DEF t

LEMMA SubmitHolds ==
  ASSUME QuotaInv, AdmissionInv', NEW w \in Session, Submit(w)
  PROVE  QuotaInv'
<1> DEFINE r == session[w].request
<1> DEFINE o == r.target
<1> DEFINE s == expire(db, o)
<1> DEFINE u == attachCode(s, o, r.code)
<1>1. /\ r \in Request /\ r.name = "submit" /\ o \in OperationId
      /\ clock \in Nat /\ db \in Tables /\ Linked(db)
  BY Decides DEF QuotaInv, Submit
<1>2. clock' = clock
  BY DEF Submit
<1>3. /\ s \in Tables /\ Linked(s) /\ Keeps(db, s) /\ Stays(db, s) /\ s.quota = db.quota
  BY <1>1, ExpireKeeps, ExpireStays
<1>4. CASE refuse(w, s)
  BY <1>2, <1>3, <1>4, KeepsContinues, KeptStep DEF refuse
<1>5. CASE /\ live(s, o)
           /\ s.operations[o].code # r.code => nextAttempt(s) \in AttemptId
           /\ execute(w, u, o)
           /\ log' = log
  <2>1. r.code \in Code
    BY <1>1, Fields
  <2> HIDE DEF s, r
  <2>2. u \in Tables /\ Keeps(s, u) /\ Stays(s, u) /\ u.quota = s.quota
    BY <1>1, <1>3, <1>5, <2>1, AttachKeeps, AttachStays
  <2> HIDE DEF u
  <2>3. Continues(db, u)
    BY <1>3, <2>2, KeepsContinues, ContinuesAlong
  <2>4. db' = save(u, r, o) /\ leave(w)
    BY <1>5 DEF execute, r
  <2>5. QED
    BY <1>1, <1>2, <1>3, <1>5, <2>2, <2>3, <2>4, SaveContinues, KeptStep
<1>6. CASE live(s, o) /\ reject(w, s, o, r.code) /\ log' = log
  <2>1. r.code \in Code
    BY <1>1, Fields
  <2> DEFINE v == storeCode(s, o, r.code)
  <2>2. db' = v /\ leave(w)
    BY <1>6 DEF reject
  <2> HIDE DEF s, r
  <2>3. Keeps(s, v) /\ Stays(s, v) /\ v.quota = s.quota
    BY <1>1, <1>3, <1>6, <2>1, StoreKeeps, StoreStays
  <2> HIDE DEF v
  <2>4. Continues(db, v)
    BY <1>3, <2>3, KeepsContinues, ContinuesAlong
  <2>5. QED
    BY <1>2, <1>3, <1>6, <2>2, <2>3, <2>4, KeptStep
<1>7. QED
  BY <1>4, <1>5, <1>6 DEF Submit, attachable

LEMMA CloseHolds ==
  ASSUME QuotaInv, AdmissionInv', NEW w \in Session, Close(w)
  PROVE  QuotaInv'
<1> DEFINE r == session[w].request
<1> DEFINE o == r.target
<1> DEFINE s == expire(db, o)
<1> DEFINE u == IF live(s, o) THEN terminate(s, o, "closed") ELSE s
<1>1. /\ r \in Request /\ r.name = "close" /\ o \in OperationId
      /\ clock \in Nat /\ db \in Tables /\ Linked(db)
  BY Decides DEF QuotaInv, Close
<1>2. clock' = clock /\ log' = log /\ db' = save(u, r, o) /\ leave(w)
  BY DEF Close, execute
<1>3. /\ s \in Tables /\ Linked(s) /\ Keeps(db, s) /\ Stays(db, s) /\ s.quota = db.quota
  BY <1>1, ExpireKeeps, ExpireStays
<1> HIDE DEF s
<1>4. u \in Tables /\ Continues(s, u) /\ u.quota = s.quota
  <2>1. "closed" \in Terminal
    BY DEF Terminal
  <2>2. CASE live(s, o)
    BY <1>1, <1>3, <2>1, <2>2, TerminateKeeps, TerminateStays, KeepsContinues
  <2>3. CASE ~live(s, o)
    BY <1>3, <2>3, ContinuesItself
  <2>4. QED
    BY <2>2, <2>3
<1> HIDE DEF u, r
<1>5. Continues(db, u)
  BY <1>3, <1>4, KeepsContinues, ContinuesAlong
<1>6. QED
  BY <1>1, <1>2, <1>3, <1>4, <1>5, SaveContinues, KeptStep

LEMMA RecordOutcomeHolds ==
  ASSUME QuotaInv, AdmissionInv', NEW a \in AttemptId, RecordOutcome(a)
  PROVE  QuotaInv'
<1> DEFINE o == db.attempts[a].operation
<1> DEFINE s == expire(db, o)
<1>1. /\ clock \in Nat /\ db \in Tables /\ Linked(db)
      /\ clock' = clock /\ session' = session /\ log' = log
      /\ db.attempts[a].state = "dispatching"
      /\ db' = [s EXCEPT !.attempts[a].state = "done"]
  BY TypeFacts DEF QuotaInv, AdmissionInv, RecordOutcome
<1>2. o \in OperationId
  <2>1. db.attempts[a].operation \in OperationId \cup {None}
    BY <1>1, TablesOf DEF Attempt
  <2>2. QED
    BY <1>1, <2>1 DEF Linked
<1>3. /\ s \in Tables /\ Linked(s) /\ Keeps(db, s) /\ s.attempts[a].state = "dispatching"
      /\ Stays(db, s) /\ s.quota = db.quota
  BY <1>1, <1>2, ExpireKeeps, ExpireAttempts, ExpireStays
<1> HIDE DEF s
<1>4. Keeps(s, db') /\ Stays(s, db') /\ db'.quota = s.quota
  BY <1>1, <1>3, MoveKeeps, MoveStays DEF Sending
<1>5. Continues(db, db')
  BY <1>3, <1>4, KeepsContinues, ContinuesAlong
<1>6. QED
  BY <1>1, <1>3, <1>4, <1>5, StillStep

LEMMA AbortHolds ==
  ASSUME QuotaInv, AdmissionInv', NEW w \in Session, Abort(w)
  PROVE  QuotaInv'
BY ContinuesItself, KeptStep DEF Abort

LEMMA CleanupHolds ==
  ASSUME QuotaInv, AdmissionInv', Cleanup
  PROVE  QuotaInv'
<1>1. /\ clock \in Nat /\ db \in Tables /\ Linked(db)
      /\ clock' = clock /\ session' = session /\ log' = log /\ db' = cleanupBatch
  BY TypeFacts DEF QuotaInv, AdmissionInv, Cleanup
<1>2. /\ Preserves(db, db', clock) /\ Stays(db, db')
      /\ db'.quota = {q \in db.quota : ~outdated(q)}
  BY <1>1, CleanupPreserves, CleanupStays
<1>3. Continues(db, db')
  BY <1>2 DEF Continues, Preserves
<1>4. \A q \in db.quota : q.at > clock - Day => ~outdated(q)
  <2>1. \A q \in db.quota : q.at \in Nat
    BY <1>1, TablesOf DEF Event
  <2>2. QED
    BY <1>1, <2>1, DurationAssumption DEF outdated
<1>5. QED
  BY <1>1, <1>2, <1>3, <1>4, StillStep

\* Time passes: what counted may count no longer, and nobody decides.
LEMMA TickHolds ==
  ASSUME QuotaInv, AdmissionInv', Tick
  PROVE  QuotaInv'
<1>1. /\ db' = db /\ session' = session /\ log' = log /\ clock' = clock + 1
      /\ \A w \in Session : session[w].pc # "decide"
  BY DEF Tick
<1>2. clock \in Nat /\ db.quota \subseteq Event /\ Day \in Nat
  BY TypeFacts, TablesOf, DurationAssumption DEF QuotaInv, AdmissionInv
<1>3. \A e \in log : e.at \in Nat /\ e.at <= clock
  BY DEF QuotaInv, LogOK, EntryOK
<1>4. LogOK(db', log', clock')
  BY <1>1, <1>2, <1>3 DEF QuotaInv, LogOK, EntryOK
<1>5. EventsOK(db', clock')
  <2>1. \A q \in db.quota : q.at \in Nat /\ q.at <= clock + 1
    BY <1>2 DEF QuotaInv, EventsOK, EventOK, Event
  <2>2. QED
    BY <1>1, <2>1 DEF QuotaInv, EventsOK, EventOK
<1>6. Counted(db', log', clock')
  <2>1. \A e \in log : e.at > (clock + 1) - Day => e.at > clock - Day
    BY <1>2, <1>3
  <2>2. QED
    BY <1>1, <2>1 DEF QuotaInv, Counted
<1>7. Claimed'
  BY <1>1 DEF Claimed
<1>8. QuotasHold'
  BY <1>1
     DEF QuotaInv, QuotasHold, RollingLimits, RecipientIsLeftAlone, within, ofRecipient, sent
<1>9. QED
  BY <1>4, <1>5, <1>6, <1>7, <1>8 DEF QuotaInv

\* Steps that book.  An identifier without events books beside all of them.
LEMMA NothingMoves ==
  ASSUME NEW quota, NEW id, \A q \in quota : q.id # id
  PROVE  {q \in quota : ~(q.kind = "admission" /\ q.id = id)} = quota
OBVIOUS

LEMMA FiniteEvents ==
  ASSUME NEW x, NEW y, NEW z
  PROVE  IsFiniteSet({x}) /\ IsFiniteSet({x, y}) /\ IsFiniteSet({x, y, z})
<1>1. IsFiniteSet({x})
  BY FS_Singleton
<1>2. IsFiniteSet({x} \cup {y})
  BY <1>1, FS_AddElement
<1>3. IsFiniteSet({x} \cup {y} \cup {z})
  BY <1>2, FS_AddElement
<1>4. {x} \cup {y} = {x, y} /\ {x} \cup {y} \cup {z} = {x, y, z}
  OBVIOUS
<1>5. QED
  BY <1>1, <1>2, <1>3, <1>4

LEMMA FiniteBookings ==
  ASSUME NEW who, NEW id
  PROVE  /\ IsFiniteSet(eventsOf(admissionLimits(who), id))
         /\ IsFiniteSet(eventsOf({admissionLimit(who)}, id))
         /\ IsFiniteSet(eventsOf(sendLimits(who), id))
<1>1. IsFiniteSet(eventsOf(admissionLimits(who), id))
  <2>1. IsFiniteSet({event(who, "create", id, clock), event(who, "admission", id, clock)})
    BY FiniteEvents
  <2>2. QED
    BY <2>1, EventsOfLimits
<1>2. IsFiniteSet(eventsOf({admissionLimit(who)}, id))
  <2>1. IsFiniteSet({event(who, "admission", id, clock)})
    BY FiniteEvents
  <2>2. QED
    BY <2>1, EventsOfLimits
<1>3. IsFiniteSet(eventsOf(sendLimits(who), id))
  <2>1. IsFiniteSet({event(who, "send", id, clock), event(Deployment, "send", id, clock),
                     event(Shared, "send", id, clock)})
    BY FiniteEvents
  <2>2. QED
    BY <2>1, EventsOfLimits
<1>4. QED
  BY <1>1, <1>2, <1>3

\* The events of a claim are in scopes the session holds.
LEMMA InHeldScopes ==
  ASSUME NEW limits, NEW c, limits \subseteq c, NEW id
  PROVE  \A q \in eventsOf(limits, id) :
           q.id = id /\ q.at = clock /\ <<"quota", q.scope>> \in lockQuotas(c)
BY DEF eventsOf, event, lockQuotas

LEMMA AdmitHolds ==
  ASSUME QuotaInv, AdmissionInv', NEW w \in Session, Admit(w)
  PROVE  QuotaInv'
<1> DEFINE r == session[w].request
<1> DEFINE who == r.recipient
<1> DEFINE o == nextOperation(db)
<1> DEFINE id == <<"operation", o>>
<1> DEFINE s == admitOperation(db, r)
<1> DEFINE u == IF r.name = "create" THEN attachCode(s, o, r.code) ELSE s
<1> DEFINE added == eventsOf(admissionLimits(who), id)
<1>1. /\ session[w].pc = "decide" /\ r \in Request /\ r.target = None
      /\ r.name \in {"prepare", "create"}
      /\ clock \in Nat /\ db \in Tables /\ Linked(db)
  BY Decides DEF QuotaInv, Admit
<1>2. clock' = clock
  BY DEF Admit
<1>3. CASE refuse(w, db)
  BY <1>2, <1>3, ContinuesItself, KeptStep DEF refuse
<1>4. CASE /\ ~session[w].blocked
           /\ o \in OperationId
           /\ r.name = "create" => nextAttempt(db) \in AttemptId
           /\ execute(w, u, o)
           /\ logged("create", who, o, id)
  <2>1. /\ s \in Tables /\ Linked(s) /\ Keeps(db, s) /\ live(s, o)
        /\ s.operations[o].code = NoCode
        /\ s.attempts = db.attempts
    BY <1>1, <1>4, AdmitKeeps
  <2>2. /\ Stays(db, s) /\ s.operations[o].recipient = who
        /\ s.quota = db.quota \cup added
    BY <1>1, <1>4, AdmitBooks DEF QuotaInv
  <2>3. ~used(db, o)
    BY <1>1, <1>4, NextIsFree DEF OperationId
  <2> HIDE DEF s, o, added, id
  <2>4. u \in Tables /\ Keeps(s, u) /\ Stays(s, u) /\ u.quota = s.quota
    <3>1. CASE r.name = "create"
      <4>1. nextAttempt(s) \in AttemptId
        BY <1>4, <2>1, <3>1 DEF nextAttempt
      <4>2. r.code \in Code
        BY <1>1, <3>1, Fields
      <4>3. QED
        BY <1>1, <1>4, <2>1, <3>1, <4>1, <4>2, AttachKeeps, AttachStays
    <3>2. CASE r.name # "create"
      BY <2>1, <3>2, KeepsItself DEF Stays
    <3>3. QED
      BY <3>1, <3>2
  <2> HIDE DEF u
  <2>5. Continues(db, u)
    BY <2>1, <2>2, <2>4, KeepsContinues, ContinuesAlong
  <2>6. used(u, o) /\ u.operations[o].recipient = who
    BY <1>4, <2>1, <2>2, <2>4 DEF Keeps, Stays, used, live
  <2>7. db' = save(u, r, o) /\ leave(w)
    BY <1>4 DEF execute
  <2>8. /\ db'.operations = u.operations /\ db'.quota = db.quota \cup added
        /\ Continues(db, db')
    BY <1>1, <1>4, <2>2, <2>4, <2>5, <2>7, SaveContinues
  <2>9. who = recipientFor(db, session[w]) /\ admissionLimits(who) \subseteq claims(db, session[w])
    BY <1>1, AbsenceAssumption DEF recipientFor, claims
  <2>10. \A q \in db.quota : q.id # id
    BY <2>3 DEF QuotaInv, EventsOK, EventOK, id
  <2>11. /\ added = {event(who, "create", id, clock), event(who, "admission", id, clock)}
         /\ IsFiniteSet(added)
    BY EventsOfLimits, FiniteBookings DEF added
  <2>12. \A q \in added : /\ q.id = id /\ q.at = clock /\ q.kind # "send"
                          /\ <<"quota", q.scope>> \in lockQuotas(claims(db, session[w]))
    <3>1. \A q \in added : q.kind # "send"
      BY <2>11 DEF event
    <3>2. \A q \in added : /\ q.id = id /\ q.at = clock
                           /\ <<"quota", q.scope>> \in lockQuotas(claims(db, session[w]))
      BY <2>9, InHeldScopes DEF added
    <3>3. QED
      BY <3>1, <3>2
  <2>13. db'.quota = {q \in db.quota : ~(q.kind = "admission" /\ q.id = id)} \cup added
    BY <2>8, <2>10, NothingMoves
  <2>14. used(db', o) /\ db'.operations[o].recipient = who
    BY <2>6, <2>8 DEF used
  <2> HIDE DEF r
  <2>15. QED
    BY <1>1, <1>2, <1>4, <2>3, <2>7, <2>8, <2>9, <2>11, <2>12, <2>13, <2>14, BookingStep DEF id
<1>5. QED
  BY <1>3, <1>4 DEF Admit

LEMMA DeliverHolds ==
  ASSUME QuotaInv, AdmissionInv', NEW w \in Session, Deliver(w)
  PROVE  QuotaInv'
<1> DEFINE r == session[w].request
<1> DEFINE o == r.target
<1> DEFINE s == expire(db, o)
<1> DEFINE who == db.operations[o].recipient
<1> DEFINE a == nextAttempt(db)
<1> DEFINE id == <<"attempt", a>>
<1> DEFINE u == requestSend(db, o)
<1> DEFINE added == eventsOf({admissionLimit(who)}, id)
<1>1. /\ session[w].pc = "decide" /\ r \in Request /\ r.name = "deliver"
      /\ o # None /\ o \in OperationId /\ used(db, o)
      /\ clock \in Nat /\ db \in Tables /\ Linked(db)
  BY Decides DEF QuotaInv, Deliver
<1>2. clock' = clock
  BY DEF Deliver
<1>3. /\ s \in Tables /\ Keeps(db, s) /\ Stays(db, s) /\ s.quota = db.quota
      /\ live(s, o) => s = db
  BY <1>1, ExpireKeeps, ExpireStays
<1>4. CASE refuse(w, s)
  BY <1>2, <1>3, <1>4, KeepsContinues, KeptStep DEF refuse
<1>5. CASE /\ s.operations[o].state = "active" /\ s.operations[o].current_attempt_id # None
           /\ ~userSendBlock(s, o, session[w].blocked)
           /\ nextAttempt(s) \in AttemptId
           /\ execute(w, requestSend(s, o), o)
           /\ logged("deliver", s.operations[o].recipient, o, <<"attempt", nextAttempt(s)>>)
  <2>1. s = db /\ live(db, o)
    <3>1. live(s, o)
      BY <1>5 DEF live
    <3>2. QED
      BY <1>3, <3>1
  <2>2. /\ ~session[w].blocked /\ a \in AttemptId
        /\ execute(w, u, o)
        /\ logged("deliver", who, o, id)
    BY <1>5, <2>1 DEF userSendBlock
  <2> HIDE DEF s
  <2>3. u \in Tables /\ Keeps(db, u)
    BY <1>1, <2>1, <2>2, RequestSendKeeps
  <2>4. /\ Stays(db, u) /\ u.attempts[a].operation = o
        /\ u.quota = db.quota \cup added
    BY <1>1, <2>1, <2>2, RequestSendBooks DEF QuotaInv
  <2>5. db.attempts[a].operation = None
    <3>1. db.attempts[a].state = "unused"
      BY <1>1, <2>2, NextIsFree DEF AttemptId
    <3>2. QED
      BY <1>1, <2>2, <3>1 DEF Linked
  <2> HIDE DEF a, added, u
  <2>6. db' = save(u, r, o) /\ leave(w)
    BY <2>2 DEF execute
  <2>7. /\ db'.operations = u.operations /\ db'.attempts = u.attempts
        /\ db'.quota = db.quota \cup added /\ Continues(db, db')
    BY <1>1, <2>3, <2>4, <2>6, KeepsContinues, SaveContinues
  <2>8. /\ used(db', o) /\ db'.operations[o].recipient = who /\ db'.attempts[a].operation = o
    BY <1>1, <2>4, <2>7 DEF Continues, Stays
  <2>9. who = recipientFor(db, session[w]) /\ admissionLimit(who) \in claims(db, session[w])
    <3>1. who = recipientFor(db, session[w])
      BY <1>1, AbsenceAssumption DEF recipientFor
    <3>2. admissionLimit(who) \in admissionLimits(who) /\ admissionLimit(who).kind = "admission"
      BY DEF admissionLimits, admissionLimit, limit
    <3>3. QED
      BY <1>1, <3>1, <3>2, AbsenceAssumption DEF claims
  <2>10. \A q \in db.quota : q.id # id
    BY <2>5 DEF QuotaInv, EventsOK, EventOK
  <2> HIDE DEF id
  <2>11. added = {event(who, "admission", id, clock)} /\ IsFiniteSet(added)
    BY EventsOfLimits, FiniteBookings DEF added
  <2>12. \A q \in added : /\ q.id = id /\ q.at = clock /\ q.kind # "send"
                          /\ <<"quota", q.scope>> \in lockQuotas(claims(db, session[w]))
    <3>1. \A q \in added : q.kind # "send"
      BY <2>11 DEF event
    <3>2. {admissionLimit(who)} \subseteq claims(db, session[w])
      BY <2>9
    <3>3. \A q \in added : /\ q.id = id /\ q.at = clock
                           /\ <<"quota", q.scope>> \in lockQuotas(claims(db, session[w]))
      BY <3>2, InHeldScopes DEF added
    <3>4. QED
      BY <3>1, <3>3
  <2>13. db'.quota = {q \in db.quota : ~(q.kind = "admission" /\ q.id = id)} \cup added
    BY <2>7, <2>10, NothingMoves
  <2>14. \E b \in AttemptId : /\ id = <<"attempt", b>> /\ db'.attempts[b].operation = o
                              /\ db.attempts[b].operation = None
    BY <2>2, <2>5, <2>8 DEF id
  <2> HIDE DEF r
  <2>15. QED
    BY <1>1, <1>2, <2>2, <2>6, <2>7, <2>8, <2>9, <2>11, <2>12, <2>13, <2>14, BookingStep DEF o
<1>6. QED
  BY <1>4, <1>5 DEF Deliver

LEMMA GateHolds ==
  ASSUME QuotaInv, AdmissionInv', NEW w \in Session, Gate(w)
  PROVE  QuotaInv'
<1> DEFINE a == session[w].attempt
<1> DEFINE o == db.attempts[a].operation
<1> DEFINE s == expire(db, o)
<1> DEFINE who == db.operations[o].recipient
<1> DEFINE id == <<"attempt", a>>
<1> DEFINE booked == eventsOf(sendLimits(who), id)
<1> DEFINE admitted == {event(who, "admission", id, clock)}
<1>1. /\ clock \in Nat /\ db \in Tables /\ Linked(db) /\ clock' = clock
      /\ session[w].pc = "decide" /\ session[w].request = NoRequest
  BY TypeFacts DEF QuotaInv, AdmissionInv, Gate
<1>2. a \in AttemptId /\ o \in OperationId /\ used(db, o)
  <2>1. a \in AttemptId /\ o # None
    BY <1>1 DEF QuotaInv, AdmissionInv, Sessions
  <2>2. db.attempts[a].operation \in OperationId \cup {None}
    BY <1>1, <2>1, TablesOf DEF Attempt
  <2>3. QED
    BY <1>1, <2>1, <2>2 DEF Linked
<1>3. /\ s \in Tables /\ Linked(s) /\ Keeps(db, s) /\ Stays(db, s) /\ s.quota = db.quota
      /\ live(s, o) => s = db
  BY <1>1, <1>2, ExpireKeeps, ExpireStays
<1>4. CASE refuse(w, s)
  BY <1>1, <1>3, <1>4, KeepsContinues, KeptStep DEF refuse
<1>5. CASE s.attempts[a].state = "pending" /\ refuse(w, [s EXCEPT !.attempts[a].state = "suppressed"])
  <2> DEFINE u == [s EXCEPT !.attempts[a].state = "suppressed"]
  <2> HIDE DEF s, a
  <2>1. Keeps(s, u) /\ Stays(s, u) /\ u.quota = s.quota
    BY <1>2, <1>3, <1>5, MoveKeeps, MoveStays DEF Sending
  <2>2. db' = u /\ log' = log /\ leave(w)
    BY <1>5 DEF refuse
  <2> HIDE DEF u
  <2>3. Continues(db, u)
    BY <1>3, <2>1, KeepsContinues, ContinuesAlong
  <2>4. QED
    BY <1>1, <1>3, <2>1, <2>2, <2>3, KeptStep
<1>6. CASE /\ s.attempts[a].state = "pending" /\ ~session[w].blocked
           /\ db' = reserve(s, a, s.operations[o].recipient)
           /\ logged("send", s.operations[o].recipient, o, <<"attempt", a>>)
           /\ leave(w)
  <2>1. s = db
    <3>1. s.attempts[a].operation = o
      <4> HIDE DEF s, a
      <4>1. o # None
        BY <1>2 DEF None, OperationId
      <4>2. \A b \in AttemptId : db.attempts[b].operation # None =>
              s.attempts[b].operation = db.attempts[b].operation
        BY <1>3 DEF Keeps
      <4>3. QED
        BY <1>2, <4>1, <4>2
    <3>2. live(s, o)
      BY <1>2, <1>3, <1>6, <3>1 DEF Linked
    <3>3. QED
      BY <1>3, <3>2
  <2>2. /\ db.attempts[a].state = "pending" /\ db' = reserve(db, a, who)
        /\ logged("send", who, o, id)
    BY <1>6, <2>1
  <2>3. who \in Recipient
    BY <1>1, <1>2, TablesOf DEF Operation
  <2> HIDE DEF s, booked, admitted
  <2>4. Keeps(db, db')
    BY <1>1, <1>2, <2>2, <2>3, ReserveKeeps
  <2>5. /\ Stays(db, db') /\ db'.attempts[a].state = "dispatching"
        /\ db'.quota = {q \in db.quota : ~(q.kind = "admission" /\ q.id = id)}
                         \cup booked \cup admitted
    BY <1>1, <1>2, <2>2, <2>3, ReserveBooks DEF QuotaInv, booked, admitted
  <2>6. Continues(db, db')
    BY <2>4, <2>5, KeepsContinues
  <2>7. /\ used(db', o) /\ db'.operations[o].recipient = who /\ db'.attempts[a].operation = o
    <3>1. o # None
      BY <1>2 DEF None, OperationId
    <3>2. QED
      BY <1>2, <2>6, <3>1 DEF Continues, Stays
  <2>8. who = recipientFor(db, session[w]) /\ sendLimits(who) \subseteq claims(db, session[w])
    BY <1>1 DEF recipientFor, claims
  <2>9. \E b \in AttemptId :
          /\ id = <<"attempt", b>> /\ db'.attempts[b].operation = o
          /\ db.attempts[b].state \notin Sending /\ db'.attempts[b].state \in Sending
    BY <1>2, <2>2, <2>5, <2>7 DEF Sending
  <2> HIDE DEF id
  <2>10. /\ booked = {event(who, "send", id, clock), event(Deployment, "send", id, clock),
                      event(Shared, "send", id, clock)}
         /\ IsFiniteSet(booked)
    BY EventsOfLimits, FiniteBookings DEF booked
  <2>11. IsFiniteSet(booked \cup admitted)
    <3>1. IsFiniteSet(booked \cup {event(who, "admission", id, clock)})
      BY <2>10, FS_AddElement
    <3>2. QED
      BY <3>1 DEF admitted
  <2>12. \A q \in booked \cup admitted :
           /\ q.id = id /\ q.at = clock
           /\ <<"quota", q.scope>> \in lockQuotas(claims(db, session[w]))
    <3>1. \A q \in booked :
            /\ q.id = id /\ q.at = clock
            /\ <<"quota", q.scope>> \in lockQuotas(claims(db, session[w]))
      BY <2>8, InHeldScopes DEF booked
    <3>2. event(who, "send", id, clock) \in booked
      BY <2>10
    <3>3. <<"quota", who>> \in lockQuotas(claims(db, session[w]))
      BY <3>1, <3>2 DEF event
    <3>4. \A q \in admitted :
            /\ q.id = id /\ q.at = clock
            /\ <<"quota", q.scope>> \in lockQuotas(claims(db, session[w]))
      <4>1. /\ event(who, "admission", id, clock).id = id
            /\ event(who, "admission", id, clock).at = clock
            /\ event(who, "admission", id, clock).scope = who
        BY DEF event
      <4>2. QED
        BY <3>3, <4>1 DEF admitted
    <3>5. QED
      BY <3>1, <3>4
  <2>13. event(who, "admission", id, clock) \in booked \cup admitted
    BY DEF admitted
  <2>14. \A x \in {who, Deployment, Shared} :
           event(x, "send", id, clock) \in booked \cup admitted
    BY <2>10
  <2>15. db'.quota = {q \in db.quota : ~(q.kind = "admission" /\ q.id = id)}
                       \cup (booked \cup admitted)
    BY <2>5
  <2>16. ~session[w].blocked /\ leave(w)
    BY <1>6
  <2> DEFINE added == booked \cup admitted
  <2>17. /\ IsFiniteSet(added) /\ event(who, "admission", id, clock) \in added
         /\ \A q \in added : /\ q.id = id /\ q.at = clock
                             /\ <<"quota", q.scope>> \in lockQuotas(claims(db, session[w]))
         /\ \A x \in {who, Deployment, Shared} : event(x, "send", id, clock) \in added
         /\ db'.quota = {q \in db.quota : ~(q.kind = "admission" /\ q.id = id)} \cup added
    BY <2>11, <2>12, <2>13, <2>14, <2>15
  <2> DEFINE what == "send"
  <2>18. what \in {"create", "deliver", "send"} /\ logged(what, who, o, id)
    BY <2>2
  <2>19. \/ what = "create" /\ id = <<"operation", o>> /\ ~used(db, o)
         \/ \E b \in AttemptId :
              /\ id = <<"attempt", b>> /\ db'.attempts[b].operation = o
              /\ what = "deliver" => db.attempts[b].operation = None
              /\ what = "send" =>
                   db.attempts[b].state \notin Sending /\ db'.attempts[b].state \in Sending
              /\ what # "create"
    BY <2>9
  <2>20. /\ what = "create" => admissionLimits(who) \subseteq claims(db, session[w])
         /\ what = "deliver" => admissionLimit(who) \in claims(db, session[w])
         /\ what = "send" => sendLimits(who) \subseteq claims(db, session[w])
         /\ what = "create" => event(who, "create", id, clock) \in added
         /\ what = "send" => \A x \in {who, Deployment, Shared} : event(x, "send", id, clock) \in added
    BY <2>8, <2>17
  <2>21. \A q \in added : /\ q.id = id /\ q.at = clock
                          /\ q.kind = "send" => what = "send"
                          /\ <<"quota", q.scope>> \in lockQuotas(claims(db, session[w]))
    BY <2>17
  <2> HIDE DEF a, o, who, added, what
  <2>22. QED
    BY <1>1, <1>2, <2>6, <2>7, <2>8, <2>16, <2>17, <2>18, <2>19, <2>20, <2>21, BookingStep
<1>7. QED
  BY <1>4, <1>5, <1>6 DEF Gate

LEMMA InitHolds == Init => QuotaInv
<1> SUFFICES ASSUME Init PROVE QuotaInv
  OBVIOUS
<1>1. AdmissionInv /\ log = {} /\ db.quota = {} /\ session = [w \in Session |-> Idle]
  BY InitStep DEF Init
<1>2. LogOK(db, log, clock) /\ EventsOK(db, clock) /\ Counted(db, log, clock)
  BY <1>1, FS_EmptySet DEF LogOK, EventsOK, Counted
<1>3. Claimed
  BY <1>1 DEF Claimed, Idle
<1>4. QuotasHold
  BY <1>1 DEF QuotasHold, RollingLimits, RecipientIsLeftAlone, within, ofRecipient, sent
<1>5. QED
  BY <1>1, <1>2, <1>3, <1>4 DEF QuotaInv

LEMMA NextHolds ==
  ASSUME QuotaInv, [Next]_vars
  PROVE  QuotaInv'
<1>1. AdmissionInv'
  BY NextStep DEF QuotaInv
<1>2. CASE UNCHANGED vars
  <2>1. db' = db /\ clock' = clock /\ session' = session /\ log' = log
    BY <1>2 DEF vars
  <2>2. QED
    BY <1>1, <2>1, ContinuesItself, StillStep
<1>3. CASE Next
  <2>1. requests \subseteq Request
    BY DEF QuotaInv, AdmissionInv, TypeOK
  <2>2. ASSUME NEW w \in Session, NEW r \in requests, Lookup(w, r)
        PROVE  QuotaInv'
    BY <1>1, <2>1, <2>2, LookupHolds
  <2>3. ASSUME NEW w \in Session, NEW r \in requests, Enter(w, r)
        PROVE  QuotaInv'
    BY <1>1, <2>1, <2>3, ReplayHolds, EnterHolds DEF Enter
  <2>4. ASSUME NEW w \in Session, EnterPrepared(w)
        PROVE  QuotaInv'
    <3>1. session[w].request \in Request
      <4>1. session[w].request # NoRequest
        BY <2>4 DEF EnterPrepared, QuotaInv, AdmissionInv, Sessions
      <4>2. QED
        BY <4>1, TypeFacts DEF QuotaInv, AdmissionInv
    <3>2. QED
      BY <1>1, <2>4, <3>1, ReplayHolds, EnterHolds DEF EnterPrepared
  <2>5. QED
    BY <1>1, <1>3, <2>2, <2>3, <2>4, EnterGateHolds, AdmitHolds, SubmitHolds, DeliverHolds,
       CloseHolds, GateHolds, AbortHolds, RecordOutcomeHolds, CleanupHolds, TickHolds DEF Next
<1>4. QED
  BY <1>2, <1>3

LEMMA QuotaInvHolds == Spec => []QuotaInv
<1>1. QuotaInv /\ [Next]_vars => QuotaInv'
  BY NextHolds
<1>2. QED
  BY InitHolds, <1>1, PTL DEF Spec

-----------------------------------------------------------------------------
(***************************************************************************)
(* The theorems.                                                           *)
(***************************************************************************)
\* The rows, the sessions and the locks they hold are always of their types
\* (requests/receipts.ts, requests/admission.ts).
THEOREM TypesHold == Spec => []TypeOK
<1>1. AdmissionInv => TypeOK
  BY DEF AdmissionInv
<1>2. QED
  BY InvHolds, <1>1, PTL

\* Any number of clients repeat any requests, sessions interleave and are aborted, and
\* maintenance deletes receipts: a request is executed once, and answered with what that
\* execution did (withReceipt, replay and save of requests/receipts.ts).
THEOREM RequestsExecuteOnce == Spec => []RequestsAreIdempotent
<1>1. AdmissionInv => RequestsAreIdempotent
  BY DEF AdmissionInv, RequestsAreIdempotent
<1>2. QED
  BY InvHolds, <1>1, PTL

\* A code is erased from the operation and from every receipt in the transaction that
\* ends the operation, whichever that is (eraseSecrets, terminate).
THEOREM CodesAreErased == Spec => []NoCodeOutlivesItsOperation
<1>1. AdmissionInv => NoCodeOutlivesItsOperation
  BY DEF AdmissionInv, Linked, NoCodeOutlivesItsOperation
<1>2. QED
  BY InvHolds, <1>1, PTL

\* No admission, no user's send and no reserved send is decided at or after the deadline
\* of its operation (expire, before every decision).
THEOREM DeadlineHolds == Spec => []NothingAfterTheDeadline
<1>1. AdmissionInv => NothingAfterTheDeadline
  BY DEF AdmissionInv, Timely, NothingAfterTheDeadline
<1>2. QED
  BY InvHolds, <1>1, PTL

\* However requests and sends interleave, and whatever maintenance deletes: no window of a
\* limit holds more admissions or sends than the limit allows, and no recipient is admitted
\* to while the last admission or send is fresh (requests/admission.ts, admitSend).  A
\* session that decides holds the locks of the limits it found open, so that nobody else
\* uses up what is left of them.
THEOREM QuotasAreKept == Spec => []QuotasHold
<1>1. QuotaInv => QuotasHold
  BY DEF QuotaInv
<1>2. QED
  BY QuotaInvHolds, <1>1, PTL

-----------------------------------------------------------------------------
(***************************************************************************)
(* The record.  What was executed tells which operations and attempts      *)
(* there are, whose they are and which were closed, after their receipts   *)
(* are gone.                                                               *)
(***************************************************************************)
Recorded(s, done) ==
  /\ \A e \in done :
       /\ used(s, e.result.operation)
       /\ e.result.attempt # None => s.attempts[e.result.attempt].operation = e.result.operation
       /\ e.request.target # None => e.result.operation = e.request.target
       /\ e.request.name = "close" => ended(s, e.result.operation)
  /\ \A o \in OperationId : used(s, o) =>
       /\ \E e \in done : e.result = resultOf(s, o)
       /\ \E e \in done : /\ e.request.target = None /\ e.result.operation = o
                          /\ e.request.recipient = s.operations[o].recipient
                          /\ e.request.expiresAt = s.operations[o].expires_at
  /\ \A a \in AttemptId : s.attempts[a].operation # None =>
       \E e \in done : e.result = [operation |-> s.attempts[a].operation, attempt |-> a]

\* An operation is active from when it has its code, with an attempt to send it unless
\* that was rejected.
unsent(s, o)   == /\ s.operations[o].code = NoCode /\ s.operations[o].current_attempt_id = None
                  /\ \A a \in AttemptId : s.attempts[a].operation # o
begun(s, o, X) == /\ s.operations[o].code # NoCode
                  /\ s.operations[o].current_attempt_id = None <=> o \in X

\* X: the operations whose attempt was rejected.
codedAt(s, o, X) == /\ o \in X => used(s, o)
                    /\ s.operations[o].state = "prepared" => unsent(s, o) /\ o \notin X
                    /\ s.operations[o].state = "active" => begun(s, o, X)
Coded(s, X) == \A o \in OperationId : codedAt(s, o, X)

RecordInv == QuotaInv /\ Recorded(db, executed) /\ Coded(db, rejected)

\* While o lives it is as it was.
unchanged(s, t, o) ==
  /\ used(t, o) => used(s, o)
  /\ live(t, o) => /\ t.operations[o].state = s.operations[o].state
                   /\ t.operations[o].code = s.operations[o].code
  /\ t.operations[o].current_attempt_id = s.operations[o].current_attempt_id

\* No row is new: operations have the current attempt they had, attempts their operation.
Still(s, t) ==
  /\ \A o \in OperationId : unchanged(s, t, o)
  /\ \A a \in AttemptId : t.attempts[a].operation = s.attempts[a].operation

\* What is new is the operation o or an attempt of it, which is then the current one.
Grows(s, t, o) ==
  /\ \A p \in OperationId \ {o} : unchanged(s, t, p)
  /\ \A a \in AttemptId :
       \/ t.attempts[a].operation = s.attempts[a].operation
       \/ t.attempts[a].operation = o /\ a = t.operations[o].current_attempt_id
  /\ LET a == t.operations[o].current_attempt_id
     IN  \/ a = None
         \/ used(s, o) /\ a = s.operations[o].current_attempt_id
         \/ a \in AttemptId /\ t.attempts[a].operation = o

LEMMA StillItself == ASSUME NEW s PROVE Still(s, s)
BY DEF Still, unchanged

LEMMA UnchangedAlong ==
  ASSUME NEW s, NEW t, NEW u, NEW o, unchanged(s, t, o), unchanged(t, u, o)
  PROVE  unchanged(s, u, o)
BY DEF unchanged, live

LEMMA StillAlong == ASSUME NEW s, NEW t, NEW u, Still(s, t), Still(t, u) PROVE Still(s, u)
BY UnchangedAlong DEF Still

LEMMA StillGrows ==
  ASSUME NEW s, NEW t, Still(s, t), NEW o \in OperationId, used(s, o)
  PROVE  Grows(s, t, o)
<1>1. t.operations[o].current_attempt_id = s.operations[o].current_attempt_id
  BY DEF Still, unchanged
<1>2. QED
  BY <1>1 DEF Still, Grows

LEMMA ResultFields ==
  ASSUME NEW done, done \subseteq [request : Request, result : Result], NEW e \in done
  PROVE  /\ e.request \in Request /\ e.result \in Result
         /\ e.result.operation \in OperationId /\ e.result.attempt \in AttemptId \cup {None}
         /\ e.result = [operation |-> e.result.operation, attempt |-> e.result.attempt]
BY DEF Result

\* A step that executes nothing leaves the record true.
LEMMA RecordedAlong ==
  ASSUME NEW s, NEW t, NEW now, Preserves(s, t, now), Stays(s, t),
         \A o \in OperationId :
            /\ used(t, o) => used(s, o)
            /\ t.operations[o].current_attempt_id = s.operations[o].current_attempt_id,
         \A a \in AttemptId : t.attempts[a].operation = s.attempts[a].operation,
         NEW done, done \subseteq [request : Request, result : Result], Recorded(s, done)
  PROVE  Recorded(t, done)
<1>1. None \notin AttemptId /\ None \notin OperationId
  BY DEF None, AttemptId, OperationId
<1>2. ASSUME NEW e \in done
      PROVE  /\ used(t, e.result.operation)
             /\ e.result.attempt # None =>
                  t.attempts[e.result.attempt].operation = e.result.operation
             /\ e.request.target # None => e.result.operation = e.request.target
             /\ e.request.name = "close" => ended(t, e.result.operation)
  <2>1. e.result.operation \in OperationId /\ e.result.attempt \in AttemptId \cup {None}
    BY ResultFields
  <2>2. /\ used(s, e.result.operation)
        /\ e.result.attempt # None =>
             s.attempts[e.result.attempt].operation = e.result.operation
        /\ e.request.target # None => e.result.operation = e.request.target
        /\ e.request.name = "close" => ended(s, e.result.operation)
    BY DEF Recorded
  <2>3. used(t, e.result.operation)
        /\ (ended(s, e.result.operation) => ended(t, e.result.operation))
    BY <2>1, <2>2 DEF Preserves
  <2>4. e.result.attempt # None =>
             t.attempts[e.result.attempt].operation = e.result.operation
    BY <2>1, <2>2
  <2>5. QED
    BY <2>2, <2>3, <2>4
<1>3. ASSUME NEW o \in OperationId, used(t, o)
      PROVE  /\ \E e \in done : e.result = resultOf(t, o)
             /\ \E e \in done : /\ e.request.target = None /\ e.result.operation = o
                                /\ e.request.recipient = t.operations[o].recipient
                                /\ e.request.expiresAt = t.operations[o].expires_at
  <2>1. used(s, o)
    BY <1>3
  <2>2. /\ t.operations[o].recipient = s.operations[o].recipient
        /\ t.operations[o].expires_at = s.operations[o].expires_at
        /\ resultOf(t, o) = resultOf(s, o)
    BY <2>1 DEF Preserves, Stays, resultOf
  <2>3. QED
    BY <2>1, <2>2 DEF Recorded
<1>4. ASSUME NEW a \in AttemptId, t.attempts[a].operation # None
      PROVE  \E e \in done : e.result = [operation |-> t.attempts[a].operation, attempt |-> a]
  BY <1>4 DEF Recorded
<1>5. QED
  BY <1>2, <1>3, <1>4 DEF Recorded

LEMMA CodedAlong ==
  ASSUME NEW s, NEW t, Still(s, t), \A o \in OperationId : used(s, o) => used(t, o),
         NEW X, Coded(s, X)
  PROVE  Coded(t, X)
BY DEF Still, unchanged, Coded, codedAt, unsent, begun, live

LEMMA CodedAnew ==
  ASSUME NEW s, NEW t, NEW o \in OperationId, Grows(s, t, o),
         \A p \in OperationId : used(s, p) => used(t, p),
         NEW X, Coded(s, X), codedAt(t, o, X)
  PROVE  Coded(t, X)
<1>1. ASSUME NEW p \in OperationId, p # o PROVE codedAt(t, p, X)
  <2>1. unchanged(s, t, p) /\ codedAt(s, p, X) /\ (used(s, p) => used(t, p))
    BY <1>1 DEF Grows, Coded
  <2>2. \A a \in AttemptId : t.attempts[a].operation = p => s.attempts[a].operation = p
    BY <1>1 DEF Grows
  <2>3. QED
    BY <2>1, <2>2 DEF unchanged, codedAt, unsent, begun, live
<1>2. QED
  BY <1>1 DEF Coded

\* A request that is executed is recorded with what it came to.
LEMMA RecordedAnew ==
  ASSUME NEW s \in Tables, NEW u \in Tables, Keeps(s, u), Stays(s, u),
         NEW done, done \subseteq [request : Request, result : Result], Recorded(s, done),
         NEW r \in Request, NEW o \in OperationId, used(u, o), Grows(s, u, o),
         r.target # None => o = r.target,
         r.name = "close" => ended(u, o),
         used(s, o) \/ /\ r.target = None
                       /\ u.operations[o].recipient = r.recipient
                       /\ u.operations[o].expires_at = r.expiresAt
  PROVE  Recorded(u, done \cup {[request |-> r, result |-> resultOf(u, o)]})
<1> DEFINE n == [request |-> r, result |-> resultOf(u, o)]
<1> DEFINE new == done \cup {n}
<1> DEFINE c == u.operations[o].current_attempt_id
<1>1. None \notin AttemptId /\ None \notin OperationId
  BY DEF None, AttemptId, OperationId
<1>2. /\ n.request = r /\ n.result.operation = o /\ n.result.attempt = c
      /\ n.result = resultOf(u, o) /\ n.result = [operation |-> o, attempt |-> c]
      /\ n \in new /\ done \subseteq new
      /\ \A e \in new : e \in done \/ e = n
  BY DEF resultOf
<1>3. c \in AttemptId \cup {None}
  BY TablesOf DEF Operation
<1> HIDE DEF n, new
<1>4. \A a \in AttemptId : s.attempts[a].operation # None =>
        u.attempts[a].operation = s.attempts[a].operation
  BY DEF Keeps
<1>5. c # None => u.attempts[c].operation = o
  <2>1. CASE used(s, o) /\ c = s.operations[o].current_attempt_id
    <3>1. PICK e \in done : e.result = resultOf(s, o)
      BY <2>1 DEF Recorded
    <3>2. e.result.operation = o /\ e.result.attempt = c
      BY <2>1, <3>1 DEF resultOf
    <3>3. c # None => s.attempts[c].operation = o
      BY <3>1, <3>2 DEF Recorded
    <3>4. QED
      BY <1>1, <1>3, <1>4, <3>3
  <2>2. CASE c \in AttemptId /\ u.attempts[c].operation = o
    BY <2>2
  <2>3. QED
    BY <2>1, <2>2 DEF Grows
<1>6. ASSUME NEW e \in new
      PROVE  /\ used(u, e.result.operation)
             /\ e.result.attempt # None =>
                  u.attempts[e.result.attempt].operation = e.result.operation
             /\ e.request.target # None => e.result.operation = e.request.target
             /\ e.request.name = "close" => ended(u, e.result.operation)
  <2>1. CASE e = n
    BY <1>2, <1>5, <2>1
  <2>2. CASE e \in done
    <3>1. e.result.operation \in OperationId /\ e.result.attempt \in AttemptId \cup {None}
      BY <2>2, ResultFields
    <3>2. /\ used(s, e.result.operation)
          /\ e.result.attempt # None =>
               s.attempts[e.result.attempt].operation = e.result.operation
          /\ e.request.target # None => e.result.operation = e.request.target
          /\ e.request.name = "close" => ended(s, e.result.operation)
      BY <2>2 DEF Recorded
    <3>3. used(u, e.result.operation)
          /\ (ended(s, e.result.operation) => ended(u, e.result.operation))
      BY <3>1, <3>2 DEF Keeps
    <3>4. e.result.attempt # None =>
               u.attempts[e.result.attempt].operation = e.result.operation
      BY <1>1, <1>4, <3>1, <3>2
    <3>5. QED
      BY <3>2, <3>3, <3>4
  <2>3. QED
    BY <1>2, <2>1, <2>2
<1>7. ASSUME NEW p \in OperationId, used(u, p)
      PROVE  /\ \E e \in new : e.result = resultOf(u, p)
             /\ \E e \in new : /\ e.request.target = None /\ e.result.operation = p
                               /\ e.request.recipient = u.operations[p].recipient
                               /\ e.request.expiresAt = u.operations[p].expires_at
  <2>1. ASSUME used(s, p)
        PROVE  \E e \in new : /\ e.request.target = None /\ e.result.operation = p
                              /\ e.request.recipient = u.operations[p].recipient
                              /\ e.request.expiresAt = u.operations[p].expires_at
    <3>1. /\ u.operations[p].recipient = s.operations[p].recipient
          /\ u.operations[p].expires_at = s.operations[p].expires_at
      BY <2>1 DEF Keeps, Stays
    <3>2. PICK e \in done : /\ e.request.target = None /\ e.result.operation = p
                            /\ e.request.recipient = s.operations[p].recipient
                            /\ e.request.expiresAt = s.operations[p].expires_at
      BY <2>1 DEF Recorded
    <3>3. QED
      BY <1>2, <3>1, <3>2
  <2>2. CASE p = o
    <3>1. \E e \in new : e.result = resultOf(u, p)
      BY <1>2, <2>2
    <3>2. QED
      BY <1>2, <2>1, <2>2, <3>1
  <2>3. CASE p # o
    <3>1. used(s, p) /\ resultOf(u, p) = resultOf(s, p)
      BY <1>7, <2>3 DEF Grows, unchanged, resultOf
    <3>2. PICK e \in done : e.result = resultOf(s, p)
      BY <3>1 DEF Recorded
    <3>3. QED
      BY <1>2, <2>1, <3>1, <3>2
  <2>4. QED
    BY <2>2, <2>3
<1>8. ASSUME NEW a \in AttemptId, u.attempts[a].operation # None
      PROVE  \E e \in new : e.result = [operation |-> u.attempts[a].operation, attempt |-> a]
  <2>1. CASE u.attempts[a].operation = s.attempts[a].operation
    <3>1. PICK e \in done : e.result = [operation |-> s.attempts[a].operation, attempt |-> a]
      BY <1>8, <2>1 DEF Recorded
    <3>2. QED
      BY <1>2, <2>1, <3>1
  <2>2. CASE u.attempts[a].operation = o /\ a = c
    BY <1>2, <2>2
  <2>3. QED
    BY <2>1, <2>2 DEF Grows
<1>9. Recorded(u, new)
  BY <1>6, <1>7, <1>8 DEF Recorded
<1>10. QED
  BY <1>9 DEF new, n

\* The record does not depend on receipts and quotas.
LEMMA RecordedRows ==
  ASSUME NEW s, NEW t, NEW done, t.operations = s.operations, t.attempts = s.attempts,
         Recorded(s, done)
  PROVE  Recorded(t, done)
BY DEF Recorded, used, ended, resultOf

\* What the operations on rows do to it.
LEMMA TerminateStill ==
  ASSUME NEW s \in Tables, NEW o \in OperationId, NEW x \in Terminal, clock \in Nat, used(s, o)
  PROVE  Still(s, terminate(s, o, x))
<1> DEFINE t == terminate(s, o, x)
<1>1. /\ \A p \in OperationId : p # o => t.operations[p] = s.operations[p]
      /\ t.operations[o].current_attempt_id = s.operations[o].current_attempt_id
      /\ t.operations[o].state = x
      /\ t.attempts = suppressPendingAttempts(s.attempts, o)
  BY TerminateForm
<1>2. \A a \in AttemptId : suppressPendingAttempts(s.attempts, o)[a].operation
                             = s.attempts[a].operation
  BY TablesOf, SuppressForm
<1> HIDE DEF t
<1>3. QED
  BY <1>1, <1>2 DEF Still, unchanged, used, live, Terminal, t

LEMMA ExpireStill ==
  ASSUME NEW s \in Tables, NEW o \in OperationId, clock \in Nat
  PROVE  Still(s, expire(s, o))
<1>1. "expired" \in Terminal
  BY DEF Terminal
<1>2. live(s, o) => used(s, o)
  BY DEF live, used
<1>3. QED
  BY <1>1, <1>2, TerminateStill, StillItself DEF expire

LEMMA MoveStill ==
  ASSUME NEW s \in Tables, NEW a \in AttemptId, NEW x
  PROVE  Still(s, [s EXCEPT !.attempts[a].state = x])
<1> DEFINE row == [s.attempts[a] EXCEPT !.state = x]
<1> DEFINE t == [s EXCEPT !.attempts[a].state = x]
<1>1. row.operation = s.attempts[a].operation
  BY TablesOf DEF Attempt
<1>2. t.operations = s.operations /\ t.attempts = [s.attempts EXCEPT ![a] = row]
  BY TablesOf DEF Tables
<1> HIDE DEF row, t
<1>3. \A b \in AttemptId : t.attempts[b].operation = s.attempts[b].operation
  BY <1>1, <1>2, TablesOf
<1>4. QED
  BY <1>2, <1>3 DEF Still, unchanged, used, live, t

LEMMA ReserveStill ==
  ASSUME NEW s \in Tables, Linked(s), NEW a \in AttemptId, s.attempts[a].state = "pending",
         NEW who \in Recipient, clock \in Nat
  PROVE  Still(s, reserve(s, a, who))
<1> DEFINE o == s.attempts[a].operation
<1> DEFINE at == IF s.operations[o].next_user_send_at > clock + resendCooldown
                 THEN s.operations[o].next_user_send_at ELSE clock + resendCooldown
<1> DEFINE row == [s.operations[o] EXCEPT !.next_user_send_at = at]
<1> DEFINE u == [s EXCEPT !.attempts[a].state = "dispatching"]
<1> DEFINE v == [u EXCEPT !.operations = [s.operations EXCEPT ![o] = row]]
<1> DEFINE id == <<"attempt", a>>
<1> DEFINE x == countQuotas(v, sendLimits(who), id)
<1> DEFINE t == reserve(s, a, who)
<1>1. o \in OperationId /\ s.operations[o] \in Operation
  BY TablesOf DEF Attempt, Linked
<1>2. /\ row \in Operation /\ row.state = s.operations[o].state
      /\ row.code = s.operations[o].code
      /\ row.current_attempt_id = s.operations[o].current_attempt_id
  <2>1. s.operations[o].next_user_send_at \in Nat /\ clock + resendCooldown \in Nat
    BY <1>1, DurationAssumption DEF Operation
  <2>2. at \in Nat
    BY <2>1
  <2> HIDE DEF at
  <2>3. QED
    BY <1>1, <2>2 DEF Operation
<1>3. t = extendAdmission(x, who, id)
  <2>1. [s.operations EXCEPT ![o].next_user_send_at = at] = [s.operations EXCEPT ![o] = row]
    BY TablesOf
  <2>2. [s EXCEPT !.attempts[a].state = "dispatching",
                  !.operations[o].next_user_send_at = at]
          = [u EXCEPT !.operations = [s.operations EXCEPT ![o].next_user_send_at = at]]
    BY DEF Tables
  <2>3. QED
    BY <2>1, <2>2 DEF reserve
<1>4. u \in Tables /\ Still(s, u) /\ u.operations = s.operations
  BY MoveKeeps, MoveStill
<1> HIDE DEF u, row, t, at
<1>5. /\ v \in Tables /\ v.operations = [s.operations EXCEPT ![o] = row]
      /\ v.attempts = u.attempts
  BY <1>2, <1>4, TablesOf DEF Tables
<1> HIDE DEF v
<1>6. id \in Ids /\ sendLimits(who) \in SUBSET Limits
  BY LimitsOf DEF Ids, AttemptId
<1> HIDE DEF id
<1>7. x \in Tables /\ x.operations = v.operations /\ x.attempts = v.attempts
  BY <1>5, <1>6, CountForm
<1> HIDE DEF x
<1>8. t.operations = v.operations /\ t.attempts = v.attempts
  BY <1>3, <1>6, <1>7, ExtendForm
<1>9. \A p \in OperationId :
        /\ t.operations[p].state = s.operations[p].state
        /\ t.operations[p].code = s.operations[p].code
        /\ t.operations[p].current_attempt_id = s.operations[p].current_attempt_id
  BY <1>1, <1>2, <1>5, <1>8, TablesOf
<1>10. QED
  BY <1>4, <1>5, <1>8, <1>9 DEF Still, unchanged, used, live, t

LEMMA ExpireOverdueStill ==
  ASSUME db \in Tables, clock \in Nat
  PROVE  Still(db, expireOverdue)
<1> DEFINE due == {o \in unlocked : live(db, o) /\ db.operations[o].expires_at <= clock}
<1> DEFINE O == [o \in OperationId |-> IF o \in due THEN terminate(db, o, "expired").operations[o]
                                       ELSE db.operations[o]]
<1> DEFINE A == [a \in AttemptId |->
                   IF db.attempts[a].operation \in due
                   THEN suppressPendingAttempts(db.attempts, db.attempts[a].operation)[a]
                   ELSE db.attempts[a]]
<1> DEFINE R == [i \in Identity |->
                   IF db.receipts[i] # NoReceipt /\ db.receipts[i].operation \in due
                   THEN [db.receipts[i] EXCEPT !.code_fingerprint = NoCode] ELSE db.receipts[i]]
<1> DEFINE t == expireOverdue
<1>1. t = [db EXCEPT !.operations = O, !.attempts = A, !.receipts = R]
  BY DEF expireOverdue
<1>2. ASSUME NEW o \in OperationId
      PROVE  /\ O[o].current_attempt_id = db.operations[o].current_attempt_id
             /\ O[o].state # "absent" => db.operations[o].state # "absent"
             /\ O[o].state \in {"prepared", "active"} => O[o] = db.operations[o]
  <2>1. CASE o \in due
    <3>1. db.operations[o].state # "absent"
      BY <2>1 DEF live
    <3>2. "expired" \in Terminal
      BY DEF Terminal
    <3>3. /\ terminate(db, o, "expired").operations[o].current_attempt_id
               = db.operations[o].current_attempt_id
          /\ terminate(db, o, "expired").operations[o].state = "expired"
      BY <3>2, TerminateForm
    <3>4. O[o] = terminate(db, o, "expired").operations[o]
      BY <2>1
    <3> HIDE DEF O
    <3>5. QED
      BY <3>1, <3>3, <3>4
  <2>2. CASE o \notin due
    BY <2>2
  <2>3. QED
    BY <2>1, <2>2
<1>3. ASSUME NEW a \in AttemptId
      PROVE  A[a].operation = db.attempts[a].operation
  <2>1. db.attempts \in [AttemptId -> Attempt]
    BY TablesOf
  <2>2. CASE db.attempts[a].operation \in due
    <3>1. db.attempts[a].operation \in OperationId
      BY <2>2 DEF unlocked
    <3>2. A[a] = suppressPendingAttempts(db.attempts, db.attempts[a].operation)[a]
      BY <2>2
    <3> HIDE DEF A, due
    <3>3. QED
      BY <2>1, <3>1, <3>2, SuppressForm
  <2>3. CASE db.attempts[a].operation \notin due
    BY <2>3
  <2>4. QED
    BY <2>2, <2>3
<1> HIDE DEF O, A, R, t
<1>4. t.operations = O /\ t.attempts = A
  BY <1>1 DEF Tables
<1>5. QED
  BY <1>2, <1>3, <1>4 DEF Still, unchanged, used, live, t

LEMMA CleanupStill ==
  ASSUME db \in Tables, Linked(db), clock \in Nat
  PROVE  Still(db, cleanupBatch)
<1> DEFINE s == expireOverdue
<1> DEFINE O == [o \in OperationId |-> IF o \in forgotten(s)
                   THEN [s.operations[o] EXCEPT !.state = "deleted"] ELSE s.operations[o]]
<1> DEFINE R == [i \in Identity |-> IF s.receipts[i] # NoReceipt /\ droppable(s, s.receipts[i])
                                    THEN NoReceipt ELSE s.receipts[i]]
<1> DEFINE t == cleanupBatch
<1>1. s \in Tables /\ Still(db, s)
  BY ExpireOverdueKeeps, ExpireOverdueStill
<1>2. t = [s EXCEPT !.receipts = R, !.operations = O, !.quota = {e \in s.quota : ~outdated(e)}]
  BY DEF cleanupBatch
<1> HIDE DEF s, t
<1>3. \A o \in OperationId :
        /\ O[o].current_attempt_id = s.operations[o].current_attempt_id
        /\ O[o].state # "absent" => s.operations[o].state # "absent"
        /\ O[o].state \in {"prepared", "active"} => O[o] = s.operations[o]
  BY <1>1, TablesOf DEF Operation, forgotten
<1> HIDE DEF O, R
<1>4. t.operations = O /\ t.attempts = s.attempts
  BY <1>1, <1>2 DEF Tables
<1>5. Still(s, t)
  BY <1>3, <1>4 DEF Still, unchanged, used, live
<1>6. QED
  BY <1>1, <1>5, StillAlong DEF t

LEMMA ScheduleGrows ==
  ASSUME NEW s \in Tables, NEW o \in OperationId, nextAttempt(s) \in AttemptId
  PROVE  LET t == schedule(s, o)
         IN  /\ Grows(s, t, o)
             /\ t.operations[o].current_attempt_id = nextAttempt(s)
             /\ t.operations[o].state = s.operations[o].state
             /\ t.operations[o].code = s.operations[o].code
<1> DEFINE a == nextAttempt(s)
<1> DEFINE row == [s.operations[o] EXCEPT !.current_attempt_id = a]
<1> DEFINE new == [operation |-> o, state |-> "pending"]
<1> DEFINE t == schedule(s, o)
<1>1. /\ row.current_attempt_id = a /\ row.state = s.operations[o].state
      /\ row.code = s.operations[o].code /\ new.operation = o
  BY TablesOf DEF Operation
<1>2. /\ t.operations = [s.operations EXCEPT ![o] = row]
      /\ t.attempts = [s.attempts EXCEPT ![a] = new]
  <2>1. [s.operations EXCEPT ![o].current_attempt_id = a] = [s.operations EXCEPT ![o] = row]
    BY TablesOf
  <2>2. t = [s EXCEPT !.attempts = [s.attempts EXCEPT ![a] = new],
                      !.operations = [s.operations EXCEPT ![o].current_attempt_id = a]]
    BY DEF schedule
  <2> HIDE DEF t, row, new
  <2>3. QED
    BY <2>1, <2>2 DEF Tables
<1> HIDE DEF row, new, t, a
<1>3. /\ \A p \in OperationId : p # o => t.operations[p] = s.operations[p]
      /\ t.operations[o] = row
  BY <1>2, TablesOf
<1>4. /\ \A b \in AttemptId : b # a => t.attempts[b] = s.attempts[b]
      /\ t.attempts[a] = new
  BY <1>2, TablesOf DEF a
<1>5. a \in AttemptId
  BY DEF a
<1>6. QED
  BY <1>1, <1>3, <1>4, <1>5 DEF Grows, unchanged, used, live, t, a

\* An operation that grows stays the one that grew.
LEMMA GrowsAlong ==
  ASSUME NEW s, NEW t, NEW u, NEW o \in OperationId, Grows(s, t, o), Grows(t, u, o),
         \A a \in AttemptId : t.attempts[a].operation = s.attempts[a].operation
  PROVE  Grows(s, u, o)
<1>1. \A a \in AttemptId :
        \/ u.attempts[a].operation = s.attempts[a].operation
        \/ u.attempts[a].operation = o /\ a = u.operations[o].current_attempt_id
  BY DEF Grows
<1>2. LET a == u.operations[o].current_attempt_id
      IN  \/ a = None
          \/ used(s, o) /\ a = s.operations[o].current_attempt_id
          \/ a \in AttemptId /\ u.attempts[a].operation = o
  BY DEF Grows
<1>3. \A p \in OperationId \ {o} : unchanged(s, u, p)
  BY UnchangedAlong DEF Grows
<1>4. QED
  BY <1>1, <1>2, <1>3 DEF Grows

LEMMA AdmitGrows ==
  ASSUME NEW s \in Tables, Linked(s), NEW r \in Request, nextOperation(s) \in OperationId,
         clock \in Nat
  PROVE  LET t == admitOperation(s, r)
             o == nextOperation(s)
         IN  /\ Grows(s, t, o) /\ t.operations[o].current_attempt_id = None
             /\ t.operations[o].state = "prepared" /\ unsent(t, o)
<1> DEFINE o == nextOperation(s)
<1> DEFINE row == [state |-> "prepared", recipient |-> r.recipient, expires_at |-> r.expiresAt,
                   code |-> NoCode, next_user_send_at |-> clock, terminal_at |-> 0,
                   current_attempt_id |-> None]
<1> DEFINE u == [s EXCEPT !.operations[o] = row]
<1> DEFINE t == admitOperation(s, r)
<1>1. row \in Operation /\ row.current_attempt_id = None /\ row.code = NoCode
      /\ row.state = "prepared"
  BY Fields DEF Operation
<1>2. t = countQuotas(u, admissionLimits(r.recipient), <<"operation", o>>)
  BY DEF admitOperation
<1> HIDE DEF row
<1>3. /\ u \in Tables /\ u.operations = [s.operations EXCEPT ![o] = row]
      /\ u.attempts = s.attempts
  BY <1>1, TablesOf DEF Tables
<1> HIDE DEF u, t
<1>4. t.operations = u.operations /\ t.attempts = u.attempts
  <2>1. admissionLimits(r.recipient) \in SUBSET Limits /\ <<"operation", o>> \in Ids
    BY LimitsOf, Fields DEF Ids, OperationId
  <2>2. QED
    BY <1>2, <1>3, <2>1, CountForm
<1>5. /\ \A p \in OperationId : p # o => t.operations[p] = s.operations[p]
      /\ t.operations[o] = row
  BY <1>3, <1>4, TablesOf
<1>6. Grows(s, t, o)
  BY <1>1, <1>3, <1>4, <1>5 DEF Grows, unchanged, used, live
<1>7. \A a \in AttemptId : s.attempts[a].operation # o
  <2>1. ~used(s, o) /\ o # None
    BY NextIsFree DEF OperationId, None
  <2>2. QED
    BY <2>1 DEF Linked
<1>8. unsent(t, o)
  BY <1>1, <1>3, <1>4, <1>5, <1>7 DEF unsent
<1>9. QED
  BY <1>1, <1>5, <1>6, <1>8 DEF t

LEMMA StoreGrows ==
  ASSUME NEW s \in Tables, NEW o \in OperationId, NEW code \in Code, used(s, o), clock \in Nat
  PROVE  Grows(s, storeCode(s, o, code), o)
<1> DEFINE u == storeCode(s, o, code)
<1>1. /\ u.attempts = s.attempts
      /\ \A p \in OperationId : p # o => u.operations[p] = s.operations[p]
      /\ u.operations[o].current_attempt_id = s.operations[o].current_attempt_id
  BY StoreForm
<1> HIDE DEF u
<1>2. Grows(s, u, o)
  BY <1>1 DEF Grows, unchanged, used, live
<1>3. QED
  BY <1>2 DEF u

LEMMA AttachGrows ==
  ASSUME NEW s \in Tables, Linked(s), NEW o \in OperationId, NEW code \in Code, live(s, o),
         s.operations[o].code # code => nextAttempt(s) \in AttemptId, clock \in Nat
  PROVE  LET t == attachCode(s, o, code)
         IN  /\ Grows(s, t, o)
             /\ \/ s.operations[o].code = code /\ t = s
                \/ /\ s.operations[o].code # code
                   /\ t.operations[o].current_attempt_id = nextAttempt(s)
                   /\ \A X : o \notin X => codedAt(t, o, X)
<1> DEFINE u == storeCode(s, o, code)
<1> DEFINE t == attachCode(s, o, code)
<1>1. used(s, o)
  BY DEF live, used
<1>2. CASE s.operations[o].code = code
  <2>1. t = s
    BY <1>2 DEF attachCode
  <2> HIDE DEF t
  <2>2. Grows(s, t, o)
    BY <1>1, <2>1, StillItself, StillGrows
  <2>3. QED
    BY <1>2, <2>1, <2>2 DEF t
<1>3. CASE s.operations[o].code # code
  <2>1. t = schedule(u, o)
    BY <1>3 DEF attachCode
  <2>2. /\ u \in Tables /\ u.attempts = s.attempts
        /\ u.operations[o].state = "active" /\ u.operations[o].code = code
        /\ Grows(s, u, o) /\ nextAttempt(u) = nextAttempt(s)
    BY <1>1, StoreForm, StoreKeeps, StoreGrows
  <2> HIDE DEF t, u
  <2>3. /\ Grows(u, t, o) /\ t.operations[o].current_attempt_id = nextAttempt(s)
        /\ t.operations[o].state = "active" /\ t.operations[o].code = code
    BY <1>3, <2>1, <2>2, ScheduleGrows
  <2>4. Grows(s, t, o)
    BY <2>2, <2>3, GrowsAlong
  <2>5. ASSUME NEW X, o \notin X PROVE codedAt(t, o, X)
    <3>1. nextAttempt(s) # None /\ code # NoCode
      BY <1>3, CodeAssumption DEF AttemptId, None
    <3>2. QED
      BY <2>3, <2>5, <3>1 DEF codedAt, begun
  <2>6. QED
    BY <1>3, <2>3, <2>4, <2>5 DEF t
<1>4. QED
  BY <1>2, <1>3

LEMMA RequestSendGrows ==
  ASSUME NEW s \in Tables, Linked(s), NEW o \in OperationId, live(s, o),
         nextAttempt(s) \in AttemptId, clock \in Nat
  PROVE  LET t == requestSend(s, o)
         IN  /\ Grows(s, t, o) /\ t.operations[o].current_attempt_id = nextAttempt(s)
             /\ t.operations[o].state = s.operations[o].state
             /\ t.operations[o].code = s.operations[o].code
<1> DEFINE u == waiting(s, o)
<1> DEFINE v == schedule(u, o)
<1> DEFINE t == requestSend(s, o)
<1>1. t = countQuotas(v, {admissionLimit(s.operations[o].recipient)},
                      <<"attempt", v.operations[o].current_attempt_id>>)
  BY DEF requestSend, waiting
<1>2. s.operations[o].recipient \in Recipient /\ used(s, o)
  BY TablesOf DEF Operation, live, used
<1>3. /\ Still(s, u) /\ u.operations[o].state = s.operations[o].state
      /\ u.operations[o].code = s.operations[o].code
  <2> DEFINE row == [s.operations[o] EXCEPT !.next_user_send_at = clock + resendCooldown]
  <2>1. row.state = s.operations[o].state /\ row.code = s.operations[o].code
        /\ row.current_attempt_id = s.operations[o].current_attempt_id
    BY TablesOf DEF Operation
  <2>2. /\ u.operations = [s.operations EXCEPT ![o] = row]
        /\ u.attempts = suppressPendingAttempts(s.attempts, o)
    <3>1. [s.operations EXCEPT ![o].next_user_send_at = clock + resendCooldown]
            = [s.operations EXCEPT ![o] = row]
      BY TablesOf
    <3>2. u = [s EXCEPT !.attempts = suppressPendingAttempts(s.attempts, o),
                        !.operations = [s.operations EXCEPT
                                          ![o].next_user_send_at = clock + resendCooldown]]
      BY DEF waiting
    <3> HIDE DEF u, row
    <3>3. QED
      BY <3>1, <3>2 DEF Tables
  <2>3. \A a \in AttemptId : suppressPendingAttempts(s.attempts, o)[a].operation
                               = s.attempts[a].operation
    BY TablesOf, SuppressForm
  <2> HIDE DEF u, row
  <2>4. \A p \in OperationId :
          /\ u.operations[p].state = s.operations[p].state
          /\ u.operations[p].code = s.operations[p].code
          /\ u.operations[p].current_attempt_id = s.operations[p].current_attempt_id
    BY <2>1, <2>2, TablesOf
  <2>5. QED
    BY <2>2, <2>3, <2>4 DEF Still, unchanged, used, live
<1> HIDE DEF u, v, t
<1>4. u \in Tables /\ Linked(u) /\ live(u, o) /\ nextAttempt(u) = nextAttempt(s)
  BY WaitingKeeps DEF u
<1>5. /\ v \in Tables /\ Grows(u, v, o)
      /\ v.operations[o].current_attempt_id = nextAttempt(s)
      /\ v.operations[o].state = s.operations[o].state
      /\ v.operations[o].code = s.operations[o].code
  BY <1>3, <1>4, ScheduleKeeps, ScheduleGrows DEF v
<1>6. t.operations = v.operations /\ t.attempts = v.attempts
  <2>1. /\ {admissionLimit(s.operations[o].recipient)} \in SUBSET Limits
        /\ <<"attempt", v.operations[o].current_attempt_id>> \in Ids
    BY <1>2, <1>5, LimitsOf DEF Ids, AttemptId
  <2>2. QED
    BY <1>1, <1>5, <2>1, CountForm
<1>7. Grows(s, v, o)
  <2>1. Grows(s, u, o) /\ \A a \in AttemptId : u.attempts[a].operation = s.attempts[a].operation
    BY <1>2, <1>3, StillGrows DEF Still
  <2>2. QED
    BY <1>5, <2>1, GrowsAlong
<1>8. Grows(s, t, o)
  BY <1>6, <1>7 DEF Grows, unchanged, used, live
<1>9. QED
  BY <1>5, <1>6, <1>8 DEF t

-----------------------------------------------------------------------------
(***************************************************************************)
(* Room.  The record a clerk decides from shows no more than the events a  *)
(* session counted under its locks.                                        *)
(***************************************************************************)
LEMMA RoomInTheRecord ==
  ASSUME NEW entries, IsFiniteSet(entries), \A e, f \in entries : e.id = f.id => e = f,
         IsFiniteSet(db.quota), clock \in Nat, NEW l \in Limits, l.window <= Day,
         \A e \in entries : e.at \in Nat,
         \A e \in entries : e.at > clock - Day => event(l.scope, l.kind, e.id, e.at) \in db.quota,
         Cardinality(counting(db.quota, l, clock)) < l.maximum
  PROVE  Cardinality({e \in entries : e.at > clock - l.window}) < l.maximum
<1> DEFINE S == recent(entries, l, clock)
<1>1. l.window \in Nat \ {0} /\ l.maximum \in Nat /\ Day \in Nat
  BY DurationAssumption DEF Limits
<1>2. \A e \in S : event(l.scope, l.kind, e.id, e.at) \in db.quota
  BY <1>1 DEF recent
<1>3. /\ Cardinality(S) \in Nat /\ Cardinality(counting(db.quota, l, clock)) \in Nat
      /\ Cardinality(S) <= Cardinality(counting(db.quota, l, clock))
  BY <1>2, RecentAreCounted
<1> HIDE DEF S
<1>4. Cardinality(S) < l.maximum
  BY <1>1, <1>3
<1>5. QED
  BY <1>4 DEF S, recent

LEMMA LogFacts ==
  ASSUME QuotaInv
  PROVE  /\ clock \in Nat /\ db \in Tables /\ Linked(db)
         /\ IsFiniteSet(log) /\ IsFiniteSet(db.quota) /\ db.quota \subseteq Event
         /\ \A e \in log : e.at \in Nat /\ e.at <= clock
         /\ \A e, f \in log : (e.what = f.what /\ e.id = f.id) => e = f
         /\ executed \subseteq [request : Request, result : Result]
BY TypeFacts, TablesOf
   DEF QuotaInv, AdmissionInv, LogOK, EventsOK, EntryOK, ExecutedOK

\* Whoever was admitted or sent to a moment ago has an event that blocks.
LEMMA LeftAlone ==
  ASSUME QuotaInv, NEW who \in Recipient,
         Cardinality(counting(db.quota, admissionLimit(who), clock))
           < admissionLimit(who).maximum
  PROVE  Contract!leftAlone(who)
<1> DEFINE l == admissionLimit(who)
<1> DEFINE C == counting(db.quota, l, clock)
<1>1. /\ l \in Limits /\ l.scope = who /\ l.kind = "admission" /\ l.maximum = 1
      /\ l.window = AdmissionWindow
  BY LimitsOf DEF admissionLimit, limit
<1>2. AdmissionWindow <= Day /\ {Day, AdmissionWindow} \subseteq Nat \ {0}
  BY DurationAssumption
<1> HIDE DEF l
<1>3. C = {}
  <2>1. IsFiniteSet(C)
    BY LogFacts, FS_Subset DEF counting
  <2>2. Cardinality(C) < 1
    BY <1>1 DEF l
  <2> HIDE DEF C
  <2>3. Cardinality(C) \in Nat /\ (Cardinality(C) = 0 <=> C = {})
    BY <2>1, FS_CardinalityType, FS_EmptySet
  <2>4. QED
    BY <2>2, <2>3
<1>4. ASSUME NEW g \in log, g.at > clock - AdmissionWindow, g.who = who
      PROVE  FALSE
  <2>1. g.at \in Nat /\ g.at > clock - Day /\ clock \in Nat
    BY <1>2, <1>4, LogFacts
  <2>2. PICK q \in db.quota : q.scope = who /\ q.kind = "admission" /\ q.at >= g.at
    BY <1>4, <2>1 DEF QuotaInv, Counted
  <2>3. q.at \in Nat
    BY LogFacts DEF Event
  <2>4. q.at > clock - AdmissionWindow
    BY <1>2, <1>4, <2>1, <2>2, <2>3
  <2>5. q \in C
    BY <1>1, <2>2, <2>4 DEF counting
  <2>6. QED
    BY <1>3, <2>5
<1>5. QED
  BY <1>4 DEF Contract!leftAlone, Contract!since

LEMMA SameCardinality == \A S : Contract!Cardinality(S) = Cardinality(S)
BY DEF Contract!Cardinality, Cardinality

LEMMA RoomToAdmit ==
  ASSUME QuotaInv, NEW who \in Recipient,
         \A l \in admissionLimits(who) : Cardinality(counting(db.quota, l, clock)) < l.maximum
  PROVE  Contract!roomToAdmit(who)
<1> DEFINE l == recipientLimit(who, "create", recipientCreateLimit15m)
<1> DEFINE entries == {e \in log : e.what = "create" /\ e.who = who}
<1>1. /\ l \in Limits /\ l \in admissionLimits(who)
      /\ l.scope = who /\ l.kind = "create" /\ l.window = Window
      /\ l.maximum = recipientCreateLimit15m /\ admissionLimit(who) \in admissionLimits(who)
  BY LimitsOf DEF admissionLimits, recipientLimit, limit
<1> HIDE DEF l
<1>2. Contract!leftAlone(who)
  BY <1>1, LeftAlone
<1>3. /\ IsFiniteSet(entries) /\ \A e, f \in entries : e.id = f.id => e = f
      /\ \A e \in entries : e.at \in Nat
  BY LogFacts, FS_Subset
<1>4. \A e \in entries : e.at > clock - Day => event(l.scope, l.kind, e.id, e.at) \in db.quota
  BY <1>1 DEF QuotaInv, Counted
<1>5. Cardinality(counting(db.quota, l, clock)) < l.maximum /\ l.window <= Day
  BY <1>1, DurationAssumption
<1> HIDE DEF entries
<1>6. Cardinality({e \in entries : e.at > clock - Window}) < recipientCreateLimit15m
  BY <1>1, <1>3, <1>4, <1>5, LogFacts, RoomInTheRecord
<1>7. {e \in Contract!since(Window) : e.what = "create" /\ e.who = who}
        = {e \in entries : e.at > clock - Window}
  BY DEF Contract!since, entries
<1>8. QED
  BY <1>2, <1>6, <1>7, SameCardinality DEF Contract!roomToAdmit

LEMMA RoomToSend ==
  ASSUME QuotaInv, NEW who \in Recipient,
         \A l \in sendLimits(who) : Cardinality(counting(db.quota, l, clock)) < l.maximum
  PROVE  Contract!roomToSend(who)
<1> DEFINE l == recipientLimit(who, "send", recipientSendLimit15m)
<1> DEFINE d == limit(Deployment, "send", deploymentSendLimit15m, Window)
<1> DEFINE h == limit(Shared, "send", sharedSendLimit24h, Day)
<1> DEFINE mine == {e \in log : e.what = "send" /\ e.who = who}
<1>1. /\ l \in Limits /\ l \in sendLimits(who) /\ l.scope = who /\ l.kind = "send"
      /\ l.window = Window /\ l.maximum = recipientSendLimit15m
  BY LimitsOf DEF sendLimits, commonSendLimits, recipientLimit, limit
<1>2. /\ d \in Limits /\ d \in sendLimits(who) /\ d.scope = Deployment /\ d.kind = "send"
      /\ d.window = Window /\ d.maximum = deploymentSendLimit15m
  BY LimitsOf DEF sendLimits, commonSendLimits, limit
<1>3. /\ h \in Limits /\ h \in sendLimits(who) /\ h.scope = Shared /\ h.kind = "send"
      /\ h.window = Day /\ h.maximum = sharedSendLimit24h
  BY LimitsOf DEF sendLimits, providerSendLimits, limit
<1> HIDE DEF l, d, h
<1>4. Window <= Day /\ Day <= Day
  BY DurationAssumption
<1>5. /\ IsFiniteSet(sent) /\ \A e, f \in sent : e.id = f.id => e = f
      /\ \A e \in sent : e.at \in Nat
  BY LogFacts, FS_Subset DEF sent
<1>6. /\ IsFiniteSet(mine) /\ \A e, f \in mine : e.id = f.id => e = f
      /\ \A e \in mine : e.at \in Nat
  BY LogFacts, FS_Subset
<1>7. \A e \in sent : e.at > clock - Day =>
        /\ event(d.scope, d.kind, e.id, e.at) \in db.quota
        /\ event(h.scope, h.kind, e.id, e.at) \in db.quota
  BY <1>2, <1>3 DEF QuotaInv, Counted, sent
<1>8. \A e \in mine : e.at > clock - Day => event(l.scope, l.kind, e.id, e.at) \in db.quota
  BY <1>1 DEF QuotaInv, Counted
<1> HIDE DEF mine
<1>9. Cardinality({e \in mine : e.at > clock - Window}) < recipientSendLimit15m
  BY <1>1, <1>4, <1>6, <1>8, LogFacts, RoomInTheRecord
<1>10. Cardinality({e \in sent : e.at > clock - Window}) < deploymentSendLimit15m
  BY <1>2, <1>4, <1>5, <1>7, LogFacts, RoomInTheRecord
<1>11. Cardinality({e \in sent : e.at > clock - Day}) < sharedSendLimit24h
  BY <1>3, <1>4, <1>5, <1>7, LogFacts, RoomInTheRecord
<1>12. /\ {e \in Contract!sends(Window) : e.who = who} = {e \in mine : e.at > clock - Window}
       /\ Contract!sends(Window) = {e \in sent : e.at > clock - Window}
       /\ Contract!sends(Day) = {e \in sent : e.at > clock - Day}
  BY DEF Contract!since, Contract!sends, sent, mine
<1>13. QED
  BY <1>9, <1>10, <1>11, <1>12, SameCardinality DEF Contract!roomToSend

-----------------------------------------------------------------------------
(***************************************************************************)
(* The steps, as those of the clerk.                                       *)
(***************************************************************************)
Recording == Recorded(db', executed') /\ Coded(db', rejected') /\ Contract!Next

LEMMA SameCommand ==
  ASSUME NEW r, NEW q, identity(r) = identity(q), fingerprint(r) = fingerprint(q)
  PROVE  command(r) = command(q)
BY DEF identity, fingerprint, command

LEMMA CommandFields ==
  ASSUME NEW r, NEW q
  PROVE  /\ command(r).name = r.name /\ command(r).key = r.key /\ command(r).target = r.target
         /\ command(r).recipient = r.recipient /\ command(r).expiresAt = r.expiresAt
         /\ command(r) = command(q) => identity(r) = identity(q) /\ fingerprint(r) = fingerprint(q)
<1>1. \A x : /\ command(x).name = x.name /\ command(x).key = x.key /\ command(x).target = x.target
             /\ command(x).recipient = x.recipient /\ command(x).expiresAt = x.expiresAt
  BY DEF command
<1>2. ASSUME command(r) = command(q)
      PROVE  identity(r) = identity(q) /\ fingerprint(r) = fingerprint(q)
  <2>1. /\ r.name = q.name /\ r.key = q.key /\ r.target = q.target
        /\ r.recipient = q.recipient /\ r.expiresAt = q.expiresAt
    BY <1>1, <1>2
  <2>2. QED
    BY <2>1 DEF identity, fingerprint
<1>3. QED
  BY <1>1, <1>2

\* Nothing a client notices.
LEMMA NothingHappens ==
  ASSUME answer' = NoAnswer, executed' = executed, rejected' = rejected, log' = log,
         clock' = clock
  PROVE  Contract!Next
<1>1. answerGiven' = NoAnswer /\ commandsDone' = commandsDone
  BY DEF answerGiven, commandsDone
<1>2. QED
  BY <1>1 DEF Contract!Next, Contract!Nothing

\* Rows change without a command: the record stays true.
LEMMA RowsRecorded ==
  ASSUME RecordInv, executed' = executed, rejected' = rejected, Preserves(db, db', clock),
         Stays(db, db'), Still(db, db')
  PROVE  Recorded(db', executed') /\ Coded(db', rejected')
<1>1. executed \subseteq [request : Request, result : Result]
  BY LogFacts DEF RecordInv
<1>2. QED
  BY <1>1, RecordedAlong, CodedAlong DEF RecordInv, Preserves, Still, unchanged

LEMMA SameRows ==
  ASSUME RecordInv, db' = db, executed' = executed, rejected' = rejected
  PROVE  Recorded(db', executed') /\ Coded(db', rejected')
BY DEF RecordInv

LEMMA RefuseRecorded ==
  ASSUME RecordInv, clock' = clock, NEW w \in Session, NEW s, Keeps(db, s), Stays(db, s),
         Still(db, s), refuse(w, s)
  PROVE  Recording
<1>1. /\ db' = s /\ answer' = NoAnswer /\ log' = log /\ executed' = executed
      /\ rejected' = rejected
  BY DEF refuse
<1>2. Recorded(db', executed') /\ Coded(db', rejected')
  BY <1>1, KeepsPreserves, RowsRecorded
<1>3. QED
  BY <1>1, <1>2, NothingHappens DEF Recording

LEMMA EntersRecorded ==
  ASSUME RecordInv, NEW w, NEW pc, NEW r, NEW a, NEW limits, NEW locks,
         enters(w, pc, r, a, limits, locks)
  PROVE  Recording
<1>1. /\ db' = db /\ clock' = clock /\ log' = log /\ executed' = executed /\ answer' = NoAnswer
      /\ rejected' = rejected
  BY DEF enters
<1>2. QED
  BY <1>1, SameRows, NothingHappens DEF Recording

LEMMA ReplayRecorded ==
  ASSUME RecordInv, AnswersAreFaithful', NEW w \in Session, NEW r \in Request, Replay(w, r)
  PROVE  Recording
<1> DEFINE s == replayed(db, r)
<1> DEFINE o == db.receipts[identity(r)].operation
<1>1. /\ clock \in Nat /\ db \in Tables /\ Linked(db)
  BY LogFacts DEF RecordInv
<1>2. identity(r) \in Identity /\ db.receipts[identity(r)] # NoReceipt
  BY Targets DEF Replay, unknown
<1>3. o \in OperationId
  BY <1>1, <1>2, TablesOf DEF Receipt
<1>4. s = expire(db, o)
  BY <1>2 DEF replayed
<1>5. Keeps(db, s) /\ Stays(db, s) /\ Still(db, s)
  BY <1>1, <1>3, <1>4, ExpireKeeps, ExpireStays, ExpireStill
<1>6. /\ clock' = clock /\ log' = log /\ executed' = executed /\ rejected' = rejected
      /\ db' = s \/ db' = db
  BY DEF Replay
<1> HIDE DEF s
<1>7. Recorded(db', executed') /\ Coded(db', rejected')
  BY <1>5, <1>6, KeepsPreserves, RowsRecorded, SameRows
<1>8. CASE answer' = NoAnswer
  BY <1>6, <1>7, <1>8, NothingHappens DEF Recording
<1>9. CASE answer' # NoAnswer
  <2>1. PICK e \in executed : /\ identity(e.request) = identity(answer'.request)
                              /\ fingerprint(e.request) = fingerprint(answer'.request)
                              /\ e.result = answer'.result
    BY <1>6, <1>9 DEF AnswersAreFaithful
  <2>2. outcome(answer') = outcome(e)
    BY <2>1, SameCommand DEF outcome
  <2>3. answerGiven' = outcome(answer')
    BY <1>9 DEF answerGiven
  <2>4. answerGiven' \in commandsDone
    BY <2>2, <2>3 DEF commandsDone
  <2>5. commandsDone' = commandsDone
    BY <1>6 DEF commandsDone
  <2>6. QED
    BY <1>6, <1>7, <2>4, <2>5 DEF Recording, Contract!Next, Contract!Repeat
<1>10. QED
  BY <1>8, <1>9

\* What the record says of a live operation, a free number and the current result.
LEMMA OpenInTheRecord ==
  ASSUME RecordInv, NEW o \in OperationId, live(db, o), clock < db.operations[o].expires_at
  PROVE  \E d \in commandsDone : /\ Contract!open(d, o)
                                 /\ d.command.recipient = db.operations[o].recipient
<1>1. used(db, o) /\ ~ended(db, o)
  BY DEF live, used, ended
<1>2. PICK e \in executed : /\ e.request.target = None /\ e.result.operation = o
                            /\ e.request.recipient = db.operations[o].recipient
                            /\ e.request.expiresAt = db.operations[o].expires_at
  BY <1>1 DEF RecordInv, Recorded
<1>3. ~Contract!closed(o)
  <2>1. ASSUME NEW d \in commandsDone, d.command.name = "close", d.command.target = o
        PROVE  FALSE
    <3>1. PICK f \in executed : d = outcome(f)
      BY DEF commandsDone
    <3>2. f.request.name = "close" /\ f.request.target = o
      BY <2>1, <3>1, CommandFields DEF outcome
    <3>3. o # None
      BY DEF None, OperationId
    <3>4. ended(db, o)
      BY <3>2, <3>3 DEF RecordInv, Recorded
    <3>5. QED
      BY <1>1, <3>4
  <2>2. QED
    BY <2>1 DEF Contract!closed
<1>4. /\ outcome(e).command.target = None /\ outcome(e).result.operation = o
      /\ outcome(e).command.recipient = db.operations[o].recipient
      /\ outcome(e).command.expiresAt = db.operations[o].expires_at
  BY <1>2, CommandFields DEF outcome
<1>5. Contract!open(outcome(e), o)
  BY <1>3, <1>4 DEF Contract!open
<1>6. QED
  BY <1>4, <1>5 DEF commandsDone

LEMMA NewInTheRecord ==
  ASSUME RecordInv
  PROVE  /\ \A o \in OperationId : ~used(db, o) => Contract!newOperation(o)
         /\ \A a \in AttemptId : db.attempts[a].operation = None => Contract!newAttempt(a)
         /\ \A o \in OperationId : used(db, o) => Contract!known(resultOf(db, o))
<1>1. None \notin AttemptId /\ None \notin OperationId
  BY DEF None, AttemptId, OperationId
<1>2. executed \subseteq [request : Request, result : Result]
  BY LogFacts DEF RecordInv
<1>3. \A d \in commandsDone : \E e \in executed : d.result = e.result
  BY DEF commandsDone, outcome
<1>4. ASSUME NEW o \in OperationId, ~used(db, o) PROVE Contract!newOperation(o)
  BY <1>3, <1>4 DEF Contract!newOperation, RecordInv, Recorded
<1>5. ASSUME NEW a \in AttemptId, db.attempts[a].operation = None PROVE Contract!newAttempt(a)
  <2>1. ASSUME NEW e \in executed, e.result.attempt = a PROVE FALSE
    <3>1. db.attempts[a].operation = e.result.operation
      BY <1>1, <2>1 DEF RecordInv, Recorded
    <3>2. e.result.operation \in OperationId
      BY <1>2, ResultFields
    <3>3. QED
      BY <1>1, <1>5, <3>1, <3>2
  <2>2. QED
    BY <1>1, <1>3, <2>1 DEF Contract!newAttempt
<1>6. ASSUME NEW o \in OperationId, used(db, o) PROVE Contract!known(resultOf(db, o))
  <2>1. PICK e \in executed : e.result = resultOf(db, o)
    BY <1>6 DEF RecordInv, Recorded
  <2>2. outcome(e) \in commandsDone /\ outcome(e).result = resultOf(db, o)
    BY <2>1 DEF commandsDone, outcome
  <2>3. QED
    BY <2>2 DEF Contract!known
<1>7. QED
  BY <1>4, <1>5, <1>6

LEMMA CodedInTheRecord ==
  ASSUME RecordInv, NEW o \in OperationId
  PROVE  /\ db.operations[o].state = "active" /\ o \notin rejected => Contract!coded(o)
         /\ db.operations[o].state = "prepared" => ~Contract!coded(o)
<1>1. \A d \in commandsDone : \E e \in executed : d.result = e.result
  BY DEF commandsDone, outcome
<1>2. codedAt(db, o, rejected)
  BY DEF RecordInv, Coded
<1>3. ASSUME db.operations[o].state = "active", o \notin rejected PROVE Contract!coded(o)
  <2>1. used(db, o) /\ db.operations[o].current_attempt_id # None
    BY <1>2, <1>3 DEF used, codedAt, begun
  <2>2. PICK e \in executed : e.result = resultOf(db, o)
    BY <2>1 DEF RecordInv, Recorded
  <2>3. /\ outcome(e) \in commandsDone /\ outcome(e).result.operation = o
        /\ outcome(e).result.attempt # None
    BY <2>1, <2>2 DEF commandsDone, outcome, resultOf
  <2>4. QED
    BY <2>3 DEF Contract!coded
<1>4. ASSUME db.operations[o].state = "prepared", Contract!coded(o) PROVE FALSE
  <2>1. PICK e \in executed : e.result.operation = o /\ e.result.attempt # None
    BY <1>1, <1>4 DEF Contract!coded
  <2>2. e.result.attempt \in AttemptId
    BY <2>1, LogFacts, ResultFields DEF RecordInv
  <2>3. db.attempts[e.result.attempt].operation = o
    BY <2>1 DEF RecordInv, Recorded
  <2>4. QED
    BY <1>2, <1>4, <2>2, <2>3 DEF codedAt, unsent
<1>5. QED
  BY <1>3, <1>4

\* Executing a request executes its command.
LEMMA CommandExecutes ==
  ASSUME RecordInv, NEW w \in Session, session[w].pc = "decide", clock' = clock,
         NEW r \in Request, r = session[w].request,
         NEW u \in Tables, NEW o \in OperationId, execute(w, u, o),
         r.name # "close" =>
           IF r.target = None THEN r.expiresAt > clock ELSE live(db, r.target)
  PROVE  /\ command(r) \in Commands /\ resultOf(u, o) \in Result
         /\ Contract!executes(command(r), resultOf(u, o))
<1> DEFINE e == [request |-> r, result |-> resultOf(u, o)]
<1> DEFINE given == [request |-> r, result |-> resultOf(u, o), live |-> live(u, o)]
<1>1. executed' = executed \cup {e} /\ answer' = given /\ rejected' = rejected
  BY DEF execute
<1>2. resultOf(u, o) \in Result
  BY TablesOf DEF resultOf, Result, Operation
<1>3. given # NoAnswer
  <2>1. live(u, o) \in BOOLEAN
    BY DEF live
  <2>2. given \in Answer
    BY <1>2, <2>1 DEF Answer
  <2>3. QED
    BY <2>2, AbsenceAssumption
<1>4. /\ outcome(e) = [command |-> command(r), result |-> resultOf(u, o)]
      /\ outcome(given) = [command |-> command(r), result |-> resultOf(u, o)]
  BY DEF outcome
<1> HIDE DEF e, given
<1>5. answerGiven' = [command |-> command(r), result |-> resultOf(u, o)]
  BY <1>1, <1>3, <1>4 DEF answerGiven
<1>6. commandsDone' = commandsDone \cup {[command |-> command(r), result |-> resultOf(u, o)]}
  BY <1>1, <1>4 DEF commandsDone
<1>7. ASSUME r.name # "close" PROVE \A d \in commandsDone : d.command # command(r)
  <2>1. r # NoRequest
    BY AbsenceAssumption
  <2>2. db.receipts[identity(r)] = NoReceipt
    BY <2>1 DEF RecordInv, QuotaInv, AdmissionInv, Sessions, unknown
  <2>3. /\ Remembered(db, executed, clock) /\ clock \in Nat
        /\ executed \subseteq [request : Request, result : Result]
    BY LogFacts DEF RecordInv, QuotaInv, AdmissionInv
  <2>4. \A f \in executed : ~(/\ identity(f.request) = identity(r)
                              /\ fingerprint(f.request) = fingerprint(r))
    BY <1>7, <2>2, <2>3, ExecutedAnew
  <2>5. \A f \in executed : command(f.request) # command(r)
    BY <2>4, CommandFields
  <2>6. QED
    BY <2>5 DEF commandsDone, outcome
<1>8. command(r).name = r.name
  BY CommandFields
<1>9. command(r) \in Commands
  BY DEF Commands
<1>10. QED
  BY <1>1, <1>2, <1>5, <1>6, <1>7, <1>8, <1>9 DEF Contract!executes

\* And records it.
LEMMA ExecuteRecorded ==
  ASSUME RecordInv, NEW w \in Session, NEW r \in Request, r = session[w].request,
         NEW u \in Tables, Keeps(db, u), Stays(db, u), NEW o \in OperationId, used(u, o),
         Grows(db, u, o), Coded(u, rejected), execute(w, u, o),
         r.target # None => o = r.target,
         r.name = "close" => ended(u, o),
         used(db, o) \/ /\ r.target = None
                        /\ u.operations[o].recipient = r.recipient
                        /\ u.operations[o].expires_at = r.expiresAt
  PROVE  Recorded(db', executed') /\ Coded(db', rejected')
<1>1. /\ db' = save(u, r, o)
      /\ executed' = executed \cup {[request |-> r, result |-> resultOf(u, o)]}
      /\ rejected' = rejected
  BY DEF execute
<1>2. /\ executed \subseteq [request : Request, result : Result] /\ clock \in Nat /\ db \in Tables
  BY LogFacts DEF RecordInv
<1>3. Recorded(u, executed \cup {[request |-> r, result |-> resultOf(u, o)]})
  BY <1>2, RecordedAnew DEF RecordInv
<1>4. db'.operations = u.operations /\ db'.attempts = u.attempts
  BY <1>1, <1>2, SaveForm
<1>5. Coded(db', rejected')
  BY <1>1, <1>4 DEF Coded, codedAt, unsent, begun, used
<1>6. QED
  BY <1>1, <1>3, <1>4, <1>5, RecordedRows

LEMMA AdmitRecorded ==
  ASSUME RecordInv, NEW w \in Session, Admit(w)
  PROVE  Recording
<1> DEFINE r == session[w].request
<1> DEFINE who == r.recipient
<1> DEFINE o == nextOperation(db)
<1> DEFINE s == admitOperation(db, r)
<1> DEFINE u == IF r.name = "create" THEN attachCode(s, o, r.code) ELSE s
<1>1. /\ session[w].pc = "decide" /\ r \in Request /\ r.target = None
      /\ r.name \in {"prepare", "create"}
      /\ clock \in Nat /\ db \in Tables /\ Linked(db)
  BY Decides DEF RecordInv, QuotaInv, Admit
<1>2. clock' = clock
  BY DEF Admit
<1>3. CASE refuse(w, db)
  BY <1>2, <1>3, KeepsItself, StillItself, RefuseRecorded DEF Stays
<1>4. CASE /\ ~(r.expiresAt <= clock) /\ ~session[w].blocked
           /\ o \in OperationId
           /\ r.name = "create" => nextAttempt(db) \in AttemptId
           /\ execute(w, u, o)
           /\ logged("create", who, o, <<"operation", o>>)
  <2>1. /\ s \in Tables /\ Linked(s) /\ Keeps(db, s) /\ live(s, o)
        /\ s.operations[o].expires_at = r.expiresAt
        /\ s.operations[o].code = NoCode
        /\ s.attempts = db.attempts
    BY <1>1, <1>4, AdmitKeeps
  <2>2. /\ Stays(db, s) /\ s.operations[o].recipient = who
    BY <1>1, <1>4, AdmitBooks DEF RecordInv, QuotaInv
  <2>3. /\ Grows(db, s, o) /\ s.operations[o].current_attempt_id = None
        /\ s.operations[o].state = "prepared" /\ unsent(s, o)
    BY <1>1, <1>4, AdmitGrows
  <2>4. ~used(db, o) /\ o \notin rejected
    <3>1. ~used(db, o)
      BY <1>1, <1>4, NextIsFree DEF OperationId
    <3>2. QED
      BY <1>4, <3>1 DEF RecordInv, Coded, codedAt
  <2> DEFINE c == u.operations[o].current_attempt_id
  <2> HIDE DEF s, o
  <2>5. /\ u \in Tables /\ Keeps(s, u) /\ Stays(s, u) /\ Grows(s, u, o)
        /\ IF r.name = "create" THEN c \in AttemptId /\ db.attempts[c].operation = None
           ELSE c = None
        /\ codedAt(u, o, rejected)
    <3>1. CASE r.name = "create"
      <4>1. nextAttempt(s) = nextAttempt(db) /\ nextAttempt(db) \in AttemptId
        BY <1>4, <2>1, <3>1 DEF nextAttempt
      <4>2. r.code \in Code /\ r.code # NoCode
        BY <1>1, <3>1, Fields
      <4>3. /\ u \in Tables /\ Keeps(s, u) /\ Stays(s, u) /\ Grows(s, u, o)
            /\ c = nextAttempt(db) /\ codedAt(u, o, rejected)
        BY <1>1, <1>4, <2>1, <2>4, <3>1, <4>1, <4>2, AttachKeeps, AttachStays, AttachGrows
      <4>4. db.attempts[nextAttempt(db)].state = "unused"
        BY <1>1, <4>1, NextIsFree DEF AttemptId
      <4>5. db.attempts[nextAttempt(db)].operation = None
        BY <1>1, <4>1, <4>4 DEF Linked
      <4> HIDE DEF u, r
      <4>6. QED
        BY <3>1, <4>1, <4>3, <4>5
    <3>2. CASE r.name # "create"
      <4>1. u = s /\ used(s, o)
        BY <2>1, <3>2 DEF live, used
      <4> HIDE DEF u, r
      <4>2. Grows(s, u, o)
        BY <1>4, <4>1, StillItself, StillGrows
      <4>3. QED
        BY <2>1, <2>3, <2>4, <3>2, <4>1, <4>2, KeepsItself DEF Stays, codedAt
    <3>3. QED
      BY <3>1, <3>2
  <2> HIDE DEF u
  <2>6. Keeps(db, u) /\ Stays(db, u) /\ Grows(db, u, o) /\ Coded(u, rejected)
    <3>1. Keeps(db, u) /\ Stays(db, u) /\ Grows(db, u, o)
      BY <1>1, <1>4, <2>1, <2>2, <2>3, <2>5, KeepsAlong, StaysAlong, GrowsAlong
    <3>2. QED
      BY <1>4, <2>5, <3>1, CodedAnew DEF RecordInv, Keeps
  <2>7. /\ used(u, o) /\ u.operations[o].recipient = r.recipient
        /\ u.operations[o].expires_at = r.expiresAt
    BY <1>4, <2>1, <2>2, <2>5 DEF Keeps, Stays, used, live
  <2>8. Recorded(db', executed') /\ Coded(db', rejected')
    BY <1>1, <1>4, <2>5, <2>6, <2>7, ExecuteRecorded
  <2>9. r.expiresAt \in Nat /\ clock < r.expiresAt /\ who \in Recipient
    BY <1>1, <1>4, Fields
  <2>10. /\ command(r) \in Commands /\ resultOf(u, o) \in Result
         /\ Contract!executes(command(r), resultOf(u, o))
    BY <1>1, <1>2, <1>4, <2>5, <2>9, CommandExecutes
  <2>11. Contract!roomToAdmit(who)
    <3>1. recipientFor(db, session[w]) = who /\ claims(db, session[w]) = admissionLimits(who)
      BY <1>1, AbsenceAssumption DEF recipientFor, claims
    <3>2. \A l \in admissionLimits(who) : Cardinality(counting(db.quota, l, clock)) < l.maximum
      BY <1>1, <1>4, <3>1 DEF RecordInv, QuotaInv, Claimed
    <3>3. QED
      BY <2>9, <3>2, RoomToAdmit DEF RecordInv
  <2>12. Contract!notes("create", who, o, <<"operation", o>>)
    BY <1>4 DEF logged, Contract!notes
  <2>13. resultOf(u, o).operation = o /\ resultOf(u, o).attempt = c
    BY DEF resultOf
  <2>14. /\ Contract!newOperation(o)
         /\ IF r.name = "create" THEN Contract!newAttempt(c) ELSE c = None
    BY <1>4, <2>4, <2>5, NewInTheRecord
  <2> HIDE DEF r, c
  <2>15. Contract!Admit(command(r), resultOf(u, o))
    BY <1>1, <2>9, <2>10, <2>11, <2>12, <2>13, <2>14, CommandFields DEF Contract!Admit
  <2>16. Contract!Next
    BY <2>10, <2>15 DEF Contract!Next
  <2>17. QED
    BY <2>8, <2>16 DEF Recording
<1>5. QED
  BY <1>3, <1>4 DEF Admit

LEMMA SubmitRecorded ==
  ASSUME RecordInv, NEW w \in Session, Submit(w)
  PROVE  Recording
<1> DEFINE r == session[w].request
<1> DEFINE o == r.target
<1> DEFINE s == expire(db, o)
<1>1. /\ session[w].pc = "decide" /\ r \in Request /\ r.name = "submit"
      /\ o # None /\ o \in OperationId /\ used(db, o)
      /\ clock \in Nat /\ db \in Tables /\ Linked(db)
  BY Decides DEF RecordInv, QuotaInv, Submit
<1>2. clock' = clock
  BY DEF Submit
<1>3. /\ Keeps(db, s) /\ Stays(db, s) /\ Still(db, s)
      /\ live(s, o) => s = db /\ clock < db.operations[o].expires_at
  BY <1>1, ExpireKeeps, ExpireStays, ExpireStill
<1>4. CASE refuse(w, s)
  BY <1>2, <1>3, <1>4, RefuseRecorded
<1>5. ASSUME attachable(s, o, r.code)
      PROVE  /\ s = db /\ live(db, o) /\ clock < db.operations[o].expires_at
             /\ db.operations[o].code \in {NoCode, r.code}
             /\ r.code \in Code /\ r.code # NoCode
             /\ codedAt(db, o, rejected)
             /\ db.operations[o].code # r.code => db.operations[o].state = "prepared"
             /\ db.operations[o].code = r.code => db.operations[o].state = "active"
  <2>1. s = db /\ live(db, o) /\ clock < db.operations[o].expires_at
    <3>1. live(s, o)
      BY <1>5 DEF attachable
    <3>2. QED
      BY <1>3, <3>1
  <2>2. r.code \in Code /\ r.code # NoCode
    BY <1>1, Fields
  <2>3. codedAt(db, o, rejected)
    BY <1>1 DEF RecordInv, Coded
  <2>4. db.operations[o].code \in {NoCode, r.code}
    BY <1>5, <2>1 DEF attachable
  <2> HIDE DEF s, r
  <2>5. QED
    BY <2>1, <2>2, <2>3, <2>4 DEF live, codedAt, unsent, begun
<1>6. CASE /\ attachable(s, o, r.code)
           /\ s.operations[o].code # r.code => nextAttempt(s) \in AttemptId
           /\ execute(w, attachCode(s, o, r.code), o)
           /\ log' = log
  <2> DEFINE u == attachCode(db, o, r.code)
  <2>1. /\ db.operations[o].code # r.code => nextAttempt(db) \in AttemptId
        /\ execute(w, u, o) /\ log' = log
    BY <1>5, <1>6
  <2>2. /\ live(db, o) /\ clock < db.operations[o].expires_at
        /\ r.code \in Code /\ codedAt(db, o, rejected)
        /\ db.operations[o].code # r.code => db.operations[o].state = "prepared"
        /\ db.operations[o].code = r.code => db.operations[o].state = "active"
    BY <1>5, <1>6
  <2> HIDE DEF s
  <2>3. /\ u \in Tables /\ Keeps(db, u) /\ Stays(db, u) /\ Grows(db, u, o)
        /\ \/ db.operations[o].code = r.code /\ u = db
           \/ /\ db.operations[o].code # r.code /\ o \notin rejected
              /\ codedAt(u, o, rejected)
              /\ u.operations[o].current_attempt_id = nextAttempt(db)
    <3>1. db.operations[o].code # r.code => o \notin rejected
      BY <2>2 DEF codedAt
    <3>2. QED
      BY <1>1, <2>1, <2>2, <3>1, AttachKeeps, AttachStays, AttachGrows
  <2> HIDE DEF u
  <2>4. used(u, o)
    BY <1>1, <2>3 DEF Keeps
  <2>5. Recorded(db', executed') /\ Coded(db', rejected')
    <3>1. Coded(u, rejected)
      BY <1>1, <2>2, <2>3, CodedAnew DEF RecordInv, Keeps
    <3>2. QED
      BY <1>1, <2>1, <2>3, <2>4, <3>1, ExecuteRecorded
  <2>6. /\ command(r) \in Commands /\ resultOf(u, o) \in Result
        /\ Contract!executes(command(r), resultOf(u, o))
    BY <1>1, <1>2, <2>1, <2>2, <2>3, CommandExecutes
  <2> DEFINE result == resultOf(u, o)
  <2>7. \/ o \in rejected /\ Contract!known(result) /\ result.attempt = None
        \/ /\ o \notin rejected /\ Contract!coded(o)
           /\ Contract!known(result) /\ result.attempt # None
        \/ o \notin rejected /\ ~Contract!coded(o) /\ Contract!newAttempt(result.attempt)
    <3>1. result.attempt = u.operations[o].current_attempt_id
      BY DEF resultOf
    <3>2. CASE db.operations[o].code = r.code /\ u = db
      <4>1. /\ db.operations[o].state = "active"
            /\ u.operations[o].current_attempt_id = None <=> o \in rejected
        BY <2>2, <3>2 DEF codedAt, begun
      <4>2. Contract!known(result) /\ (o \notin rejected => Contract!coded(o))
        BY <1>1, <3>2, <4>1, CodedInTheRecord, NewInTheRecord
      <4> HIDE DEF result, o, r
      <4>3. QED
        BY <3>1, <4>1, <4>2
    <3>3. CASE /\ db.operations[o].code # r.code /\ o \notin rejected
               /\ u.operations[o].current_attempt_id = nextAttempt(db)
      <4>1. ~Contract!coded(o)
        BY <1>1, <2>2, <3>3, CodedInTheRecord
      <4>2. db.attempts[nextAttempt(db)].state = "unused" /\ nextAttempt(db) \in AttemptId
        BY <1>1, <2>1, <3>3, NextIsFree DEF AttemptId
      <4>3. db.attempts[nextAttempt(db)].operation = None
        BY <1>1, <4>2 DEF Linked
      <4>4. Contract!newAttempt(nextAttempt(db))
        BY <4>2, <4>3, NewInTheRecord
      <4> HIDE DEF result, o, r
      <4>5. QED
        BY <3>1, <3>3, <4>1, <4>4
    <3>4. QED
      BY <2>3, <3>2, <3>3
  <2>8. \E d \in commandsDone : Contract!open(d, o)
    BY <1>1, <2>2, OpenInTheRecord
  <2>9. result.operation = o
    BY DEF resultOf
  <2>10. command(r).name = "submit" /\ command(r).target = o
    BY <1>1, CommandFields
  <2>11. Contract!executes(command(r), result) /\ result \in Result
    BY <2>6
  <2> HIDE DEF r, o, result
  <2>12. Contract!Submit(command(r), result)
    BY <2>1, <2>7, <2>8, <2>9, <2>10, <2>11 DEF Contract!Submit
  <2>13. Contract!Next
    BY <2>6, <2>11, <2>12 DEF Contract!Next
  <2>14. QED
    BY <2>5, <2>13 DEF Recording
<1>7. CASE attachable(s, o, r.code) /\ reject(w, s, o, r.code) /\ log' = log
  <2> DEFINE v == storeCode(db, o, r.code)
  <2>1. /\ live(db, o) /\ clock < db.operations[o].expires_at
        /\ r.code \in Code /\ r.code # NoCode /\ codedAt(db, o, rejected)
        /\ db.operations[o].state = "prepared"
        /\ db' = v /\ rejected' = rejected \cup {o} /\ answer' = NoAnswer
        /\ executed' = executed
    BY <1>5, <1>7 DEF reject
  <2> HIDE DEF s
  <2>2. /\ Keeps(db, v) /\ Stays(db, v) /\ Grows(db, v, o) /\ used(v, o)
        /\ v.operations[o].state = "active" /\ v.operations[o].code = r.code
        /\ v.operations[o].current_attempt_id = None
        /\ v.attempts = db.attempts
        /\ \A p \in OperationId : p # o => v.operations[p] = db.operations[p]
    BY <1>1, <2>1, StoreForm, StoreKeeps, StoreStays, StoreGrows DEF codedAt, unsent, used
  <2> HIDE DEF v
  <2>3. Recorded(db', executed')
    <3>1. \A p \in OperationId :
            /\ used(v, p) => used(db, p)
            /\ v.operations[p].current_attempt_id = db.operations[p].current_attempt_id
      BY <1>1, <2>1, <2>2 DEF codedAt, unsent, used
    <3>2. \A a \in AttemptId : v.attempts[a].operation = db.attempts[a].operation
      BY <2>2
    <3>3. Preserves(db, v, clock) /\ executed \subseteq [request : Request, result : Result]
      BY <2>2, KeepsPreserves, LogFacts DEF RecordInv
    <3>4. Recorded(v, executed)
      BY <2>2, <3>1, <3>2, <3>3, RecordedAlong DEF RecordInv
    <3>5. QED
      BY <2>1, <3>4
  <2>4. Coded(v, rejected \cup {o})
    <3>1. ASSUME NEW p \in OperationId, p # o PROVE codedAt(v, p, rejected \cup {o})
      <4>1. codedAt(db, p, rejected) /\ v.operations[p] = db.operations[p]
        BY <2>2, <3>1 DEF RecordInv, Coded
      <4>2. v.attempts = db.attempts
        BY <2>2
      <4>3. p \in rejected \cup {o} <=> p \in rejected
        BY <3>1
      <4>4. QED
        BY <4>1, <4>2, <4>3 DEF codedAt, unsent, begun, used
    <3>2. codedAt(v, o, rejected \cup {o})
      BY <2>1, <2>2 DEF codedAt, begun
    <3>3. QED
      BY <3>1, <3>2 DEF Coded
  <2>5. ~Contract!coded(o) /\ o \notin rejected
    BY <1>1, <2>1, CodedInTheRecord DEF codedAt
  <2>6. \E d \in commandsDone : Contract!open(d, o)
    BY <1>1, <2>1, OpenInTheRecord
  <2>7. answerGiven' = NoAnswer /\ commandsDone' = commandsDone
    BY <2>1 DEF answerGiven, commandsDone
  <2>8. command(r) \in Commands /\ command(r).name = "submit" /\ command(r).target = o
    BY <1>1, CommandFields DEF Commands
  <2> HIDE DEF r, o
  <2>9. Contract!Reject(command(r))
    BY <1>2, <1>7, <2>1, <2>5, <2>6, <2>7, <2>8 DEF Contract!Reject
  <2>10. Contract!Next
    BY <2>8, <2>9 DEF Contract!Next
  <2>11. QED
    BY <2>1, <2>3, <2>4, <2>10 DEF Recording
<1>8. QED
  BY <1>4, <1>6, <1>7 DEF Submit

LEMMA DeliverRecorded ==
  ASSUME RecordInv, NEW w \in Session, Deliver(w)
  PROVE  Recording
<1> DEFINE r == session[w].request
<1> DEFINE o == r.target
<1> DEFINE s == expire(db, o)
<1> DEFINE who == db.operations[o].recipient
<1> DEFINE a == nextAttempt(db)
<1> DEFINE u == requestSend(db, o)
<1>1. /\ session[w].pc = "decide" /\ r \in Request /\ r.name = "deliver"
      /\ o # None /\ o \in OperationId /\ used(db, o)
      /\ clock \in Nat /\ db \in Tables /\ Linked(db)
  BY Decides DEF RecordInv, QuotaInv, Deliver
<1>2. clock' = clock
  BY DEF Deliver
<1>3. /\ Keeps(db, s) /\ Stays(db, s) /\ Still(db, s)
      /\ live(s, o) => s = db /\ clock < db.operations[o].expires_at
  BY <1>1, ExpireKeeps, ExpireStays, ExpireStill
<1>4. CASE refuse(w, s)
  BY <1>2, <1>3, <1>4, RefuseRecorded
<1>5. CASE /\ s.operations[o].state = "active" /\ s.operations[o].current_attempt_id # None
           /\ ~userSendBlock(s, o, session[w].blocked)
           /\ nextAttempt(s) \in AttemptId
           /\ execute(w, requestSend(s, o), o)
           /\ logged("deliver", s.operations[o].recipient, o, <<"attempt", nextAttempt(s)>>)
  <2>1. /\ s = db /\ live(db, o) /\ clock < db.operations[o].expires_at
        /\ db.operations[o].state = "active" /\ o \notin rejected
    <3>1. live(s, o)
      BY <1>5 DEF live
    <3>2. s = db /\ codedAt(db, o, rejected)
      BY <1>1, <1>3, <3>1 DEF RecordInv, Coded
    <3>3. QED
      BY <1>3, <1>5, <3>1, <3>2 DEF codedAt, begun
  <2>2. /\ ~session[w].blocked /\ a \in AttemptId /\ execute(w, u, o)
        /\ logged("deliver", who, o, <<"attempt", a>>)
    BY <1>5, <2>1 DEF userSendBlock
  <2> HIDE DEF s
  <2>3. /\ u \in Tables /\ Keeps(db, u) /\ Stays(db, u) /\ Grows(db, u, o)
        /\ u.operations[o].current_attempt_id = a
        /\ u.operations[o].state = db.operations[o].state
        /\ u.operations[o].code = db.operations[o].code
    BY <1>1, <2>1, <2>2, RequestSendKeeps, RequestSendBooks, RequestSendGrows
       DEF RecordInv, QuotaInv
  <2> HIDE DEF u
  <2>4. used(u, o)
    BY <1>1, <2>3 DEF Keeps
  <2>5. Recorded(db', executed') /\ Coded(db', rejected')
    <3>1. codedAt(db, o, rejected) /\ a # None
      BY <1>1, <2>2 DEF RecordInv, Coded, AttemptId, None
    <3>2. codedAt(u, o, rejected)
      BY <2>1, <2>3, <2>4, <3>1 DEF codedAt, begun
    <3>3. Coded(u, rejected)
      BY <1>1, <2>3, <3>2, CodedAnew DEF RecordInv, Keeps
    <3>4. QED
      BY <1>1, <2>2, <2>3, <2>4, <3>3, ExecuteRecorded
  <2>6. /\ command(r) \in Commands /\ resultOf(u, o) \in Result
        /\ Contract!executes(command(r), resultOf(u, o))
    BY <1>1, <1>2, <2>1, <2>2, <2>3, CommandExecutes
  <2>7. Contract!coded(o) /\ Contract!newAttempt(a)
    <3>1. db.attempts[a].state = "unused"
      BY <1>1, <2>2, NextIsFree DEF AttemptId
    <3>2. db.attempts[a].operation = None
      BY <1>1, <2>2, <3>1 DEF Linked
    <3>3. QED
      BY <1>1, <2>1, <2>2, <3>2, CodedInTheRecord, NewInTheRecord
  <2>8. PICK d \in commandsDone : Contract!open(d, o) /\ d.command.recipient = who
    BY <1>1, <2>1, OpenInTheRecord
  <2>9. Contract!leftAlone(who)
    <3>1. who \in Recipient
      BY <1>1, TablesOf DEF Operation
    <3>2. who = recipientFor(db, session[w])
      BY <1>1, AbsenceAssumption DEF recipientFor
    <3>3. admissionLimit(who) \in admissionLimits(who) /\ admissionLimit(who).kind = "admission"
      BY DEF admissionLimits, admissionLimit, limit
    <3>4. admissionLimit(who) \in claims(db, session[w])
      BY <1>1, <3>2, <3>3, AbsenceAssumption DEF claims
    <3>5. Cardinality(counting(db.quota, admissionLimit(who), clock))
            < admissionLimit(who).maximum
      BY <1>1, <2>2, <3>4 DEF RecordInv, QuotaInv, Claimed
    <3>6. QED
      BY <3>1, <3>5, LeftAlone DEF RecordInv
  <2>10. Contract!notes("deliver", who, o, <<"attempt", a>>)
    BY <2>2 DEF logged, Contract!notes
  <2>11. resultOf(u, o).operation = o /\ resultOf(u, o).attempt = a
    BY <2>3 DEF resultOf
  <2>12. command(r).name = "deliver" /\ command(r).target = o
    BY <1>1, CommandFields
  <2> HIDE DEF r, o, a, who
  <2>13. Contract!Deliver(command(r), resultOf(u, o))
    BY <2>6, <2>7, <2>8, <2>9, <2>10, <2>11, <2>12 DEF Contract!Deliver
  <2>14. Contract!Next
    BY <2>6, <2>13 DEF Contract!Next
  <2>15. QED
    BY <2>5, <2>14 DEF Recording
<1>6. QED
  BY <1>4, <1>5 DEF Deliver

LEMMA CloseRecorded ==
  ASSUME RecordInv, NEW w \in Session, Close(w)
  PROVE  Recording
<1> DEFINE r == session[w].request
<1> DEFINE o == r.target
<1> DEFINE s == expire(db, o)
<1> DEFINE u == IF live(s, o) THEN terminate(s, o, "closed") ELSE s
<1>1. /\ session[w].pc = "decide" /\ r \in Request /\ r.name = "close"
      /\ o # None /\ o \in OperationId /\ used(db, o)
      /\ clock \in Nat /\ db \in Tables /\ Linked(db)
  BY Decides DEF RecordInv, QuotaInv, Close
<1>2. clock' = clock /\ log' = log /\ execute(w, u, o)
  BY DEF Close
<1>3. /\ s \in Tables /\ Linked(s) /\ Keeps(db, s) /\ Stays(db, s) /\ Still(db, s)
      /\ used(s, o)
  <2>1. s \in Tables /\ Linked(s) /\ Keeps(db, s) /\ Stays(db, s) /\ Still(db, s)
    BY <1>1, ExpireKeeps, ExpireStays, ExpireStill
  <2>2. QED
    BY <1>1, <2>1 DEF Keeps
<1> HIDE DEF s
<1>4. u \in Tables /\ Keeps(s, u) /\ Stays(s, u) /\ Still(s, u) /\ ended(u, o)
  <2>1. "closed" \in Terminal
    BY DEF Terminal
  <2>2. CASE live(s, o)
    <3>1. u = terminate(s, o, "closed")
      BY <2>2
    <3> HIDE DEF u
    <3>2. u.operations[o].state = "closed"
      BY <1>1, <1>3, <2>1, <3>1, TerminateForm
    <3>3. ended(u, o)
      BY <3>2 DEF ended
    <3>4. QED
      BY <1>1, <1>3, <2>1, <2>2, <3>1, <3>3, TerminateKeeps, TerminateStays, TerminateStill
  <2>3. CASE ~live(s, o)
    <3>1. s.operations[o].state \in {"absent", "prepared", "active", "closed", "expired", "deleted"}
      BY <1>1, <1>3, TablesOf DEF Operation
    <3>2. ended(s, o)
      BY <1>3, <2>3, <3>1 DEF ended, live, used
    <3>3. QED
      BY <1>3, <2>3, <3>2, KeepsItself, StillItself DEF Stays
  <2>4. QED
    BY <2>2, <2>3
<1> HIDE DEF u
<1>5. Keeps(db, u) /\ Stays(db, u) /\ Still(db, u)
  BY <1>1, <1>3, <1>4, KeepsAlong, StaysAlong, StillAlong
<1>6. Grows(db, u, o) /\ used(u, o)
  BY <1>1, <1>5, StillGrows DEF Keeps
<1>7. Recorded(db', executed') /\ Coded(db', rejected')
  <2>1. Coded(u, rejected)
    BY <1>5, CodedAlong DEF RecordInv, Keeps
  <2>2. QED
    BY <1>1, <1>2, <1>4, <1>5, <1>6, <2>1, ExecuteRecorded
<1>8. /\ command(r) \in Commands /\ resultOf(u, o) \in Result
      /\ Contract!executes(command(r), resultOf(u, o))
  BY <1>1, <1>2, <1>4, CommandExecutes
<1>9. Contract!known(resultOf(u, o))
  <2>1. resultOf(u, o) = resultOf(db, o)
    BY <1>1, <1>5 DEF Still, unchanged, resultOf
  <2>2. QED
    BY <1>1, <2>1, NewInTheRecord
<1>10. resultOf(u, o).operation = o
  BY DEF resultOf
<1>11. command(r).name = "close" /\ command(r).target = o
  BY <1>1, CommandFields
<1> HIDE DEF r, o
<1>12. Contract!Close(command(r), resultOf(u, o))
  BY <1>2, <1>8, <1>9, <1>10, <1>11 DEF Contract!Close
<1>13. Contract!Next
  BY <1>8, <1>12 DEF Contract!Next
<1>14. QED
  BY <1>7, <1>13 DEF Recording

\* A send belongs to the command that made its attempt, and the attempt was not sent yet.
LEMMA GateRecorded ==
  ASSUME RecordInv, NEW w \in Session, Gate(w)
  PROVE  Recording
<1> DEFINE a == session[w].attempt
<1> DEFINE o == db.attempts[a].operation
<1> DEFINE s == expire(db, o)
<1> DEFINE who == db.operations[o].recipient
<1> DEFINE id == <<"attempt", a>>
<1>1. /\ clock \in Nat /\ db \in Tables /\ Linked(db) /\ clock' = clock
      /\ session[w].pc = "decide" /\ session[w].request = NoRequest
  BY LogFacts DEF RecordInv, Gate
<1>2. a \in AttemptId /\ o \in OperationId /\ o # None /\ used(db, o)
  <2>1. a \in AttemptId /\ o # None
    BY <1>1 DEF RecordInv, QuotaInv, AdmissionInv, Sessions
  <2>2. db.attempts[a].operation \in OperationId \cup {None}
    BY <1>1, <2>1, TablesOf DEF Attempt
  <2>3. QED
    BY <1>1, <2>1, <2>2 DEF Linked
<1>3. /\ s \in Tables /\ Linked(s) /\ Keeps(db, s) /\ Stays(db, s) /\ Still(db, s)
      /\ live(s, o) => s = db /\ clock < db.operations[o].expires_at
  BY <1>1, <1>2, ExpireKeeps, ExpireStays, ExpireStill
<1>4. CASE refuse(w, s)
  BY <1>1, <1>3, <1>4, RefuseRecorded
<1>5. CASE s.attempts[a].state = "pending" /\ refuse(w, [s EXCEPT !.attempts[a].state = "suppressed"])
  <2> DEFINE u == [s EXCEPT !.attempts[a].state = "suppressed"]
  <2> HIDE DEF s, a
  <2>1. Keeps(s, u) /\ Stays(s, u) /\ Still(s, u)
    BY <1>2, <1>3, <1>5, MoveKeeps, MoveStays, MoveStill DEF Sending
  <2>2. refuse(w, u)
    BY <1>5
  <2> HIDE DEF u
  <2>3. Keeps(db, u) /\ Stays(db, u) /\ Still(db, u)
    BY <1>1, <1>3, <2>1, KeepsAlong, StaysAlong, StillAlong
  <2>4. QED
    BY <1>1, <2>2, <2>3, RefuseRecorded
<1>6. CASE /\ s.attempts[a].state = "pending" /\ ~session[w].blocked
           /\ db' = reserve(s, a, s.operations[o].recipient)
           /\ logged("send", s.operations[o].recipient, o, <<"attempt", a>>)
           /\ answer' = NoAnswer /\ executed' = executed /\ rejected' = rejected
  <2>1. s = db /\ live(db, o) /\ clock < db.operations[o].expires_at
    <3>1. s.attempts[a].operation = o
      BY <1>2, <1>3 DEF Still
    <3>2. live(s, o)
      BY <1>2, <1>3, <1>6, <3>1 DEF Linked
    <3>3. QED
      BY <1>3, <3>2
  <2>2. /\ db.attempts[a].state = "pending" /\ db' = reserve(db, a, who)
        /\ logged("send", who, o, id)
    BY <1>6, <2>1
  <2>3. who \in Recipient
    BY <1>1, <1>2, TablesOf DEF Operation
  <2> HIDE DEF s
  <2>4. Keeps(db, db') /\ Stays(db, db') /\ Still(db, db')
    BY <1>1, <1>2, <2>2, <2>3, ReserveKeeps, ReserveBooks, ReserveStill DEF RecordInv, QuotaInv
  <2>5. Recorded(db', executed') /\ Coded(db', rejected')
    BY <1>6, <2>4, KeepsPreserves, RowsRecorded
  <2>6. PICK d \in commandsDone : Contract!open(d, o) /\ d.command.recipient = who
    BY <1>2, <2>1, OpenInTheRecord
  <2>7. PICK e \in executed : e.result = [operation |-> o, attempt |-> a]
    BY <1>2 DEF RecordInv, Recorded
  <2> DEFINE x == outcome(e)
  <2>8. x \in commandsDone /\ x.result.operation = o /\ x.result.attempt = a
    BY <2>7 DEF commandsDone, outcome
  <2>9. a # None
    BY <1>2 DEF None, AttemptId
  <2>10. \A f \in log : ~(f.what = "send" /\ f.id = id)
    <3>1. ASSUME NEW f \in log, f.what = "send", f.id = id PROVE FALSE
      <4>1. EntryOK(db, f, clock)
        BY DEF RecordInv, QuotaInv, LogOK
      <4>2. PICK b \in AttemptId : f.id = <<"attempt", b>> /\ db.attempts[b].state \in Sending
        BY <3>1, <4>1 DEF EntryOK
      <4>3. b = a
        BY <3>1, <4>2
      <4>4. QED
        BY <2>2, <4>2, <4>3 DEF Sending
    <3>2. QED
      BY <3>1
  <2>11. Contract!roomToSend(who)
    <3>1. claims(db, session[w]) = sendLimits(who)
      BY <1>1 DEF claims, recipientFor
    <3>2. \A l \in sendLimits(who) : Cardinality(counting(db.quota, l, clock)) < l.maximum
      BY <1>1, <1>6, <3>1 DEF RecordInv, QuotaInv, Claimed
    <3>3. QED
      BY <2>3, <3>2, RoomToSend DEF RecordInv
  <2>12. Contract!notes("send", who, o, id)
    BY <2>2 DEF logged, Contract!notes
  <2>13. answerGiven' = NoAnswer /\ commandsDone' = commandsDone /\ rejected' = rejected
    BY <1>6 DEF answerGiven, commandsDone
  <2> HIDE DEF x, a, o, who
  <2>14. Contract!Send
    BY <1>1, <2>6, <2>8, <2>9, <2>10, <2>11, <2>12, <2>13 DEF Contract!Send
  <2>15. QED
    BY <2>5, <2>14 DEF Recording, Contract!Next
<1>7. QED
  BY <1>4, <1>5, <1>6 DEF Gate

LEMMA RecordOutcomeRecorded ==
  ASSUME RecordInv, NEW a \in AttemptId, RecordOutcome(a)
  PROVE  Recording
<1> DEFINE o == db.attempts[a].operation
<1> DEFINE s == expire(db, o)
<1>1. /\ clock \in Nat /\ db \in Tables /\ Linked(db)
      /\ clock' = clock /\ log' = log /\ executed' = executed /\ answer' = NoAnswer
      /\ rejected' = rejected
      /\ db.attempts[a].state = "dispatching"
      /\ db' = [s EXCEPT !.attempts[a].state = "done"]
  BY LogFacts DEF RecordInv, RecordOutcome
<1>2. o \in OperationId
  <2>1. db.attempts[a].operation \in OperationId \cup {None}
    BY <1>1, TablesOf DEF Attempt
  <2>2. QED
    BY <1>1, <2>1 DEF Linked
<1>3. /\ s \in Tables /\ Linked(s) /\ s.attempts[a].state = "dispatching"
      /\ Keeps(db, s) /\ Stays(db, s) /\ Still(db, s)
  BY <1>1, <1>2, ExpireKeeps, ExpireAttempts, ExpireStays, ExpireStill
<1> HIDE DEF s
<1>4. Keeps(s, db') /\ Stays(s, db') /\ Still(s, db')
  BY <1>1, <1>3, MoveKeeps, MoveStays, MoveStill DEF Sending
<1>5. Recorded(db', executed') /\ Coded(db', rejected')
  <2>1. Recorded(s, executed) /\ Coded(s, rejected)
    <3>1. executed \subseteq [request : Request, result : Result]
      BY LogFacts DEF RecordInv
    <3>2. Preserves(db, s, clock)
      BY <1>3, KeepsPreserves
    <3>3. Recorded(s, executed)
      BY <1>3, <3>1, <3>2, RecordedAlong DEF RecordInv, Still, unchanged
    <3>4. Coded(s, rejected)
      BY <1>3, <3>2, CodedAlong DEF RecordInv, Preserves
    <3>5. QED
      BY <3>3, <3>4
  <2>2. Recorded(db', executed) /\ Coded(db', rejected)
    <3>1. executed \subseteq [request : Request, result : Result]
      BY LogFacts DEF RecordInv
    <3>2. Preserves(s, db', clock)
      BY <1>4, KeepsPreserves
    <3>3. Recorded(db', executed)
      BY <1>4, <2>1, <3>1, <3>2, RecordedAlong DEF Still, unchanged
    <3>4. Coded(db', rejected)
      BY <1>4, <2>1, <3>2, CodedAlong DEF Preserves
    <3>5. QED
      BY <3>3, <3>4
  <2>3. QED
    BY <1>1, <2>2
<1>6. QED
  BY <1>1, <1>5, NothingHappens DEF Recording

LEMMA AbortRecorded ==
  ASSUME RecordInv, NEW w \in Session, Abort(w)
  PROVE  Recording
BY SameRows, NothingHappens DEF Recording, Abort

LEMMA CleanupRecorded ==
  ASSUME RecordInv, Cleanup
  PROVE  Recording
<1>1. /\ clock \in Nat /\ db \in Tables /\ Linked(db)
      /\ clock' = clock /\ log' = log /\ executed' = executed /\ answer' = NoAnswer
      /\ rejected' = rejected
      /\ db' = cleanupBatch
  BY LogFacts DEF RecordInv, Cleanup
<1>2. Preserves(db, db', clock) /\ Stays(db, db') /\ Still(db, db')
  BY <1>1, CleanupPreserves, CleanupStays, CleanupStill
<1>3. QED
  BY <1>1, <1>2, RowsRecorded, NothingHappens DEF Recording

LEMMA TickRecorded ==
  ASSUME RecordInv, Tick
  PROVE  Recording
<1>1. /\ clock' = clock + 1 /\ db' = db /\ log' = log /\ executed' = executed
      /\ answer' = NoAnswer /\ rejected' = rejected
  BY DEF Tick
<1>2. answerGiven' = NoAnswer /\ commandsDone' = commandsDone
  BY <1>1 DEF answerGiven, commandsDone
<1>3. Recorded(db', executed') /\ Coded(db', rejected')
  BY <1>1, SameRows
<1>4. QED
  BY <1>1, <1>2, <1>3 DEF Recording, Contract!Next, Contract!Tick

LEMMA NextRecorded ==
  ASSUME RecordInv, QuotaInv', Next
  PROVE  Recording
<1>1. requests \subseteq Request /\ AnswersAreFaithful'
  BY DEF RecordInv, QuotaInv, AdmissionInv, TypeOK
<1>2. ASSUME NEW w \in Session, NEW r \in requests, Lookup(w, r) PROVE Recording
  BY <1>1, <1>2, ReplayRecorded, EntersRecorded DEF Lookup
<1>3. ASSUME NEW w \in Session, NEW r \in requests, Enter(w, r) PROVE Recording
  BY <1>1, <1>3, ReplayRecorded, EntersRecorded DEF Enter
<1>4. ASSUME NEW w \in Session, EnterPrepared(w) PROVE Recording
  <2> DEFINE r == session[w].request
  <2>1. r \in Request
    <3>1. r # NoRequest
      BY <1>4 DEF EnterPrepared, RecordInv, QuotaInv, AdmissionInv, Sessions
    <3>2. QED
      BY <3>1, TypeFacts DEF RecordInv, QuotaInv, AdmissionInv
  <2>2. CASE Replay(w, r)
    BY <1>1, <2>1, <2>2, ReplayRecorded
  <2>3. CASE enters(w, "decide", r, None, checkedLimits(r), requestLocks(r))
    BY <2>3, EntersRecorded
  <2>4. QED
    BY <1>4, <2>2, <2>3 DEF EnterPrepared
<1>5. ASSUME NEW w \in Session, NEW a \in AttemptId, EnterGate(w, a) PROVE Recording
  BY <1>5, EntersRecorded DEF EnterGate
<1>6. QED
  BY <1>2, <1>3, <1>4, <1>5, AdmitRecorded, SubmitRecorded, DeliverRecorded, CloseRecorded,
     GateRecorded, AbortRecorded, RecordOutcomeRecorded, CleanupRecorded, TickRecorded DEF Next

LEMMA InitRecorded == Init => RecordInv /\ Contract!Init
<1> SUFFICES ASSUME Init PROVE RecordInv /\ Contract!Init
  OBVIOUS
<1>1. executed = {} /\ log = {} /\ rejected = {} /\ answer = NoAnswer /\ clock = 0
  BY DEF Init
<1>2. /\ \A o \in OperationId : ~used(db, o)
      /\ \A a \in AttemptId : db.attempts[a].operation = None
  BY DEF Init, used
<1>3. Recorded(db, executed) /\ Coded(db, rejected)
  BY <1>1, <1>2 DEF Recorded, Coded, codedAt, used, Init
<1>4. commandsDone = {} /\ answerGiven = NoAnswer
  BY <1>1 DEF commandsDone, answerGiven
<1>5. QED
  BY <1>1, <1>3, <1>4, InitHolds DEF RecordInv, Contract!Init

\* The sessions, with their locks, receipts, quota events and deletions, do what a clerk
\* with a complete record would (requests/receipts.ts, requests/admission.ts): each step
\* is one of the clerk's, and the one in which a request is executed is its commitment.
THEOREM AdmissionImplementsContract == Spec => ImplementsContract
<1>1. RecordInv /\ QuotaInv' /\ [Next]_vars =>
        RecordInv' /\ [Contract!Next]_<<commandsDone, log, rejected, answerGiven, clock>>
  <2> SUFFICES ASSUME RecordInv, QuotaInv', [Next]_vars
               PROVE  RecordInv' /\ [Contract!Next]_<<commandsDone, log, rejected, answerGiven, clock>>
    OBVIOUS
  <2>1. CASE Next
    BY <2>1, NextRecorded DEF Recording, RecordInv
  <2>2. CASE UNCHANGED vars
    <3>1. /\ db' = db /\ executed' = executed /\ answer' = answer /\ log' = log
          /\ clock' = clock /\ rejected' = rejected
      BY <2>2 DEF vars
    <3>2. commandsDone' = commandsDone /\ answerGiven' = answerGiven
      BY <3>1 DEF commandsDone, answerGiven
    <3>3. Recorded(db', executed') /\ Coded(db', rejected')
      BY <3>1, SameRows
    <3>4. QED
      BY <3>1, <3>2, <3>3 DEF RecordInv
  <2>3. QED
    BY <2>1, <2>2
<1>2. Spec => []RecordInv /\ [][Contract!Next]_<<commandsDone, log, rejected, answerGiven, clock>>
  BY InitRecorded, QuotaInvHolds, <1>1, PTL DEF Spec
<1>3. QED
  BY InitRecorded, <1>2, PTL DEF Spec, ImplementsContract, Contract!Spec
=============================================================================
