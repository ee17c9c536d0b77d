----------------------------- MODULE Admission -----------------------------
(***************************************************************************)
(* Requests to the delivery service, the jobs their attempts make, and the *)
(* quotas both are held to.  A request arrives any number of times, and    *)
(* several sessions execute it at once.  A session locks what it works on, *)
(* decides and commits; it may stop at any point, and then nothing of its  *)
(* transaction remains.                                                    *)
(*                                                                         *)
(* Preparing an operation takes two transactions: one looks the request up *)
(* and commits, the route is resolved outside any transaction, and the     *)
(* other admits the operation.  The availability of the route is left out: *)
(* a request it refuses ends as one that was interrupted.  The authority   *)
(* an attempt is scheduled with is left out as well, but not what is left  *)
(* of a submission when it is missing: the rejection commits the code.     *)
(***************************************************************************)
EXTENDS Integers, FiniteSets

CONSTANTS
  Session,                 \* transactions that can be open at a time
  Scenarios,               \* sets of requests: the clients of one behaviour send those of
                           \* one set, each as often as they like
  Recipient,               \* recipient tokens
  Code, NoCode,            \* codes of clients; a column that is NULL
  NoReceipt, NoRequest, NoAnswer,
  MaxOperations,           \* bound: operations are numbered 1 .. MaxOperations
  MaxAttempts,             \* bound: attempts are numbered 1 .. MaxAttempts
  recipientCreateLimit15m, recipientSendLimit15m, deploymentSendLimit15m,
  sharedSendLimit24h,      \* send_limit_24h of an allowance scope providers share
  AdmissionWindow,         \* 30 seconds
  Window,                  \* 15 minutes
  Day,                     \* 24 hours, also the age at which quota events are deleted
  resendCooldown, maxLifetime,  \* of the policy
  ReceiptRetention,        \* 7 days
  HistoryRetention,        \* historyRetentionDays
  MaxClock                 \* bound: the last moment

OperationId == 1 .. MaxOperations
AttemptId   == 1 .. MaxAttempts
None        == 0           \* a column that refers to no row

RequestType == [name : {"prepare", "create", "submit", "deliver", "close"}, key : STRING,
                target : OperationId \cup {None}, recipient : Recipient,
                code : Code \cup {NoCode}, expiresAt : Nat]

Request == UNION Scenarios

ASSUME RequestAssumption  ==
  /\ Request \subseteq RequestType
  /\ \A r \in Request :
       /\ (r.target = None) <=> (r.name \in {"prepare", "create"})
       /\ (r.code # NoCode) <=> (r.name \in {"create", "submit"})
ASSUME CodeAssumption     == NoCode \notin Code
ASSUME RecipientAssumption == Recipient # {}
ASSUME LimitAssumption    == \A limit \in {recipientCreateLimit15m, recipientSendLimit15m,
                                           deploymentSendLimit15m, sharedSendLimit24h} :
                               limit \in Nat \ {0}
ASSUME DurationAssumption ==
  /\ {AdmissionWindow, Window, Day, resendCooldown, maxLifetime} \subseteq Nat \ {0}
  /\ AdmissionWindow <= Window /\ Window <= Day /\ maxLifetime <= ReceiptRetention
  /\ ReceiptRetention \in Nat /\ HistoryRetention \in Nat
ASSUME BoundAssumption    == {MaxOperations, MaxAttempts, MaxClock} \subseteq Nat

VARIABLES
  db,        \* committed rows
  clock,     \* clock_timestamp()
  session,   \* what each session executes, how far it is, and the locks it holds
  log,       \* history: operations admitted, sends requested by users, sends reserved
  executed,  \* history: what each request did when it was executed
  rejected,  \* history: operations whose code was attached and never scheduled
  answer,    \* the answer the last step gave, if any
  requests   \* the requests clients send: never changed

vars == <<db, clock, session, log, executed, rejected, answer, requests>>

(***************************************************************************)
(* Rows.                                                                   *)
(***************************************************************************)
identity(r)    == <<r.name, r.target, r.key>>
fingerprint(r) == <<r.recipient, r.expiresAt>>
Identity       == {identity(r) : r \in Request}
Deployment     == "deployment"
Shared         == "shared"
Scope          == Recipient \cup {Deployment, Shared}
Event          == [scope : Scope, kind : {"create", "admission", "send"},
                   id : {"operation", "attempt"} \X Nat, at : Nat]
Operation      == [state : {"absent", "prepared", "active", "closed", "expired", "deleted"},
                   recipient : Recipient, expires_at : Nat, code : Code \cup {NoCode},
                   next_user_send_at : Nat, terminal_at : Nat,
                   current_attempt_id : AttemptId \cup {None}]
Attempt        == [operation : OperationId \cup {None},
                   state : {"unused", "pending", "dispatching", "done", "suppressed"}]
Result         == [operation : OperationId, attempt : AttemptId \cup {None}]
Receipt        == [operation : OperationId, fingerprint : Recipient \X Nat,
                   code_fingerprint : Code \cup {NoCode}, response : Result,
                   retain_until : Nat]
Lock           == ({"request"} \X Identity) \cup ({"quota"} \X Scope)
                    \cup ({"operation"} \X OperationId)
Answer         == [request : Request, result : Result, live : BOOLEAN]
Tables         == [operations : [OperationId -> Operation], attempts : [AttemptId -> Attempt],
                   quota : SUBSET Event, receipts : [Identity -> Receipt \cup {NoReceipt}]]
Idle           == [pc |-> "idle", request |-> NoRequest, attempt |-> None, blocked |-> FALSE,
                   held |-> {}]

ASSUME AbsenceAssumption ==
  NoReceipt \notin Receipt /\ NoRequest \notin Request /\ NoAnswer \notin Answer

TypeOK ==
  /\ db \in Tables
  /\ clock \in 0 .. MaxClock
  /\ session \in [Session -> [pc : {"idle", "prepared", "decide"},
                              request : Request \cup {NoRequest},
                              attempt : AttemptId \cup {None}, blocked : BOOLEAN,
                              held : SUBSET Lock]]
  /\ requests \subseteq Request

Init ==
  /\ db = [operations |-> [o \in OperationId |->
             [state |-> "absent", recipient |-> CHOOSE who \in Recipient : TRUE,
              expires_at |-> 0, code |-> NoCode, next_user_send_at |-> 0, terminal_at |-> 0,
              current_attempt_id |-> None]],
           attempts   |-> [a \in AttemptId |-> [operation |-> None, state |-> "unused"]],
           quota      |-> {},
           receipts   |-> [i \in Identity |-> NoReceipt]]
  /\ clock = 0
  /\ session = [w \in Session |-> Idle]
  /\ log = {} /\ executed = {} /\ rejected = {} /\ answer = NoAnswer
  /\ requests \in Scenarios

(***************************************************************************)
(* Quotas.  An event counts against every scope it is allocated to for as  *)
(* long as the limit's window holds it.                                    *)
(***************************************************************************)
limit(scope, kind, maximum, window) ==
  [scope |-> scope, kind |-> kind, maximum |-> maximum, window |-> window]

recipientLimit(who, kind, maximum) == limit(who, kind, maximum, Window)
admissionLimit(who)      == limit(who, "admission", 1, AdmissionWindow)
admissionLimits(who)     == {recipientLimit(who, "create", recipientCreateLimit15m),
                             admissionLimit(who)}
commonSendLimits(who)    == {recipientLimit(who, "send", recipientSendLimit15m),
                             limit(Deployment, "send", deploymentSendLimit15m, Window)}
providerSendLimits       == {limit(Shared, "send", sharedSendLimit24h, Day)}
sendLimits(who)          == commonSendLimits(who) \cup providerSendLimits

quotaBlocks(s, limits) ==
  {l \in limits : Cardinality({e \in s.quota : /\ e.scope = l.scope /\ e.kind = l.kind
                                               /\ e.at > clock - l.window}) >= l.maximum}

countQuotas(s, limits, id) ==
  [s EXCEPT !.quota = @ \cup
     {[scope |-> l.scope, kind |-> l.kind, id |-> id, at |-> clock] :
        l \in {k \in limits : \A e \in s.quota : <<e.scope, e.kind, e.id>> # <<k.scope, k.kind, id>>}}]

\* The admission an attempt was requested with moves to the moment of its send.
extendAdmission(s, who, id) ==
  LET mine == {e \in s.quota : e.kind = "admission" /\ e.id = id}
  IN  [s EXCEPT !.quota = {e \in @ : e \notin mine} \cup
         {[scope |-> who, kind |-> "admission", id |-> id, at |-> clock]}]

(***************************************************************************)
(* Operations.                                                             *)
(***************************************************************************)
live(s, o) == s.operations[o].state \in {"prepared", "active"}

suppressPendingAttempts(attempts, o) ==
  [a \in AttemptId |-> IF attempts[a].operation = o /\ attempts[a].state = "pending"
                       THEN [attempts[a] EXCEPT !.state = "suppressed"] ELSE attempts[a]]

\* Mutant: the receipts keep the fingerprint of the code.
eraseSecrets_rowOnly(s, o) ==
  [s EXCEPT !.operations[o].code = NoCode, !.attempts = suppressPendingAttempts(@, o)]
eraseSecrets(s, o) ==
  [s EXCEPT !.operations[o].code = NoCode,
            !.attempts = suppressPendingAttempts(@, o),
            !.receipts = [i \in Identity |->
                            IF @[i] # NoReceipt /\ @[i].operation = o
                            THEN [@[i] EXCEPT !.code_fingerprint = NoCode] ELSE @[i]]]

terminate(s, o, state) ==
  eraseSecrets([s EXCEPT !.operations[o] = [@ EXCEPT !.state = state, !.terminal_at = clock]], o)

\* Mutant: overdue operations are left to maintenance.
expire_byMaintenance(s, o) == s
expire(s, o) ==
  IF live(s, o) /\ clock >= s.operations[o].expires_at THEN terminate(s, o, "expired") ELSE s

nextOperation(s) == Cardinality({o \in OperationId : s.operations[o].state # "absent"}) + 1
nextAttempt(s)   == Cardinality({a \in AttemptId : s.attempts[a].state # "unused"}) + 1

schedule(s, o) ==
  LET a == nextAttempt(s)
  IN  [s EXCEPT !.attempts[a] = [operation |-> o, state |-> "pending"],
                !.operations[o].current_attempt_id = a]

admitOperation(s, r) ==
  LET o == nextOperation(s)
  IN  countQuotas([s EXCEPT !.operations[o] =
                     [state |-> "prepared", recipient |-> r.recipient, expires_at |-> r.expiresAt,
                      code |-> NoCode, next_user_send_at |-> clock, terminal_at |-> 0,
                      current_attempt_id |-> None]],
                  admissionLimits(r.recipient), <<"operation", o>>)

\* The code of a request is attached once; a repeated one is compared.
attachable(s, o, code) == live(s, o) /\ s.operations[o].code \in {NoCode, code}
storeCode(s, o, code) ==
  [s EXCEPT !.operations[o] = [@ EXCEPT !.code = code, !.state = "active",
                                        !.next_user_send_at = clock + resendCooldown]]
attachCode(s, o, code) ==
  IF s.operations[o].code = code THEN s ELSE schedule(storeCode(s, o, code), o)

\* The send a user asks for is refused while the target, the recipient or the
\* operation has to wait.
userSendBlock(s, o, blocked) == blocked \/ clock < s.operations[o].next_user_send_at

requestSend(s, o) ==
  LET t == schedule([s EXCEPT !.attempts = suppressPendingAttempts(@, o),
                              !.operations[o].next_user_send_at = clock + resendCooldown], o)
  IN  countQuotas(t, {admissionLimit(s.operations[o].recipient)},
                  <<"attempt", t.operations[o].current_attempt_id>>)

\* The gate commits to the send: it counts from here on, and delays the next one.
reserve(s, a, who) ==
  LET o == s.attempts[a].operation
      t == [s EXCEPT !.attempts[a].state = "dispatching",
                     !.operations[o].next_user_send_at =
                       IF @ > clock + resendCooldown THEN @ ELSE clock + resendCooldown]
  IN  extendAdmission(countQuotas(t, sendLimits(who), <<"attempt", a>>), who, <<"attempt", a>>)

(***************************************************************************)
(* Receipts.                                                               *)
(***************************************************************************)
resultOf(s, o) == [operation |-> o, attempt |-> s.operations[o].current_attempt_id]

save(s, r, o) ==
  [s EXCEPT !.receipts[identity(r)] =
     [operation |-> o, fingerprint |-> fingerprint(r),
      code_fingerprint |-> IF live(s, o) THEN r.code ELSE NoCode,
      response |-> resultOf(s, o), retain_until |-> clock + ReceiptRetention]]

agrees(receipt, r) ==
  /\ receipt.fingerprint = fingerprint(r)
  /\ receipt.code_fingerprint \in {NoCode, r.code}

\* The operation of the receipt is expired before the receipt is compared.
replayed(s, r) ==
  IF s.receipts[identity(r)] = NoReceipt THEN s ELSE expire(s, s.receipts[identity(r)].operation)

(***************************************************************************)
(* Locks.  A transaction takes them in the order request, quotas,          *)
(* operation, reads the clock after the last and keeps them until it ends. *)
(* It reads nothing else that others may change before it holds them all,  *)
(* so it takes them in one step; with them it reads what its quotas leave. *)
(***************************************************************************)
free(w, locks) == \A v \in Session \ {w} : session[v].held \cap locks = {}

requestLock(r)     == {<<"request", identity(r)>>}
operationLock(o)   == {<<"operation", o>>}
\* Mutant: quotas are checked without being locked.
lockQuotas_none(limits) == {}
lockQuotas(limits) == {<<"quota", l.scope>> : l \in limits}

recipientOf(r) == IF r.target = None THEN r.recipient ELSE db.operations[r.target].recipient

\* The quotas a request locks, and those it is held to: a user's send also waits for
\* the quotas of the send, which it does not lock.
lockedLimits(r) ==
  {l \in admissionLimits(recipientOf(r)) :
     \/ r.name \in {"prepare", "create"}
     \/ r.name = "deliver" /\ l.kind = "admission"}
checkedLimits(r) ==
  lockedLimits(r) \cup (IF r.name = "deliver" THEN sendLimits(recipientOf(r)) ELSE {})

requestLocks(r) ==
  requestLock(r) \cup lockQuotas(lockedLimits(r))
    \cup (IF r.target = None THEN {} ELSE operationLock(r.target))

\* The operation of a receipt is locked to be expired.
receiptLocks(r) ==
  requestLock(r) \cup (IF db.receipts[identity(r)] = NoReceipt THEN {}
                       ELSE operationLock(db.receipts[identity(r)].operation))

\* blocked: what checkQuotas and availableProviders found.
enters(w, pc, r, a, limits, locks) ==
  /\ free(w, locks)
  /\ session' = [session EXCEPT ![w] = [pc |-> pc, request |-> r, attempt |-> a, held |-> locks,
                                        blocked |-> quotaBlocks(db, limits) # {}]]
  /\ answer' = NoAnswer
  /\ UNCHANGED <<db, clock, log, executed, rejected>>
leave(w) == session' = [session EXCEPT ![w] = Idle]

(***************************************************************************)
(* A request.                                                              *)
(***************************************************************************)
unknown(r) == db.receipts[identity(r)] = NoReceipt

\* The receipt answers a repeated request, or refuses it when it differs from the
\* one executed.  The refusal commits the expiry of the operation, unless it ends the
\* second transaction of a preparation.
Replay(w, r) ==
  /\ ~unknown(r)
  /\ free(w, receiptLocks(r))
  /\ LET s       == replayed(db, r)
         receipt == s.receipts[identity(r)]
     IN  IF agrees(receipt, r)
         THEN /\ db' = s
              /\ answer' = [request |-> r, result |-> receipt.response,
                             live |-> live(s, receipt.operation)]
         ELSE /\ db' = IF session[w].pc = "prepared" THEN db ELSE s
              /\ answer' = NoAnswer
  /\ leave(w)
  /\ UNCHANGED <<clock, log, executed, rejected>>

\* prepare and create: the first transaction found no receipt, and ended.
Lookup(w, r) ==
  /\ session[w] = Idle /\ r.target = None
  /\ \/ Replay(w, r)
     \/ unknown(r) /\ free(w, requestLock(r)) /\ enters(w, "prepared", r, None, {}, {})

\* Mutant: the second transaction trusts the lookup of the first.
EnterPrepared_withoutReplay(w) ==
  /\ session[w].pc = "prepared"
  /\ LET r == session[w].request IN enters(w, "decide", r, None, checkedLimits(r), requestLocks(r))
\* Their second transaction, after the route was resolved.
EnterPrepared(w) ==
  /\ session[w].pc = "prepared"
  /\ LET r == session[w].request
     IN  \/ Replay(w, r)
         \/ unknown(r) /\ enters(w, "decide", r, None, checkedLimits(r), requestLocks(r))

\* submit, deliver and close take one transaction.
Enter(w, r) ==
  /\ session[w] = Idle /\ r.target # None
  /\ db.operations[r.target].state # "absent"
  /\ \/ Replay(w, r)
     \/ /\ unknown(r)
        /\ db.operations[r.target].state # "deleted"
        /\ enters(w, "decide", r, None, checkedLimits(r), requestLocks(r))

\* What a request that was executed leaves behind.
execute(w, s, o) ==
  LET r == session[w].request
  IN  /\ db' = save(s, r, o)
      /\ executed' = executed \cup {[request |-> r, result |-> resultOf(s, o)]}
      /\ answer' = [request |-> r, result |-> resultOf(s, o), live |-> live(s, o)]
      /\ leave(w)
      /\ UNCHANGED rejected

\* What remains of one that was refused: the expiry of the operation.
refuse(w, s) ==
  /\ db' = s
  /\ leave(w)
  /\ answer' = NoAnswer
  /\ UNCHANGED <<log, executed, rejected>>

decides(w, names) == /\ session[w].pc = "decide"
                     /\ session[w].request # NoRequest
                     /\ session[w].request.name \in names

logged(what, who, o, id) ==
  log' = log \cup {[what |-> what, who |-> who, operation |-> o, id |-> id, at |-> clock]}

\* prepare and create: a new operation within the limits of its recipient, with its
\* code and first attempt when the request brings a code.
Admit(w) ==
  /\ decides(w, {"prepare", "create"})
  /\ LET r == session[w].request
         o == nextOperation(db)
         s == admitOperation(db, r)
     IN  IF \/ r.expiresAt <= clock \/ r.expiresAt - clock > maxLifetime
            \/ session[w].blocked
         THEN refuse(w, db)
         ELSE /\ o \in OperationId
              /\ r.name = "create" => nextAttempt(db) \in AttemptId
              /\ execute(w, IF r.name = "create" THEN attachCode(s, o, r.code) ELSE s, o)
              /\ logged("create", r.recipient, o, <<"operation", o>>)
  /\ UNCHANGED clock

\* The code is stored before its first attempt is scheduled.  Authority withdrawn from
\* the policy or the route rejects the attempt, and the rejection commits the code: the
\* operation is active with a code that is never sent, and no receipt is saved.
reject(w, s, o, code) ==
  /\ s.operations[o].code # code
  /\ db' = storeCode(s, o, code)
  /\ rejected' = rejected \cup {o}
  /\ leave(w)
  /\ answer' = NoAnswer
  /\ UNCHANGED executed

Submit(w) ==
  /\ decides(w, {"submit"})
  /\ LET r == session[w].request
         s == expire(db, r.target)
     IN  IF ~attachable(s, r.target, r.code) THEN refuse(w, s)
         ELSE /\ \/ /\ s.operations[r.target].code # r.code => nextAttempt(s) \in AttemptId
                    /\ execute(w, attachCode(s, r.target, r.code), r.target)
                 \/ reject(w, s, r.target, r.code)
              /\ UNCHANGED log
  /\ UNCHANGED clock

Deliver(w) ==
  /\ decides(w, {"deliver"})
  /\ LET o == session[w].request.target
         s == expire(db, o)
     IN  IF \/ s.operations[o].state # "active" \/ s.operations[o].current_attempt_id = None
            \/ userSendBlock(s, o, session[w].blocked)
         THEN refuse(w, s)
         ELSE /\ nextAttempt(s) \in AttemptId
              /\ execute(w, requestSend(s, o), o)
              /\ logged("deliver", s.operations[o].recipient, o, <<"attempt", nextAttempt(s)>>)
  /\ UNCHANGED clock

Close(w) ==
  /\ decides(w, {"close"})
  /\ LET o == session[w].request.target
         s == expire(db, o)
     IN  execute(w, IF live(s, o) THEN terminate(s, o, "closed") ELSE s, o)
  /\ UNCHANGED <<clock, log>>

(***************************************************************************)
(* The job of an attempt.                                                  *)
(***************************************************************************)
EnterGate(w, a) ==
  /\ session[w] = Idle
  /\ db.attempts[a].state = "pending"
  /\ LET o == db.attempts[a].operation
         limits == sendLimits(db.operations[o].recipient)
     IN  enters(w, "decide", NoRequest, a, limits, operationLock(o) \cup lockQuotas(limits))

\* A send is reserved while the operation is active and every limit has room.
Gate(w) ==
  /\ session[w].pc = "decide" /\ session[w].request = NoRequest
  /\ LET a   == session[w].attempt
         o   == db.attempts[a].operation
         s   == expire(db, o)
         who == s.operations[o].recipient
     IN  IF s.attempts[a].state # "pending" THEN refuse(w, s)
         ELSE IF session[w].blocked
              THEN refuse(w, [s EXCEPT !.attempts[a].state = "suppressed"])
              ELSE /\ db' = reserve(s, a, who)
                   /\ logged("send", who, o, <<"attempt", a>>)
                   /\ leave(w)
                   /\ answer' = NoAnswer
                   /\ UNCHANGED <<executed, rejected>>
  /\ UNCHANGED clock

\* The outcome of a send is recorded, whatever it is.
RecordOutcome(a) ==
  /\ db.attempts[a].state = "dispatching"
  /\ \A v \in Session : operationLock(db.attempts[a].operation) \cap session[v].held = {}
  /\ db' = [expire(db, db.attempts[a].operation) EXCEPT !.attempts[a].state = "done"]
  /\ answer' = NoAnswer
  /\ UNCHANGED <<clock, session, log, executed, rejected>>

\* A lock timeout, a failure or a crash: the transaction leaves nothing.
Abort(w) ==
  /\ session[w] # Idle
  /\ leave(w)
  /\ answer' = NoAnswer
  /\ UNCHANGED <<db, clock, log, executed, rejected>>

(***************************************************************************)
(* Maintenance, and time.                                                  *)
(***************************************************************************)
droppable(s, receipt) == receipt.retain_until <= clock /\ ~live(s, receipt.operation)

outdated(e) == e.at <= clock - Day

unlocked == {o \in OperationId : \A w \in Session : operationLock(o) \cap session[w].held = {}}

\* Overdue operations end, unless they are locked.
expireOverdue ==
  LET due == {o \in unlocked : live(db, o) /\ db.operations[o].expires_at <= clock}
  IN  [db EXCEPT
        !.operations = [o \in OperationId |->
            IF o \in due THEN terminate(db, o, "expired").operations[o] ELSE @[o]],
        !.attempts = [a \in AttemptId |->
            IF @[a].operation \in due
            THEN suppressPendingAttempts(@, @[a].operation)[a] ELSE @[a]],
        !.receipts = [i \in Identity |->
            IF @[i] # NoReceipt /\ @[i].operation \in due
            THEN [@[i] EXCEPT !.code_fingerprint = NoCode] ELSE @[i]]]

forgotten(s) ==
  {o \in unlocked : /\ s.operations[o].state \in {"closed", "expired"}
                    /\ s.operations[o].terminal_at < clock - HistoryRetention
                    /\ \A a \in AttemptId : s.attempts[a].operation = o =>
                         s.attempts[a].state # "dispatching"}

\* The batch expires first, and deletes what is too old then.
cleanupBatch ==
  LET s == expireOverdue
  IN  [s EXCEPT
        !.receipts = [i \in Identity |-> IF @[i] # NoReceipt /\ droppable(s, @[i])
                                         THEN NoReceipt ELSE @[i]],
        !.operations = [o \in OperationId |->
            IF o \in forgotten(s) THEN [@[o] EXCEPT !.state = "deleted"] ELSE @[o]],
        !.quota = {e \in @ : ~outdated(e)}]

Cleanup ==
  /\ db' = cleanupBatch
  /\ answer' = NoAnswer
  /\ UNCHANGED <<clock, session, log, executed, rejected>>

\* A unit of time is long: a transaction that has read the clock ends within it.
Tick ==
  /\ clock < MaxClock
  /\ \A w \in Session : session[w].pc # "decide"
  /\ clock' = clock + 1
  /\ answer' = NoAnswer
  /\ UNCHANGED <<db, session, log, executed, rejected>>

Next ==
  /\ \/ \E w \in Session :
          \/ \E r \in requests : Lookup(w, r) \/ Enter(w, r)
          \/ EnterPrepared(w)
          \/ Admit(w) \/ Submit(w) \/ Deliver(w) \/ Close(w)
          \/ \E a \in AttemptId : EnterGate(w, a)
          \/ Gate(w) \/ Abort(w)
     \/ \E a \in AttemptId : RecordOutcome(a)
     \/ Cleanup \/ Tick
  /\ UNCHANGED requests

Spec == Init /\ [][Next]_vars

(***************************************************************************)
(* Properties.                                                             *)
(***************************************************************************)
\* No window of the limit's length holds more than the limit's maximum.
within(events, window, maximum) ==
  \A e \in events :
    Cardinality({f \in events : f.at \in (e.at - window + 1) .. e.at}) <= maximum

sent      == {e \in log : e.what = "send"}
ofRecipient(what, who) == {e \in log : e.what = what /\ e.who = who}

\* However requests and jobs interleave, and whatever maintenance deletes in
\* between, no rolling window ever holds more admissions or sends than its limit
\* allows: for each recipient, for the scope providers share, for the deployment.
RollingLimits ==
  /\ \A who \in Recipient :
       /\ within(ofRecipient("create", who), Window, recipientCreateLimit15m)
       /\ within(ofRecipient("send", who), Window, recipientSendLimit15m)
  /\ within(sent, Window, deploymentSendLimit15m)
  /\ within(sent, Day, sharedSendLimit24h)

\* A recipient is left alone for thirty seconds after every admission and after
\* every send, also the send of another operation: no new operation and no user's
\* send is admitted before.
RecipientIsLeftAlone ==
  \A e, f \in log :
    (e # f /\ e.who = f.who /\ e.what # "send") =>
      \/ f.at <= e.at - AdmissionWindow
      \/ f.at > e.at
      \/ f.at = e.at /\ f.what = "send"

\* Together: no rolling limit is exceeded and no recipient is written to too often,
\* whoever asks and in whatever order (requests/admission.ts, admitSend).
QuotasHold == RollingLimits /\ RecipientIsLeftAlone

\* A request is executed at most once, however often it arrives, and also when its
\* receipt is gone: by then the operation has ended or its deadline has passed.
ExecutedOnce ==
  \A e, f \in executed :
    (identity(e.request) = identity(f.request) /\ e.request.name # "close"
       /\ fingerprint(e.request) = fingerprint(f.request)) => e = f

\* Every answer is the one given when the request was executed, to the same input;
\* and while the operation lives, to the same code.
AnswersAreFaithful ==
  answer # NoAnswer => \E e \in executed :
    /\ identity(e.request) = identity(answer.request)
    /\ fingerprint(e.request) = fingerprint(answer.request)
    /\ e.result = answer.result
    /\ answer.live => e.request.code = answer.request.code

\* Together: however often a request arrives, whatever it races with and whatever has
\* been erased since, it is executed once and its answer is that of its execution
\* (requests/receipts.ts).
RequestsAreIdempotent == ExecutedOnce /\ AnswersAreFaithful

\* No fingerprint of a code outlives the operation it was attached to, neither in
\* the operation nor in any receipt.
NoCodeOutlivesItsOperation ==
  /\ \A o \in OperationId : ~live(db, o) => db.operations[o].code = NoCode
  /\ \A i \in Identity : LET receipt == db.receipts[i]
                         IN  (receipt # NoReceipt /\ receipt.code_fingerprint # NoCode) =>
                               live(db, receipt.operation)

\* Nothing is admitted, requested or sent for an operation past its deadline, however
\* long the transaction waited for its locks.
NothingAfterTheDeadline ==
  \A e \in log : e.at < db.operations[e.operation].expires_at

\* What a request asks for, but for the code it brings, of which only a fingerprint is
\* kept and not for long.
command(r) == [name |-> r.name, key |-> r.key, target |-> r.target,
               recipient |-> r.recipient, expiresAt |-> r.expiresAt]
outcome(e) == [command |-> command(e.request), result |-> e.result]

Commands     == {command(r) : r \in Request}
commandsDone == {outcome(e) : e \in executed}
answerGiven  == IF answer = NoAnswer THEN NoAnswer ELSE outcome(answer)

Contract == INSTANCE AdmissionContract WITH
  Command <- Commands, done <- commandsDone, answer <- answerGiven, now <- clock

\* With all its sessions, locks, receipts and deletions, the service does what a clerk
\* with a complete record would: each request is executed once, by the commitment of one
\* transaction and before the deadline; what it admits, and every send it leads to, is
\* within the limits and goes to the recipient admitted; and an operation that was closed
\* is not worked on any more (docs/data-model.md, requests/receipts.ts,
\* requests/admission.ts).
ImplementsContract == Contract!Spec
=============================================================================
