------------------------------ MODULE Challenge ------------------------------
(***************************************************************************)
(* Managed verification: the challenges of one recipient, each owning one  *)
(* delivery operation.  Clients verify codes under request keys, cancel    *)
(* and read; the delivery side expires the operation on its own paths; a   *)
(* maintenance command invalidates restored operations; retention deletes  *)
(* rows, receipts and quota events.                                        *)
(*                                                                         *)
(* Every command is one transaction that locks the request key, the quota  *)
(* of the recipient, the operation and the challenge in this order, so it  *)
(* is one atomic step.  Commands still race in every order, answers get    *)
(* lost, and a client may repeat any request at any time, with the same    *)
(* code or another one.  A rejected command commits its logical expiry.    *)
(***************************************************************************)
EXTENDS Integers, FiniteSets

CONSTANTS
  ChallengeId,             \* identifiers a challenge can be given
  Key,                     \* idempotency keys of verify requests
  Code,                    \* codes a client may try
  RightCode,               \* the generated code
  NoCode,                  \* code_fingerprint IS NULL
  max_incorrect_guesses,   \* of the saved policy
  recipientGuessLimit15m,  \* wrong guesses of one recipient in one window
  Window,                  \* length of the rolling window
  QuotaRetention,          \* age at which cleanup deletes quota events
  Lifetime,                \* managed.lifetimeSeconds
  MaxClock                 \* bound: the last moment; no challenge outlives it

ASSUME CodeAssumption     == RightCode \in Code /\ NoCode \notin Code
ASSUME GuessAssumption    == max_incorrect_guesses \in Nat \ {0}
ASSUME LimitAssumption    == recipientGuessLimit15m \in Nat \ {0}
ASSUME WindowAssumption   == Window \in Nat \ {0}
ASSUME RetentionAssumption == QuotaRetention \in Nat /\ QuotaRetention >= Window
ASSUME LifetimeAssumption == Lifetime \in Nat \ {0}
ASSUME ClockAssumption    == MaxClock \in Nat

VARIABLES
  db,       \* committed rows: challenges with their operation, verify receipts
  quota,    \* quota_events of kind guess
  clock,    \* clock_timestamp()
  guesses,  \* history: every comparison that failed
  answers   \* history: every result a verify request was given

vars == <<db, quota, clock, guesses, answers>>

Outcome   == {"verified", "incorrect", "locked"}
Row       == [verification_state : {"absent", "active", "verified", "locked", "expired",
                                    "cancelled", "deleted"},
              operation : {"absent", "active", "closed", "expired"},
              verifier : BOOLEAN,
              incorrect_guesses : 0 .. max_incorrect_guesses,
              expires_at : Nat]
Receipt   == [outcome : Outcome \cup {"none"}, code_fingerprint : Code \cup {NoCode}]
Guess     == [challenge : ChallengeId, n : 1 .. max_incorrect_guesses, at : Nat]
Answer    == [challenge : ChallengeId, key : Key, outcome : Outcome]

noRow(state) == [verification_state |-> state, operation |-> "absent", verifier |-> FALSE,
                 incorrect_guesses |-> 0, expires_at |-> 0]
NoReceipt == [outcome |-> "none", code_fingerprint |-> NoCode]

Database  == [challenges : [ChallengeId -> Row],
              receipts : [ChallengeId -> [Key -> Receipt]]]

TypeOK ==
  /\ db \in Database
  /\ guesses \subseteq Guess
  /\ quota \subseteq guesses
  /\ clock \in Nat
  /\ answers \subseteq Answer

Init ==
  /\ db = [challenges |-> [c \in ChallengeId |-> noRow("absent")],
           receipts |-> [c \in ChallengeId |-> [k \in Key |-> NoReceipt]]]
  /\ quota = {}
  /\ clock = 0
  /\ guesses = {}
  /\ answers = {}

-----------------------------------------------------------------------------
(***************************************************************************)
(* Row updates the transactions share.                                     *)
(***************************************************************************)
setRow(s, c, row) ==
  [challenges |-> [s.challenges EXCEPT ![c] = row], receipts |-> s.receipts]
setReceipt(s, c, k, receipt) ==
  [challenges |-> s.challenges,
   receipts |-> [s.receipts EXCEPT ![c] = [s.receipts[c] EXCEPT ![k] = receipt]]]

\* UPDATE challenges SET verification_state WHERE verification_state = 'active'.
decided(s, c, verdict) ==
  IF s.challenges[c].verification_state = "active"
  THEN setRow(s, c, [s.challenges[c] EXCEPT !.verification_state = verdict])
  ELSE s

\* Mutant: the delivery side ends without telling the challenge it belongs to.
synchronize_forgotten(s, c) == s
\* DeliveryOwner.synchronize, once the operation has ended.
synchronize(s, c) ==
  decided(setRow(s, c, [s.challenges[c] EXCEPT !.verifier = FALSE]), c,
          IF s.challenges[c].operation = "expired" THEN "expired" ELSE "cancelled")

erased(rs) == [k \in Key |-> [rs[k] EXCEPT !.code_fingerprint = NoCode]]

\* terminate of delivery/store.ts: the code fingerprints of the operation go with it.
closeOperation(s, c, state) ==
  LET row == s.challenges[c] IN
  synchronize(
    [challenges |-> [s.challenges EXCEPT ![c] =
        [row EXCEPT !.operation = IF row.operation = "active" THEN state ELSE row.operation]],
     receipts |-> [s.receipts EXCEPT ![c] = erased(s.receipts[c])]],
    c)

terminate(s, c, verdict) ==
  closeOperation(decided(s, c, verdict), c, IF verdict = "expired" THEN "expired" ELSE "closed")

active(s, c)  == s.challenges[c].verification_state = "active"
overdue(c)    == clock >= db.challenges[c].expires_at

\* Mutant: expiry is left to the expiry job.
expired_byJobOnly(c) == db
\* What every transaction works on: logical expiry comes first.
expired(c) == IF active(db, c) /\ overdue(c) THEN terminate(db, c, "expired") ELSE db

\* checkQuotas: the window already holds the maximum.
limited == Cardinality({g \in quota : g.at > clock - Window}) >= recipientGuessLimit15m

\* Mutant: only a final answer is kept for retries.
saveResult_finalOnly(s, c, k, outcome, code) ==
  setReceipt(s, c, k, IF outcome = "incorrect" THEN NoReceipt
                      ELSE [outcome |-> outcome, code_fingerprint |-> code])
saveResult(s, c, k, outcome, code) ==
  setReceipt(s, c, k, [outcome |-> outcome, code_fingerprint |-> code])

answered(c, k, outcome) ==
  answers' = answers \cup {[challenge |-> c, key |-> k, outcome |-> outcome]}

-----------------------------------------------------------------------------
\* Creation and its first delivery are one transaction that rolls back whole.
Create(c) ==
  /\ db.challenges[c].verification_state = "absent"
  /\ clock + Lifetime <= MaxClock
  /\ db' = setRow(db, c, [verification_state |-> "active", operation |-> "active",
                          verifier |-> TRUE, incorrect_guesses |-> 0,
                          expires_at |-> clock + Lifetime])
  /\ UNCHANGED <<quota, clock, guesses, answers>>

\* The request key has a receipt.  A receipt that still carries a code fingerprint
\* answers that code only (idempotency_conflict otherwise).
Replay(c, k, code) ==
  LET s == expired(c) IN
  /\ db.receipts[c][k].outcome # "none"
  /\ db' = s
  /\ IF s.receipts[c][k].code_fingerprint \in {NoCode, code}
     THEN answered(c, k, s.receipts[c][k].outcome)
     ELSE UNCHANGED answers
  /\ UNCHANGED <<quota, clock, guesses>>

\* Mutant: only the verifier is looked at, and it outlives the verdict.
comparable_unlessDeleted(s, c, k) ==
  /\ s.receipts[c][k].outcome = "none"
  /\ s.challenges[c].verification_state \in {"active", "verified"}
  /\ ~limited
\* The comparison is reached: no receipt, challenge active, quota left.
comparable(s, c, k) ==
  /\ s.receipts[c][k].outcome = "none"
  /\ active(s, c)
  /\ ~limited

VerifyRight(c, k) ==
  LET s == expired(c) IN
  /\ comparable(s, c, k)
  /\ db' = saveResult(terminate(s, c, "verified"), c, k, "verified", NoCode)
  /\ answered(c, k, "verified")
  /\ UNCHANGED <<quota, clock, guesses>>

counted(s, c) ==
  setRow(s, c, [s.challenges[c] EXCEPT !.incorrect_guesses = @ + 1])

\* Mutant: the new guess is not counted when lockout is decided.
lastGuess_beforeCounting(s, c) == s.challenges[c].incorrect_guesses >= max_incorrect_guesses
lastGuess(s, c) == s.challenges[c].incorrect_guesses + 1 >= max_incorrect_guesses

countQuotas(s, c) ==
  LET guess == [challenge |-> c, n |-> s.challenges[c].incorrect_guesses + 1, at |-> clock] IN
  /\ quota' = quota \cup {guess}
  /\ guesses' = guesses \cup {guess}

VerifyWrong(c, k, code) ==
  LET s == expired(c) IN
  /\ code # RightCode
  /\ comparable(s, c, k)
  /\ countQuotas(s, c)
  /\ IF lastGuess(s, c)
     THEN /\ db' = saveResult(terminate(counted(s, c), c, "locked"), c, k, "locked", NoCode)
          /\ answered(c, k, "locked")
     ELSE /\ db' = saveResult(counted(s, c), c, k, "incorrect", code)
          /\ answered(c, k, "incorrect")
  /\ UNCHANGED clock

Cancel(c) ==
  LET s == expired(c) IN
  /\ active(s, c)
  /\ db' = terminate(s, c, "cancelled")
  /\ UNCHANGED <<quota, clock, guesses, answers>>

\* A status read, a requested send, or any rejected command: only expiry is left.
Touch(c) ==
  /\ db' = expired(c)
  /\ UNCHANGED <<quota, clock, guesses, answers>>

\* Mutant: the sweep takes prepared operations only.
ExpireOperation_preparedOnly(c) ==
  /\ db.challenges[c].operation = "prepared"
  /\ overdue(c)
  /\ db' = closeOperation(db, c, "expired")
  /\ UNCHANGED <<quota, clock, guesses, answers>>
\* The delivery side finds the operation overdue: its gate, a callback, the expiry job
\* and the cleanup sweep all end it this way.
ExpireOperation(c) ==
  /\ db.challenges[c].operation = "active"
  /\ overdue(c)
  /\ db' = closeOperation(db, c, "expired")
  /\ UNCHANGED <<quota, clock, guesses, answers>>

\* invalidateRestoredOperations closes whatever is live, overdue or not.
Invalidate(c) ==
  /\ db.challenges[c].operation = "active"
  /\ db' = closeOperation(db, c, "closed")
  /\ UNCHANGED <<quota, clock, guesses, answers>>

(***************************************************************************)
(* Retention.  Receipts and history end at moments of their own once the   *)
(* operation has ended; receipts outlive the rows they belong to.          *)
(***************************************************************************)
DeleteReceipt(c, k) ==
  /\ db.challenges[c].operation # "active"
  /\ db.receipts[c][k].outcome # "none"
  /\ db' = setReceipt(db, c, k, NoReceipt)
  /\ UNCHANGED <<quota, clock, guesses, answers>>

DeleteHistory(c) ==
  /\ db.challenges[c].operation \in {"closed", "expired"}
  /\ db' = setRow(db, c, noRow("deleted"))
  /\ UNCHANGED <<quota, clock, guesses, answers>>

\* Mutant: quota events go with the window of another quota kind.
outdated_early(g) == g.at < clock
outdated(g) == g.at <= clock - QuotaRetention

CleanQuotas ==
  /\ quota' = {g \in quota : ~outdated(g)}
  /\ quota' # quota
  /\ UNCHANGED <<db, clock, guesses, answers>>

Tick ==
  /\ clock < MaxClock
  /\ clock' = clock + 1
  /\ UNCHANGED <<db, quota, guesses, answers>>

-----------------------------------------------------------------------------
Verify(c, k) ==
  \/ \E code \in Code : Replay(c, k, code)
  \/ VerifyRight(c, k)
  \/ \E code \in Code : VerifyWrong(c, k, code)

Next ==
  \/ \E c \in ChallengeId :
       \/ Create(c)
       \/ \E k \in Key : Verify(c, k)
       \/ Cancel(c)
       \/ Touch(c)
       \/ ExpireOperation(c)
       \/ Invalidate(c)
       \/ \E k \in Key : DeleteReceipt(c, k)
       \/ DeleteHistory(c)
  \/ CleanQuotas
  \/ Tick

Spec == Init /\ [][Next]_vars

(***************************************************************************)
(* Fairness.  Time passes, and the expiry job and the every-minute cleanup *)
(* end what is overdue.  Clients owe nothing.                              *)
(***************************************************************************)
FairSpec ==
  /\ Spec
  /\ WF_vars(Tick)
  /\ \A c \in ChallengeId : WF_vars(ExpireOperation(c))

-----------------------------------------------------------------------------
(***************************************************************************)
(* Properties.                                                             *)
(***************************************************************************)
\* A challenge and its operation end together, whichever side ends first, and nothing
\* secret is left: neither the verifier nor a code fingerprint of a retried request.
LifecyclesAgree ==
  \A c \in ChallengeId : LET row == db.challenges[c] IN
    /\ row.verification_state = "active" <=> row.operation = "active"
    /\ row.verification_state = "expired" <=> row.operation = "expired"
    /\ row.verifier <=> row.operation = "active"
    /\ row.operation # "active" =>
         \A k \in Key : db.receipts[c][k].code_fingerprint = NoCode

guessesOf(c) == {g \in guesses : g.challenge = c}

\* Wrong codes of a challenge never exceed its budget, under any number of concurrent
\* and repeated requests; it is locked exactly when the budget is used up, so replays
\* and refused requests consume nothing (security.md, verification and abuse limits).
GuessBudget ==
  \A c \in ChallengeId :
    /\ Cardinality(guessesOf(c)) <= max_incorrect_guesses
    /\ db.challenges[c].verification_state \notin {"absent", "deleted"} =>
         (db.challenges[c].verification_state = "locked"
            <=> Cardinality(guessesOf(c)) = max_incorrect_guesses)

\* In no window, ending at any moment, did the recipient get more wrong guesses than
\* the limit: across challenges, and in spite of the deletion of quota events.
RollingGuessLimit ==
  \A t \in 0 .. MaxClock :
    Cardinality({g \in guesses : t - Window < g.at /\ g.at <= t}) <= recipientGuessLimit15m

\* A request key gets one result for ever, whatever code the retries carry and
\* whatever became of the receipt and of the challenge in the meantime.
OneAnswerPerKey ==
  \A x, y \in answers :
    x.challenge = y.challenge /\ x.key = y.key => x.outcome = y.outcome

\* A challenge is verified for one request only: no second key obtains the result,
\* and a verdict of success that was handed out is the verdict on record.
VerifiedOnce ==
  /\ \A x, y \in answers :
       x.challenge = y.challenge /\ x.outcome = "verified" /\ y.outcome = "verified"
         => x.key = y.key
  /\ \A x \in answers :
       x.outcome = "verified" =>
         db.challenges[x.challenge].verification_state \in {"verified", "deleted"}

newlyVerified(c) ==
  /\ db.challenges[c].verification_state # "verified"
  /\ db'.challenges[c].verification_state = "verified"

\* At or after the deadline no code is compared any more, right or wrong, although no
\* cleanup has run; and a terminal verdict is never replaced.
DeadlineIsStrict ==
  [][\A c \in ChallengeId :
       /\ newlyVerified(c) \/ guessesOf(c)' # guessesOf(c) => ~overdue(c)
       /\ db.challenges[c].verification_state \in {"verified", "locked", "expired", "cancelled"}
            => db'.challenges[c].verification_state
                 \in {db.challenges[c].verification_state, "deleted"}]_vars

\* No challenge keeps its secrets for ever.
EveryChallengeEnds ==
  \A c \in ChallengeId :
    db.challenges[c].verifier ~> ~db.challenges[c].verifier
=============================================================================
