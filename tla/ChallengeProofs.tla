-------------------------- MODULE ChallengeProofs --------------------------
(***************************************************************************)
(* Proofs about managed verification for any number of challenges, keys    *)
(* and codes, every budget and every window: both sides of a challenge end *)
(* together, a key has one result, a challenge is verified once, deadlines *)
(* are strict, and the guess budgets hold.                                 *)
(***************************************************************************)
EXTENDS Challenge, FiniteSetTheorems, TLAPS

(***************************************************************************)
(* How a challenge ends: every path through terminate and closeOperation   *)
(* has the effect of ended.                                                *)
(***************************************************************************)
endedRow(row, verdict) ==
  [row EXCEPT !.verification_state = verdict,
              !.operation = IF verdict = "expired" THEN "expired" ELSE "closed",
              !.verifier = FALSE]
ended(s, c, verdict) ==
  [challenges |-> [s.challenges EXCEPT ![c] = endedRow(s.challenges[c], verdict)],
   receipts   |-> [s.receipts EXCEPT ![c] = erased(s.receipts[c])]]

Verdict == {"verified", "locked", "expired", "cancelled"}
Open(row) == row.verification_state = "active" /\ row.operation = "active"

\* The effect of DeliveryOwner.synchronize on an operation that has ended.
LEMMA Synchronized ==
  ASSUME NEW s \in Database, NEW c \in ChallengeId, NEW row \in Row, NEW verdict,
         row.operation = "expired" => verdict = "expired",
         row.operation # "expired" => verdict = "cancelled"
  PROVE  LET s0 == [challenges |-> [s.challenges EXCEPT ![c] = row],
                    receipts |-> [s.receipts EXCEPT ![c] = erased(s.receipts[c])]]
         IN synchronize(s0, c)
              = [challenges |-> [s.challenges EXCEPT ![c] =
                   IF row.verification_state = "active"
                   THEN [row EXCEPT !.verifier = FALSE, !.verification_state = verdict]
                   ELSE [row EXCEPT !.verifier = FALSE]],
                 receipts |-> [s.receipts EXCEPT ![c] = erased(s.receipts[c])]]
<1>. DEFINE rs == [s.receipts EXCEPT ![c] = erased(s.receipts[c])]
            s0 == [challenges |-> [s.challenges EXCEPT ![c] = row], receipts |-> rs]
            r1 == [row EXCEPT !.verifier = FALSE]
            s1 == [challenges |-> [s.challenges EXCEPT ![c] = r1], receipts |-> rs]
<1>. s.challenges \in [ChallengeId -> Row]
  BY DEF Database
<1>. HIDE DEF rs
<1>1. s0.challenges[c] = row /\ s0.receipts = rs
  OBVIOUS
<1>2. [s0.challenges EXCEPT ![c] = r1] = [s.challenges EXCEPT ![c] = r1]
  OBVIOUS
<1>3. setRow(s0, c, r1) = s1
  BY <1>1, <1>2 DEF setRow
<1>4. s1.challenges[c] = r1 /\ r1.verification_state = row.verification_state
  BY DEF Row
<1>5. setRow(s1, c, [r1 EXCEPT !.verification_state = verdict])
        = [challenges |-> [s.challenges EXCEPT ![c] = [r1 EXCEPT !.verification_state = verdict]],
           receipts |-> rs]
  BY DEF setRow
<1>6. [r1 EXCEPT !.verification_state = verdict]
        = [row EXCEPT !.verifier = FALSE, !.verification_state = verdict]
  BY DEF Row
<1>7. synchronize(s0, c) = decided(s1, c, verdict)
  BY <1>1, <1>3 DEF synchronize
<1>. QED BY <1>4, <1>5, <1>6, <1>7 DEF decided, rs

LEMMA TerminateEnds ==
  ASSUME NEW s \in Database, NEW c \in ChallengeId, NEW verdict \in Verdict,
         Open(s.challenges[c])
  PROVE  terminate(s, c, verdict) = ended(s, c, verdict)
<1>. s.challenges[c] \in Row /\ s.challenges \in [ChallengeId -> Row]
  BY DEF Database
<1>. DEFINE state == IF verdict = "expired" THEN "expired" ELSE "closed"
            r1 == [s.challenges[c] EXCEPT !.verification_state = verdict]
            s1 == [challenges |-> [s.challenges EXCEPT ![c] = r1], receipts |-> s.receipts]
            r2 == [r1 EXCEPT !.operation = state]
            s2 == [challenges |-> [s.challenges EXCEPT ![c] = r2],
                   receipts |-> [s.receipts EXCEPT ![c] = erased(s.receipts[c])]]
<1>1. decided(s, c, verdict) = s1
  BY DEF decided, setRow, Open
<1>2. s1.challenges[c] = r1 /\ r1.operation = "active" /\ s1.receipts = s.receipts
  BY DEF Open, Row
<1>3. [s1.challenges EXCEPT ![c] = r2] = [s.challenges EXCEPT ![c] = r2]
  OBVIOUS
<1>4. closeOperation(s1, c, state) = synchronize(s2, c)
  BY <1>2, <1>3 DEF closeOperation
<1>5. r2 \in Row /\ r2.operation = state /\ r2.verification_state = verdict
      /\ verdict # "active"
  BY DEF Row, Verdict
<1>6. synchronize(s2, c)
        = [challenges |-> [s.challenges EXCEPT ![c] = [r2 EXCEPT !.verifier = FALSE]],
           receipts |-> [s.receipts EXCEPT ![c] = erased(s.receipts[c])]]
  <2>. DEFINE v == IF state = "expired" THEN "expired" ELSE "cancelled"
  <2>1. r2.operation = "expired" => v = "expired"
    BY <1>5
  <2>2. r2.operation # "expired" => v = "cancelled"
    BY <1>5
  <2>. HIDE DEF r2, v
  <2>. QED BY <1>5, <2>1, <2>2, Synchronized
<1>7. [r2 EXCEPT !.verifier = FALSE] = endedRow(s.challenges[c], verdict)
  BY DEF endedRow, Row
<1>. QED BY <1>1, <1>4, <1>6, <1>7 DEF terminate, ended

LEMMA CloseEnds ==
  ASSUME NEW s \in Database, NEW c \in ChallengeId, NEW state \in {"closed", "expired"},
         Open(s.challenges[c])
  PROVE  closeOperation(s, c, state)
           = ended(s, c, IF state = "expired" THEN "expired" ELSE "cancelled")
<1>. s.challenges[c] \in Row /\ s.challenges \in [ChallengeId -> Row]
  BY DEF Database
<1>. DEFINE verdict == IF state = "expired" THEN "expired" ELSE "cancelled"
            r2 == [s.challenges[c] EXCEPT !.operation = state]
            s2 == [challenges |-> [s.challenges EXCEPT ![c] = r2],
                   receipts |-> [s.receipts EXCEPT ![c] = erased(s.receipts[c])]]
<1>1. closeOperation(s, c, state) = synchronize(s2, c)
  BY DEF closeOperation, Open
<1>2. r2 \in Row /\ r2.operation = state /\ r2.verification_state = "active"
  BY DEF Open, Row
<1>3. synchronize(s2, c)
        = [challenges |-> [s.challenges EXCEPT ![c] =
             [r2 EXCEPT !.verifier = FALSE, !.verification_state = verdict]],
           receipts |-> [s.receipts EXCEPT ![c] = erased(s.receipts[c])]]
  <2>1. r2.operation = "expired" => verdict = "expired"
    BY <1>2
  <2>2. r2.operation # "expired" => verdict = "cancelled"
    BY <1>2
  <2>3. r2 \in Row /\ r2.verification_state = "active"
    BY <1>2
  <2>. HIDE DEF r2, verdict
  <2>4. synchronize(s2, c)
          = [challenges |-> [s.challenges EXCEPT ![c] =
               IF r2.verification_state = "active"
               THEN [r2 EXCEPT !.verifier = FALSE, !.verification_state = verdict]
               ELSE [r2 EXCEPT !.verifier = FALSE]],
             receipts |-> [s.receipts EXCEPT ![c] = erased(s.receipts[c])]]
    BY <2>1, <2>2, <2>3, Synchronized
  <2>. QED BY <2>3, <2>4
<1>4. [r2 EXCEPT !.verifier = FALSE, !.verification_state = verdict]
        = endedRow(s.challenges[c], verdict)
  BY DEF endedRow, Row
<1>. QED BY <1>1, <1>3, <1>4 DEF ended

LEMMA EndedType ==
  ASSUME NEW s \in Database, NEW c \in ChallengeId, NEW verdict \in Verdict
  PROVE  ended(s, c, verdict) \in Database
<1>1. endedRow(s.challenges[c], verdict) \in Row
  BY DEF endedRow, Row, Database, Verdict
<1>2. erased(s.receipts[c]) \in [Key -> Receipt]
  BY DEF erased, Receipt, Database
<1>. QED BY <1>1, <1>2 DEF ended, Database

(***************************************************************************)
(* The invariant, in parts.  Each is stated of rows s, so that it can be   *)
(* carried through the steps of a command.                                 *)
(***************************************************************************)
\* One challenge and its operation.
LifeOK(row, rs) ==
  /\ row.verification_state = "active" <=> row.operation = "active"
  /\ row.verification_state = "expired" <=> row.operation = "expired"
  /\ row.verification_state \in {"absent", "deleted"} <=> row.operation = "absent"
  /\ row.verifier <=> row.operation = "active"
  /\ row.operation # "active" => \A k \in Key : rs[k].code_fingerprint = NoCode
  /\ row.verification_state = "absent" => \A k \in Key : rs[k].outcome = "none"
LifeInv(s) == \A c \in ChallengeId : LifeOK(s.challenges[c], s.receipts[c])

\* A result that was handed out is the receipt's, or the receipt is gone and the
\* challenge takes no more codes.
AnswerOK(s, x) ==
  IF s.receipts[x.challenge][x.key].outcome = "none"
  THEN s.challenges[x.challenge].verification_state \notin {"absent", "active"}
  ELSE s.receipts[x.challenge][x.key].outcome = x.outcome
AnswerInv(s, A) == (\A x \in A : AnswerOK(s, x))

\* Success, on record or handed out, belongs to one key.
succeeded(s, A, c, k) ==
  \/ s.receipts[c][k].outcome = "verified"
  \/ [challenge |-> c, key |-> k, outcome |-> "verified"] \in A
SuccessInv(s, A) ==
  \A c \in ChallengeId, k \in Key : succeeded(s, A, c, k) =>
    /\ s.challenges[c].verification_state \in {"verified", "deleted"}
    /\ \A l \in Key : succeeded(s, A, c, l) => l = k

of(G, c) == {g \in G : g.challenge = c}
GuessOK(row, S) ==
  /\ IsFiniteSet(S)
  /\ Cardinality(S) <= max_incorrect_guesses
  /\ row.verification_state = "absent" => row.incorrect_guesses = 0
  /\ row.verification_state # "deleted" =>
       /\ Cardinality(S) = row.incorrect_guesses
       /\ \A g \in S : g.n <= row.incorrect_guesses
  /\ row.verification_state \notin {"absent", "deleted"} =>
       (row.verification_state = "locked" <=> row.incorrect_guesses = max_incorrect_guesses)
GuessInv(s, G) == \A c \in ChallengeId : GuessOK(s.challenges[c], of(G, c))

RowsInv(s, A, G) ==
  /\ s \in Database
  /\ LifeInv(s)
  /\ AnswerInv(s, A)
  /\ SuccessInv(s, A)
  /\ GuessInv(s, G)

ChallengeInv ==
  /\ RowsInv(db, answers, guesses)
  /\ guesses \subseteq Guess
  /\ quota \subseteq guesses
  /\ clock \in Nat
  /\ answers \subseteq Answer

-----------------------------------------------------------------------------
LEMMA EndedLife ==
  ASSUME NEW s \in Database, NEW c \in ChallengeId, NEW verdict \in Verdict,
         LifeInv(s), Open(s.challenges[c])
  PROVE  LifeInv(ended(s, c, verdict))
<1>1. LifeOK(endedRow(s.challenges[c], verdict), erased(s.receipts[c]))
  BY DEF LifeOK, endedRow, erased, Verdict, Row, Receipt, Database
<1>2. \A d \in ChallengeId \ {c} : /\ ended(s, c, verdict).challenges[d] = s.challenges[d]
                                   /\ ended(s, c, verdict).receipts[d] = s.receipts[d]
  BY DEF ended, Database
<1>3. /\ ended(s, c, verdict).challenges[c] = endedRow(s.challenges[c], verdict)
      /\ ended(s, c, verdict).receipts[c] = erased(s.receipts[c])
  BY DEF ended, Database
<1>. QED BY <1>1, <1>2, <1>3 DEF LifeInv

\* What ended leaves of the receipts: the outcomes.
LEMMA EndedKeepsOutcomes ==
  ASSUME NEW s \in Database, NEW c \in ChallengeId, NEW verdict \in Verdict
  PROVE  \A d \in ChallengeId, k \in Key :
           ended(s, c, verdict).receipts[d][k].outcome = s.receipts[d][k].outcome
  BY DEF ended, erased, Database, Receipt

LEMMA EndedRows ==
  ASSUME NEW s \in Database, NEW c \in ChallengeId, NEW verdict \in Verdict
  PROVE  /\ \A d \in ChallengeId \ {c} : ended(s, c, verdict).challenges[d] = s.challenges[d]
         /\ ended(s, c, verdict).challenges[c].verification_state = verdict
         /\ ended(s, c, verdict).challenges[c].incorrect_guesses
              = s.challenges[c].incorrect_guesses
  BY DEF ended, endedRow, Database, Row

LEMMA EndedAnswers ==
  ASSUME NEW s \in Database, NEW c \in ChallengeId, NEW verdict \in Verdict,
         NEW A \in SUBSET Answer, AnswerInv(s, A), SuccessInv(s, A), Open(s.challenges[c])
  PROVE  /\ AnswerInv(ended(s, c, verdict), A)
         /\ SuccessInv(ended(s, c, verdict), A)
<1>. DEFINE t == ended(s, c, verdict)
<1>1. \A d \in ChallengeId, k \in Key : t.receipts[d][k].outcome = s.receipts[d][k].outcome
  BY EndedKeepsOutcomes
<1>2. /\ \A d \in ChallengeId \ {c} : t.challenges[d] = s.challenges[d]
      /\ t.challenges[c].verification_state = verdict
  BY EndedRows
<1>. HIDE DEF t
<1>3. ASSUME NEW x \in A PROVE AnswerOK(t, x)
  BY <1>1, <1>2 DEF AnswerInv, AnswerOK, Answer, Verdict
<1>4. \A d \in ChallengeId, k \in Key : succeeded(t, A, d, k) <=> succeeded(s, A, d, k)
  BY <1>1 DEF succeeded
<1>5. SuccessInv(t, A)
  BY <1>2, <1>4 DEF SuccessInv, Open
<1>. QED BY <1>3, <1>5 DEF AnswerInv, t

LEMMA EndedGuesses ==
  ASSUME NEW s \in Database, NEW c \in ChallengeId, NEW verdict \in {"verified", "expired", "cancelled"},
         NEW G, GuessInv(s, G), Open(s.challenges[c])
  PROVE  GuessInv(ended(s, c, verdict), G)
<1>. DEFINE t == ended(s, c, verdict)
<1>1. /\ \A d \in ChallengeId \ {c} : t.challenges[d] = s.challenges[d]
      /\ t.challenges[c].verification_state = verdict
      /\ t.challenges[c].incorrect_guesses = s.challenges[c].incorrect_guesses
  BY EndedRows DEF Verdict
<1>. HIDE DEF t
<1>2. GuessOK(t.challenges[c], of(G, c))
  BY <1>1 DEF GuessInv, GuessOK, Open
<1>3. ASSUME NEW d \in ChallengeId PROVE GuessOK(t.challenges[d], of(G, d))
  BY <1>1, <1>2 DEF GuessInv
<1>. QED BY <1>3 DEF GuessInv, t

LEMMA EndedRowsInv ==
  ASSUME NEW s, NEW c \in ChallengeId, NEW verdict \in {"verified", "expired", "cancelled"},
         NEW A \in SUBSET Answer, NEW G, RowsInv(s, A, G), Open(s.challenges[c])
  PROVE  RowsInv(ended(s, c, verdict), A, G)
<1>1. s \in Database /\ LifeInv(s) /\ AnswerInv(s, A) /\ SuccessInv(s, A) /\ GuessInv(s, G)
  BY DEF RowsInv
<1>2. verdict \in Verdict
  BY DEF Verdict
<1>. QED BY <1>1, <1>2, EndedType, EndedLife, EndedAnswers, EndedGuesses DEF RowsInv

\* Logical expiry keeps the invariant and the outcomes on record.
LEMMA ExpiredKeeps ==
  ASSUME ChallengeInv, NEW c \in ChallengeId
  PROVE  /\ RowsInv(expired(c), answers, guesses)
         /\ \A d \in ChallengeId, k \in Key :
              expired(c).receipts[d][k].outcome = db.receipts[d][k].outcome
<1>1. CASE active(db, c) /\ overdue(c)
  <2>1. db \in Database /\ RowsInv(db, answers, guesses) /\ answers \in SUBSET Answer
    BY DEF ChallengeInv, RowsInv
  <2>2. Open(db.challenges[c])
    BY <1>1, <2>1 DEF RowsInv, LifeInv, LifeOK, Open, active
  <2>3. expired(c) = ended(db, c, "expired")
    BY <1>1, <2>1, <2>2, TerminateEnds DEF expired, Verdict
  <2>4. RowsInv(ended(db, c, "expired"), answers, guesses)
    BY <2>1, <2>2, EndedRowsInv
  <2>5. \A d \in ChallengeId, k \in Key :
          ended(db, c, "expired").receipts[d][k].outcome = db.receipts[d][k].outcome
    BY <2>1, EndedKeepsOutcomes DEF Verdict
  <2>. QED BY <2>3, <2>4, <2>5
<1>2. CASE ~(active(db, c) /\ overdue(c))
  BY <1>2 DEF expired, ChallengeInv
<1>. QED BY <1>1, <1>2

-----------------------------------------------------------------------------
(***************************************************************************)
(* A first answer: s is what the command saw, t the rows after its verdict *)
(* and u the rows with its receipt.                                        *)
(***************************************************************************)
LEMMA FirstAnswer ==
  ASSUME NEW s \in Database, NEW t \in Database, NEW c \in ChallengeId, NEW k \in Key,
         NEW outcome \in Outcome, NEW code \in Code \cup {NoCode}, NEW A \in SUBSET Answer,
         AnswerInv(s, A), SuccessInv(s, A),
         Open(s.challenges[c]), s.receipts[c][k].outcome = "none",
         \A d \in ChallengeId, l \in Key : t.receipts[d][l].outcome = s.receipts[d][l].outcome,
         \A d \in ChallengeId \ {c} : t.challenges[d] = s.challenges[d],
         (outcome = "verified") <=> (t.challenges[c].verification_state = "verified")
  PROVE  LET u == saveResult(t, c, k, outcome, code)
             B == A \cup {[challenge |-> c, key |-> k, outcome |-> outcome]}
         IN /\ u \in Database
            /\ AnswerInv(u, B)
            /\ SuccessInv(u, B)
<1>. DEFINE u == saveResult(t, c, k, outcome, code)
            new == [challenge |-> c, key |-> k, outcome |-> outcome]
            B == A \cup {new}
<1>1. u \in Database
  <2>1. [outcome |-> outcome, code_fingerprint |-> code] \in Receipt
    BY DEF Receipt
  <2>2. [t.receipts[c] EXCEPT ![k] = [outcome |-> outcome, code_fingerprint |-> code]]
          \in [Key -> Receipt]
    BY <2>1 DEF Database
  <2>. QED BY <2>2 DEF saveResult, setReceipt, Database
<1>2. u.challenges = t.challenges
  BY DEF saveResult, setReceipt
<1>3. /\ u.receipts[c][k].outcome = outcome
      /\ \A d \in ChallengeId, l \in Key :
           d # c \/ l # k => u.receipts[d][l].outcome = s.receipts[d][l].outcome
  BY DEF saveResult, setReceipt, Database
<1>4. outcome # "none" /\ new \in Answer
  BY DEF Outcome, Answer
<1>. HIDE DEF u
<1>5. ASSUME NEW x \in A PROVE AnswerOK(u, x) /\ (x.challenge # c \/ x.key # k)
  <2>1. x.challenge \in ChallengeId /\ x.key \in Key /\ AnswerOK(s, x)
    BY DEF Answer, AnswerInv
  <2>2. x.challenge = c => s.receipts[c][x.key].outcome # "none"
    BY <2>1 DEF AnswerOK, Open
  <2>3. x.challenge # c \/ x.key # k
    BY <2>2
  <2>4. u.receipts[x.challenge][x.key].outcome = s.receipts[x.challenge][x.key].outcome
    BY <1>3, <2>1, <2>3
  <2>. QED BY <1>2, <2>1, <2>2, <2>3, <2>4 DEF AnswerOK
<1>6. AnswerOK(u, new)
  BY <1>3, <1>4 DEF AnswerOK
<1>7. AnswerInv(u, B)
  BY <1>5, <1>6 DEF AnswerInv
<1>8. \A l \in Key : ~succeeded(s, A, c, l)
  BY DEF SuccessInv, Open
<1>9. \A d \in ChallengeId, l \in Key :
        succeeded(u, B, d, l)
          <=> (succeeded(s, A, d, l) \/ (d = c /\ l = k /\ outcome = "verified"))
  <2>. SUFFICES ASSUME NEW d \in ChallengeId, NEW l \in Key
               PROVE succeeded(u, B, d, l)
                       <=> (succeeded(s, A, d, l) \/ (d = c /\ l = k /\ outcome = "verified"))
    OBVIOUS
  <2>1. [challenge |-> d, key |-> l, outcome |-> "verified"] \in B
          <=> \/ [challenge |-> d, key |-> l, outcome |-> "verified"] \in A
              \/ d = c /\ l = k /\ outcome = "verified"
    OBVIOUS
  <2>2. CASE d = c /\ l = k
    BY <1>3, <1>8, <2>1, <2>2 DEF succeeded
  <2>3. CASE ~(d = c /\ l = k)
    BY <1>3, <2>1, <2>3 DEF succeeded
  <2>. QED BY <2>2, <2>3
<1>10. SuccessInv(u, B)
  <2>. SUFFICES ASSUME NEW d \in ChallengeId, NEW l \in Key, succeeded(u, B, d, l)
               PROVE  /\ u.challenges[d].verification_state \in {"verified", "deleted"}
                      /\ \A m \in Key : succeeded(u, B, d, m) => m = l
    BY DEF SuccessInv
  <2>. HIDE DEF B
  <2>1. CASE d = c
    <3>1. l = k /\ outcome = "verified"
      BY <1>8, <1>9, <2>1
    <3>2. \A m \in Key : succeeded(u, B, c, m) => m = k
      BY <1>8, <1>9
    <3>. QED BY <1>2, <2>1, <3>1, <3>2
  <2>2. CASE d # c
    <3>1. \A m \in Key : succeeded(u, B, d, m) <=> succeeded(s, A, d, m)
      BY <1>9, <2>2
    <3>2. u.challenges[d] = s.challenges[d]
      BY <1>2, <2>2
    <3>. QED BY <3>1, <3>2 DEF SuccessInv
  <2>. QED BY <2>1, <2>2
<1>. QED BY <1>1, <1>7, <1>10 DEF u

LEMMA SavedLife ==
  ASSUME NEW t \in Database, NEW c \in ChallengeId, NEW k \in Key, LifeInv(t),
         NEW outcome \in Outcome, NEW code \in Code \cup {NoCode},
         t.challenges[c].verification_state # "absent",
         t.challenges[c].operation # "active" => code = NoCode
  PROVE  LifeInv(saveResult(t, c, k, outcome, code))
<1>. DEFINE u == saveResult(t, c, k, outcome, code)
            r == [outcome |-> outcome, code_fingerprint |-> code]
<1>1. u.challenges = t.challenges /\ u.receipts[c] = [t.receipts[c] EXCEPT ![k] = r]
      /\ \A d \in ChallengeId \ {c} : u.receipts[d] = t.receipts[d]
  BY DEF saveResult, setReceipt, Database
<1>2. \A l \in Key : u.receipts[c][l] = IF l = k THEN r ELSE t.receipts[c][l]
  BY <1>1 DEF Database
<1>. HIDE DEF u
<1>3. LifeOK(u.challenges[c], u.receipts[c])
  BY <1>1, <1>2 DEF LifeInv, LifeOK
<1>. QED BY <1>1, <1>3 DEF LifeInv, u

-----------------------------------------------------------------------------
(***************************************************************************)
(* The actions.                                                            *)
(***************************************************************************)
LEMMA InitInv == Init => ChallengeInv
<1>. SUFFICES ASSUME Init PROVE ChallengeInv
  OBVIOUS
<1>1. noRow("absent") \in Row /\ NoReceipt \in Receipt
  BY GuessAssumption DEF noRow, NoReceipt, Row, Receipt
<1>2. db \in Database
  BY <1>1 DEF Init, Database
<1>3. LifeInv(db)
  BY DEF Init, LifeInv, LifeOK, noRow, NoReceipt
<1>4. AnswerInv(db, answers) /\ SuccessInv(db, answers)
  BY DEF Init, AnswerInv, SuccessInv, succeeded, NoReceipt
<1>5. \A c \in ChallengeId : of(guesses, c) = {}
  BY DEF Init, of
<1>6. GuessInv(db, guesses)
  <2>1. GuessOK(noRow("absent"), {})
    <3>1. IsFiniteSet({}) /\ Cardinality({}) = 0
      BY FS_EmptySet
    <3>. QED BY <3>1, GuessAssumption DEF GuessOK, noRow
  <2>2. \A c \in ChallengeId : db.challenges[c] = noRow("absent")
    BY DEF Init
  <2>. QED BY <1>5, <2>1, <2>2 DEF GuessInv
<1>. QED BY <1>2, <1>3, <1>4, <1>6 DEF Init, ChallengeInv, RowsInv

LEMMA CreateKeeps ==
  ASSUME ChallengeInv, NEW c \in ChallengeId, Create(c)
  PROVE  ChallengeInv'
<1>. DEFINE row == [verification_state |-> "active", operation |-> "active",
                    verifier |-> TRUE, incorrect_guesses |-> 0,
                    expires_at |-> clock + Lifetime]
<1>1. row \in Row
  BY LifetimeAssumption, GuessAssumption DEF ChallengeInv, Row
<1>2. /\ db'.receipts = db.receipts
      /\ db'.challenges = [db.challenges EXCEPT ![c] = row]
      /\ db' \in Database
  BY <1>1 DEF Create, setRow, Database, ChallengeInv, RowsInv
<1>3. /\ db'.challenges[c] = row
      /\ \A d \in ChallengeId \ {c} : db'.challenges[d] = db.challenges[d]
  BY <1>2 DEF Database, ChallengeInv, RowsInv
<1>4. LifeInv(db')
  <2>1. LifeOK(row, db.receipts[c])
    BY Zenon DEF LifeOK
  <2>. HIDE DEF row
  <2>2. db'.challenges[c] = row /\ db'.receipts[c] = db.receipts[c]
    BY <1>2, <1>3
  <2>3. \A d \in ChallengeId \ {c} : LifeOK(db'.challenges[d], db'.receipts[d])
    BY <1>2, <1>3 DEF ChallengeInv, RowsInv, LifeInv
  <2>. QED BY <2>1, <2>2, <2>3 DEF LifeInv
<1>5. \A k \in Key : db.receipts[c][k].outcome = "none"
  BY DEF Create, ChallengeInv, RowsInv, LifeInv, LifeOK
<1>6. \A x \in answers : x.challenge # c
  BY <1>5 DEF Create, ChallengeInv, RowsInv, AnswerInv, AnswerOK, Answer
<1>7. AnswerInv(db', answers)
  BY <1>2, <1>3, <1>6 DEF ChallengeInv, RowsInv, AnswerInv, AnswerOK, Answer
<1>8. SuccessInv(db', answers)
  <2>1. \A d \in ChallengeId, k \in Key :
          succeeded(db', answers, d, k) <=> succeeded(db, answers, d, k)
    BY <1>2 DEF succeeded
  <2>2. \A k \in Key : ~succeeded(db, answers, c, k)
    BY DEF Create, ChallengeInv, RowsInv, SuccessInv
  <2>. QED BY <1>3, <2>1, <2>2 DEF ChallengeInv, RowsInv, SuccessInv
<1>9. GuessInv(db', guesses)
  <2>1. GuessOK(db.challenges[c], of(guesses, c))
    BY DEF ChallengeInv, RowsInv, GuessInv
  <2>2. row.verification_state = "active" /\ row.incorrect_guesses = 0
    OBVIOUS
  <2>. HIDE DEF row
  <2>3. GuessOK(row, of(guesses, c))
    BY <2>1, <2>2, GuessAssumption DEF Create, GuessOK
  <2>. QED BY <1>3, <2>3 DEF ChallengeInv, RowsInv, GuessInv
<1>. QED BY <1>2, <1>4, <1>7, <1>8, <1>9 DEF Create, ChallengeInv, RowsInv

LEMMA ReplayKeeps ==
  ASSUME ChallengeInv, NEW c \in ChallengeId, NEW k \in Key, NEW code \in Code,
         Replay(c, k, code)
  PROVE  ChallengeInv'
<1>. DEFINE s == expired(c)
            new == [challenge |-> c, key |-> k, outcome |-> s.receipts[c][k].outcome]
<1>1. /\ RowsInv(s, answers, guesses)
      /\ s.receipts[c][k].outcome = db.receipts[c][k].outcome
  BY ExpiredKeeps
<1>2. s \in Database /\ db' = s /\ s.receipts[c][k].outcome # "none"
  BY <1>1 DEF Replay, RowsInv
<1>3. s.receipts[c][k] \in Receipt
  BY <1>2 DEF Database
<1>4. new \in Answer
  BY <1>2, <1>3 DEF Receipt, Answer
<1>5. answers' \in {answers, answers \cup {new}}
  BY DEF Replay, answered
<1>. HIDE DEF s
<1>6. AnswerInv(s, answers')
  BY <1>1, <1>2, <1>5 DEF RowsInv, AnswerInv, AnswerOK
<1>7. SuccessInv(s, answers')
  <2>1. \A d \in ChallengeId, l \in Key :
          succeeded(s, answers', d, l) <=> succeeded(s, answers, d, l)
    <3>. SUFFICES ASSUME NEW d \in ChallengeId, NEW l \in Key
                 PROVE succeeded(s, answers', d, l) <=> succeeded(s, answers, d, l)
      OBVIOUS
    <3>1. [challenge |-> d, key |-> l, outcome |-> "verified"] = new
            => s.receipts[d][l].outcome = "verified"
      OBVIOUS
    <3>. QED BY <1>5, <3>1 DEF succeeded
  <2>. QED BY <1>1, <2>1 DEF RowsInv, SuccessInv
<1>. QED BY <1>1, <1>2, <1>4, <1>5, <1>6, <1>7 DEF Replay, ChallengeInv, RowsInv, s

\* What the comparison relies on.
LEMMA Compared ==
  ASSUME ChallengeInv, NEW c \in ChallengeId, NEW k \in Key,
         comparable(expired(c), c, k)
  PROVE  /\ RowsInv(expired(c), answers, guesses)
         /\ expired(c) \in Database
         /\ Open(expired(c).challenges[c])
         /\ expired(c).receipts[c][k].outcome = "none"
         /\ answers \in SUBSET Answer
<1>1. RowsInv(expired(c), answers, guesses)
  BY ExpiredKeeps
<1>2. expired(c).challenges[c].verification_state = "active"
  BY DEF comparable, active
<1>3. expired(c).challenges[c].operation = "active"
  BY <1>1, <1>2 DEF RowsInv, LifeInv, LifeOK
<1>. QED BY <1>1, <1>2, <1>3 DEF RowsInv, Open, comparable, ChallengeInv

LEMMA VerifyRightKeeps ==
  ASSUME ChallengeInv, NEW c \in ChallengeId, NEW k \in Key, VerifyRight(c, k)
  PROVE  ChallengeInv'
<1>. DEFINE s == expired(c)
            t == ended(s, c, "verified")
            u == saveResult(t, c, k, "verified", NoCode)
<1>1. /\ RowsInv(s, answers, guesses) /\ s \in Database
      /\ Open(s.challenges[c]) /\ s.receipts[c][k].outcome = "none"
      /\ answers \in SUBSET Answer
  BY Compared DEF VerifyRight
<1>. HIDE DEF s
<1>2. "verified" \in Verdict /\ "verified" \in Outcome /\ NoCode \in Code \cup {NoCode}
  BY DEF Verdict, Outcome
<1>3. db' = u
  BY <1>1, <1>2, TerminateEnds DEF VerifyRight, s
<1>4. RowsInv(t, answers, guesses) /\ t \in Database
  BY <1>1, EndedRowsInv DEF RowsInv
<1>5. /\ \A d \in ChallengeId, l \in Key : t.receipts[d][l].outcome = s.receipts[d][l].outcome
      /\ \A d \in ChallengeId \ {c} : t.challenges[d] = s.challenges[d]
      /\ t.challenges[c].verification_state = "verified"
  BY <1>1, <1>2, EndedKeepsOutcomes, EndedRows
<1>. HIDE DEF t
<1>6. /\ u \in Database /\ AnswerInv(u, answers') /\ SuccessInv(u, answers')
  BY <1>1, <1>2, <1>4, <1>5, FirstAnswer DEF VerifyRight, answered, RowsInv
<1>7. LifeInv(u)
  <2>1. LifeInv(t) /\ t.challenges[c].operation # "active"
    BY <1>4, <1>5 DEF RowsInv, LifeInv, LifeOK
  <2>. QED BY <1>2, <1>4, <1>5, <2>1, SavedLife
<1>8. GuessInv(u, guesses)
  <2>1. u.challenges = t.challenges
    BY DEF saveResult, setReceipt
  <2>. QED BY <1>4, <2>1 DEF RowsInv, GuessInv
<1>9. answers' \subseteq Answer
  BY <1>1, <1>2 DEF VerifyRight, answered, Answer
<1>. QED BY <1>3, <1>6, <1>7, <1>8, <1>9 DEF VerifyRight, ChallengeInv, RowsInv

\* Counting one more wrong guess of an open challenge.
LEMMA CountedRows ==
  ASSUME NEW s \in Database, NEW c \in ChallengeId, NEW G, LifeInv(s), GuessInv(s, G),
         Open(s.challenges[c])
  PROVE  /\ s.challenges[c].incorrect_guesses + 1 \in 1 .. max_incorrect_guesses
         /\ counted(s, c) \in Database
         /\ LifeInv(counted(s, c))
         /\ Open(counted(s, c).challenges[c])
         /\ counted(s, c).receipts = s.receipts
         /\ counted(s, c).challenges[c].incorrect_guesses
              = s.challenges[c].incorrect_guesses + 1
         /\ \A d \in ChallengeId \ {c} : counted(s, c).challenges[d] = s.challenges[d]
<1>. DEFINE old == s.challenges[c]
            row == [old EXCEPT !.incorrect_guesses = @ + 1]
<1>1. old \in Row /\ s.challenges \in [ChallengeId -> Row]
  BY DEF Database
<1>2. old.incorrect_guesses # max_incorrect_guesses
  BY DEF GuessInv, GuessOK, Open
<1>3. old.incorrect_guesses + 1 \in 1 .. max_incorrect_guesses
  BY <1>1, <1>2, GuessAssumption DEF Row
<1>4. /\ row \in Row /\ Open(row)
      /\ row.incorrect_guesses = old.incorrect_guesses + 1
      /\ row.verification_state = old.verification_state
      /\ row.operation = old.operation /\ row.verifier = old.verifier
  BY <1>1, <1>3, GuessAssumption DEF Row, Open
<1>5. counted(s, c) = setRow(s, c, row)
  BY DEF counted
<1>. HIDE DEF row, old
<1>6. /\ setRow(s, c, row) \in Database
      /\ setRow(s, c, row).receipts = s.receipts
      /\ setRow(s, c, row).challenges[c] = row
      /\ \A d \in ChallengeId \ {c} : setRow(s, c, row).challenges[d] = s.challenges[d]
  BY <1>1, <1>4 DEF setRow, Database
<1>7. LifeOK(row, s.receipts[c])
  <2>1. LifeOK(old, s.receipts[c])
    BY DEF LifeInv, old
  <2>. QED BY <1>4, <2>1 DEF LifeOK
<1>8. LifeInv(setRow(s, c, row))
  BY <1>6, <1>7 DEF LifeInv
<1>. QED BY <1>3, <1>4, <1>5, <1>6, <1>8 DEF old

LEMMA CountedGuesses ==
  ASSUME NEW s \in Database, NEW c \in ChallengeId, NEW G \in SUBSET Guess,
         NEW guess \in Guess, NEW row \in Row, GuessInv(s, G), Open(s.challenges[c]),
         guess.challenge = c, guess.n = s.challenges[c].incorrect_guesses + 1,
         row.incorrect_guesses = s.challenges[c].incorrect_guesses + 1,
         row.verification_state \in {"active", "locked"},
         (row.verification_state = "locked") <=> (row.incorrect_guesses = max_incorrect_guesses)
  PROVE  /\ GuessOK(row, of(G \cup {guess}, c))
         /\ \A d \in ChallengeId \ {c} : of(G \cup {guess}, d) = of(G, d)
<1>1. /\ IsFiniteSet(of(G, c))
      /\ Cardinality(of(G, c)) = s.challenges[c].incorrect_guesses
      /\ \A g \in of(G, c) : g.n <= s.challenges[c].incorrect_guesses
  BY DEF GuessInv, GuessOK, Open
<1>2. s.challenges[c].incorrect_guesses \in Nat
  BY GuessAssumption DEF Database, Row
<1>3. guess \notin of(G, c)
  BY <1>1, <1>2
<1>4. of(G \cup {guess}, c) = of(G, c) \cup {guess}
  BY DEF of
<1>5. /\ IsFiniteSet(of(G \cup {guess}, c))
      /\ Cardinality(of(G \cup {guess}, c)) = row.incorrect_guesses
  <2>. DEFINE S == of(G, c)
  <2>1. IsFiniteSet(S \cup {guess}) /\ Cardinality(S \cup {guess}) = Cardinality(S) + 1
    <3>. HIDE DEF S
    <3>. QED BY <1>1, <1>3, FS_AddElement DEF S
  <2>. QED BY <1>1, <1>4, <2>1
<1>6. \A g \in of(G \cup {guess}, c) : g.n <= row.incorrect_guesses
  <2>1. \A g \in of(G, c) : g.n \in Nat
    BY GuessAssumption DEF of, Guess
  <2>. QED BY <1>1, <1>2, <1>4, <2>1
<1>7. row.incorrect_guesses <= max_incorrect_guesses
  BY GuessAssumption DEF Row
<1>8. GuessOK(row, of(G \cup {guess}, c))
  BY <1>5, <1>6, <1>7 DEF GuessOK
<1>9. \A d \in ChallengeId \ {c} : of(G \cup {guess}, d) = of(G, d)
  BY DEF of
<1>. QED BY <1>8, <1>9

LEMMA VerifyWrongKeeps ==
  ASSUME ChallengeInv, NEW c \in ChallengeId, NEW k \in Key, NEW code \in Code,
         VerifyWrong(c, k, code)
  PROVE  ChallengeInv'
<1>. DEFINE s == expired(c)
            last == lastGuess(s, c)
            s1 == counted(s, c)
            t == IF last THEN ended(s1, c, "locked") ELSE s1
            outcome == IF last THEN "locked" ELSE "incorrect"
            kept == IF last THEN NoCode ELSE code
            u == saveResult(t, c, k, outcome, kept)
            guess == [challenge |-> c, n |-> s.challenges[c].incorrect_guesses + 1,
                      at |-> clock]
<1>1. /\ RowsInv(s, answers, guesses) /\ s \in Database
      /\ Open(s.challenges[c]) /\ s.receipts[c][k].outcome = "none"
      /\ answers \in SUBSET Answer /\ guesses \in SUBSET Guess
      /\ LifeInv(s) /\ GuessInv(s, guesses)
  BY Compared DEF VerifyWrong, RowsInv, ChallengeInv
<1>. HIDE DEF s
<1>2. /\ s.challenges[c].incorrect_guesses + 1 \in 1 .. max_incorrect_guesses
      /\ s1 \in Database /\ LifeInv(s1) /\ Open(s1.challenges[c])
      /\ s1.receipts = s.receipts
      /\ s1.challenges[c].incorrect_guesses = s.challenges[c].incorrect_guesses + 1
      /\ \A d \in ChallengeId \ {c} : s1.challenges[d] = s.challenges[d]
  BY <1>1, CountedRows
<1>. HIDE DEF s1
<1>3. "locked" \in Verdict /\ outcome \in Outcome /\ kept \in Code \cup {NoCode}
  BY DEF Verdict, Outcome
<1>4. last <=> s.challenges[c].incorrect_guesses + 1 = max_incorrect_guesses
  BY <1>2, GuessAssumption DEF lastGuess
<1>5. /\ db' = u
      /\ answers' = answers \cup {[challenge |-> c, key |-> k, outcome |-> outcome]}
      /\ guesses' = guesses \cup {guess} /\ quota' = quota \cup {guess}
      /\ clock' = clock
  <2>1. CASE last
    BY <1>2, <1>3, <2>1, TerminateEnds DEF VerifyWrong, countQuotas, answered, s, s1
  <2>2. CASE ~last
    BY <2>2 DEF VerifyWrong, countQuotas, answered, s, s1
  <2>. QED BY <2>1, <2>2
<1>6. /\ t \in Database /\ LifeInv(t)
      /\ \A d \in ChallengeId, l \in Key : t.receipts[d][l].outcome = s.receipts[d][l].outcome
      /\ \A d \in ChallengeId \ {c} : t.challenges[d] = s.challenges[d]
      /\ t.challenges[c].incorrect_guesses = s.challenges[c].incorrect_guesses + 1
      /\ t.challenges[c].verification_state = IF last THEN "locked" ELSE "active"
  <2>1. CASE last
    <3>1. ended(s1, c, "locked") \in Database /\ LifeInv(ended(s1, c, "locked"))
      BY <1>2, <1>3, EndedType, EndedLife
    <3>. QED BY <1>2, <1>3, <2>1, <3>1, EndedKeepsOutcomes, EndedRows
  <2>2. CASE ~last
    BY <1>2, <2>2 DEF Open
  <2>. QED BY <2>1, <2>2
<1>7. t.challenges[c].operation # "active" => kept = NoCode
  <2>1. CASE last
    BY <2>1
  <2>2. CASE ~last
    BY <1>2, <2>2 DEF Open
  <2>. QED BY <2>1, <2>2
<1>8. guess \in Guess
  BY <1>2 DEF Guess, ChallengeInv
<1>9. (outcome = "verified") <=> (t.challenges[c].verification_state = "verified")
  BY <1>6
<1>10. t.challenges[c].verification_state # "absent"
  BY <1>6
<1>11. GuessInv(t, guesses')
  <2>1. t.challenges[c] \in Row
    BY <1>6 DEF Database
  <2>2. /\ GuessOK(t.challenges[c], of(guesses \cup {guess}, c))
        /\ \A d \in ChallengeId \ {c} : of(guesses \cup {guess}, d) = of(guesses, d)
    <3>. guess.challenge = c /\ guess.n = s.challenges[c].incorrect_guesses + 1
      OBVIOUS
    <3>. DEFINE row == t.challenges[c]
    <3>1. /\ row \in Row /\ row.verification_state \in {"active", "locked"}
          /\ row.incorrect_guesses = s.challenges[c].incorrect_guesses + 1
          /\ (row.verification_state = "locked")
               <=> (row.incorrect_guesses = max_incorrect_guesses)
      BY <1>4, <1>6, <2>1
    <3>. HIDE DEF guess, t, last, row
    <3>2. /\ GuessOK(row, of(guesses \cup {guess}, c))
          /\ \A d \in ChallengeId \ {c} : of(guesses \cup {guess}, d) = of(guesses, d)
      BY <1>1, <1>8, <3>1, CountedGuesses
    <3>. QED BY <3>2 DEF row
  <2>. QED BY <1>1, <1>5, <1>6, <2>2 DEF GuessInv
<1>. HIDE DEF t, kept, outcome
<1>12. u \in Database /\ AnswerInv(u, answers') /\ SuccessInv(u, answers')
  BY <1>1, <1>3, <1>5, <1>6, <1>9, FirstAnswer DEF RowsInv
<1>13. LifeInv(u)
  BY <1>3, <1>6, <1>7, <1>10, SavedLife
<1>14. GuessInv(u, guesses')
  <2>1. u.challenges = t.challenges
    BY DEF saveResult, setReceipt
  <2>. QED BY <1>11, <2>1 DEF GuessInv
<1>15. answers' \subseteq Answer
  BY <1>1, <1>3, <1>5 DEF Answer
<1>16. guesses' \subseteq Guess /\ quota' \subseteq guesses' /\ clock' \in Nat
  BY <1>1, <1>5, <1>8 DEF ChallengeInv
<1>. QED BY <1>5, <1>12, <1>13, <1>14, <1>15, <1>16 DEF ChallengeInv, RowsInv

LEMMA EndingKeeps ==
  ASSUME ChallengeInv, NEW c \in ChallengeId,
         Cancel(c) \/ Touch(c) \/ ExpireOperation(c) \/ Invalidate(c)
  PROVE  ChallengeInv'
<1>1. UNCHANGED <<quota, clock, guesses, answers>>
  BY DEF Cancel, Touch, ExpireOperation, Invalidate
<1>2. db \in Database /\ RowsInv(db, answers, guesses) /\ answers \in SUBSET Answer
  BY DEF ChallengeInv, RowsInv
<1>3. RowsInv(db', answers, guesses)
  <2>1. CASE Touch(c)
    BY <2>1, ExpiredKeeps DEF Touch
  <2>2. CASE Cancel(c)
    <3>. DEFINE s == expired(c)
    <3>1. RowsInv(s, answers, guesses)
      BY ExpiredKeeps
    <3>. HIDE DEF s
    <3>2. s \in Database /\ Open(s.challenges[c])
      BY <2>2, <3>1 DEF Cancel, s, active, RowsInv, LifeInv, LifeOK, Open
    <3>3. db' = ended(s, c, "cancelled")
      BY <2>2, <3>2, TerminateEnds DEF Cancel, s, Verdict
    <3>. QED BY <1>2, <3>1, <3>2, <3>3, EndedRowsInv
  <2>3. CASE ExpireOperation(c)
    <3>1. Open(db.challenges[c])
      BY <1>2, <2>3 DEF ExpireOperation, RowsInv, LifeInv, LifeOK, Open
    <3>2. db' = ended(db, c, "expired")
      BY <1>2, <2>3, <3>1, CloseEnds DEF ExpireOperation
    <3>. QED BY <1>2, <3>1, <3>2, EndedRowsInv
  <2>4. CASE Invalidate(c)
    <3>1. Open(db.challenges[c])
      BY <1>2, <2>4 DEF Invalidate, RowsInv, LifeInv, LifeOK, Open
    <3>2. db' = ended(db, c, "cancelled")
      BY <1>2, <2>4, <3>1, CloseEnds DEF Invalidate
    <3>. QED BY <1>2, <3>1, <3>2, EndedRowsInv
  <2>. QED BY <2>1, <2>2, <2>3, <2>4
<1>. QED BY <1>1, <1>3 DEF ChallengeInv

LEMMA DeleteReceiptKeeps ==
  ASSUME ChallengeInv, NEW c \in ChallengeId, NEW k \in Key, DeleteReceipt(c, k)
  PROVE  ChallengeInv'
<1>1. db \in Database /\ NoReceipt \in Receipt
  BY DEF ChallengeInv, RowsInv, NoReceipt, Receipt
<1>2. db' \in Database
  <2>1. [db.receipts[c] EXCEPT ![k] = NoReceipt] \in [Key -> Receipt]
    BY <1>1 DEF Database
  <2>. QED BY <1>1, <2>1 DEF DeleteReceipt, setReceipt, Database
<1>3. db'.challenges = db.challenges
  BY DEF DeleteReceipt, setReceipt
<1>4. \A d \in ChallengeId, l \in Key :
        db'.receipts[d][l] = IF d = c /\ l = k THEN NoReceipt ELSE db.receipts[d][l]
  BY <1>1 DEF DeleteReceipt, setReceipt, Database
<1>5. LifeInv(db')
  BY <1>3, <1>4 DEF DeleteReceipt, ChallengeInv, RowsInv, LifeInv, LifeOK, NoReceipt
<1>6. db.challenges[c].verification_state \notin {"absent", "active"}
  BY DEF DeleteReceipt, ChallengeInv, RowsInv, LifeInv, LifeOK
<1>7. AnswerInv(db', answers)
  <2>. SUFFICES ASSUME NEW x \in answers PROVE AnswerOK(db', x)
    BY DEF AnswerInv
  <2>1. AnswerOK(db, x) /\ x.challenge \in ChallengeId /\ x.key \in Key
    BY DEF ChallengeInv, RowsInv, AnswerInv, Answer
  <2>2. CASE x.challenge = c /\ x.key = k
    <3>1. db'.receipts[c][k] = NoReceipt
      BY <1>4
    <3>. QED BY <1>3, <1>6, <2>2, <3>1 DEF AnswerOK, NoReceipt
  <2>3. CASE ~(x.challenge = c /\ x.key = k)
    BY <1>3, <1>4, <2>1, <2>3 DEF AnswerOK
  <2>. QED BY <2>2, <2>3
<1>8. SuccessInv(db', answers)
  <2>1. \A d \in ChallengeId, l \in Key :
          succeeded(db', answers, d, l) => succeeded(db, answers, d, l)
    BY <1>4 DEF succeeded, NoReceipt
  <2>. QED BY <1>3, <2>1 DEF ChallengeInv, RowsInv, SuccessInv
<1>9. GuessInv(db', guesses)
  BY <1>3 DEF ChallengeInv, RowsInv, GuessInv
<1>. QED BY <1>2, <1>5, <1>7, <1>8, <1>9 DEF DeleteReceipt, ChallengeInv, RowsInv

LEMMA DeleteHistoryKeeps ==
  ASSUME ChallengeInv, NEW c \in ChallengeId, DeleteHistory(c)
  PROVE  ChallengeInv'
<1>. DEFINE row == noRow("deleted")
<1>1. db \in Database /\ row \in Row
  <2>1. 0 \in 0 .. max_incorrect_guesses /\ 0 \in Nat /\ FALSE \in BOOLEAN
    BY GuessAssumption
  <2>2. row \in Row
    BY <2>1 DEF noRow, Row
  <2>. QED BY <2>2 DEF ChallengeInv, RowsInv
<1>2. /\ db' \in Database
      /\ db'.receipts = db.receipts
      /\ db'.challenges[c] = row
      /\ \A d \in ChallengeId \ {c} : db'.challenges[d] = db.challenges[d]
  BY <1>1 DEF DeleteHistory, setRow, Database
<1>3. row.verification_state = "deleted" /\ row.operation = "absent"
  BY DEF noRow
<1>4. LifeInv(db')
  <2>1. \A k \in Key : db.receipts[c][k].code_fingerprint = NoCode
    BY DEF DeleteHistory, ChallengeInv, RowsInv, LifeInv, LifeOK
  <2>2. LifeOK(row, db.receipts[c])
    BY <2>1, Zenon DEF LifeOK, noRow
  <2>3. \A d \in ChallengeId \ {c} : LifeOK(db'.challenges[d], db'.receipts[d])
    BY <1>2 DEF ChallengeInv, RowsInv, LifeInv
  <2>. HIDE DEF row
  <2>. QED BY <1>2, <2>2, <2>3 DEF LifeInv
<1>5. AnswerInv(db', answers)
  <2>. SUFFICES ASSUME NEW x \in answers PROVE AnswerOK(db', x)
    BY DEF AnswerInv
  <2>1. AnswerOK(db, x) /\ x.challenge \in ChallengeId
    BY DEF ChallengeInv, RowsInv, AnswerInv, Answer
  <2>. QED BY <1>2, <1>3, <2>1 DEF AnswerOK
<1>6. SuccessInv(db', answers)
  <2>1. \A d \in ChallengeId, l \in Key :
          succeeded(db', answers, d, l) <=> succeeded(db, answers, d, l)
    BY <1>2 DEF succeeded
  <2>. HIDE DEF row
  <2>. QED BY <1>2, <1>3, <2>1 DEF ChallengeInv, RowsInv, SuccessInv
<1>7. GuessInv(db', guesses)
  <2>1. GuessOK(db.challenges[c], of(guesses, c))
    BY DEF ChallengeInv, RowsInv, GuessInv
  <2>. HIDE DEF row
  <2>2. GuessOK(row, of(guesses, c))
    BY <1>3, <2>1 DEF GuessOK
  <2>. QED BY <1>2, <2>2 DEF ChallengeInv, RowsInv, GuessInv
<1>. QED BY <1>2, <1>4, <1>5, <1>6, <1>7 DEF DeleteHistory, ChallengeInv, RowsInv

LEMMA NextKeeps == ChallengeInv /\ [Next]_vars => ChallengeInv'
<1>. SUFFICES ASSUME ChallengeInv, [Next]_vars PROVE ChallengeInv'
  OBVIOUS
<1>1. CASE UNCHANGED vars
  BY <1>1 DEF vars, ChallengeInv
<1>2. CASE CleanQuotas
  BY <1>2 DEF CleanQuotas, ChallengeInv
<1>3. CASE Tick
  BY <1>3 DEF Tick, ChallengeInv
<1>4. ASSUME NEW c \in ChallengeId, NEW k \in Key, Verify(c, k) PROVE ChallengeInv'
  BY <1>4, ReplayKeeps, VerifyRightKeeps, VerifyWrongKeeps DEF Verify
<1>. QED BY <1>1, <1>2, <1>3, <1>4, CreateKeeps, EndingKeeps, DeleteReceiptKeeps,
            DeleteHistoryKeeps DEF Next

-----------------------------------------------------------------------------
LEMMA InvariantHolds == Spec => []ChallengeInv
  BY InitInv, NextKeeps, PTL DEF Spec

\* Type correctness of every reachable state, for all parameters.
THEOREM TypeCorrect == Spec => []TypeOK
<1>1. ChallengeInv => TypeOK
  BY DEF ChallengeInv, RowsInv, TypeOK
<1>. QED BY <1>1, InvariantHolds, PTL

\* LifecyclesAgree (store.ts, delivery-owner.ts): challenge and operation end together
\* and leave no secret behind, whichever of the two sides ends first.
THEOREM LifecyclesAlwaysAgree == Spec => []LifecyclesAgree
<1>1. ChallengeInv => LifecyclesAgree
  BY DEF ChallengeInv, RowsInv, LifeInv, LifeOK, LifecyclesAgree
<1>. QED BY <1>1, InvariantHolds, PTL

\* GuessBudget (verify.ts): any number of concurrent wrong guesses stays within the
\* budget, which locks the challenge exactly when it is used up.
THEOREM GuessBudgetHolds == Spec => []GuessBudget
<1>1. ChallengeInv => GuessBudget
  <2>. SUFFICES ASSUME ChallengeInv, NEW c \in ChallengeId
               PROVE  /\ Cardinality(guessesOf(c)) <= max_incorrect_guesses
                      /\ db.challenges[c].verification_state \notin {"absent", "deleted"} =>
                           (db.challenges[c].verification_state = "locked"
                              <=> Cardinality(guessesOf(c)) = max_incorrect_guesses)
    BY DEF GuessBudget
  <2>1. guessesOf(c) = of(guesses, c)
    BY DEF guessesOf, of
  <2>2. GuessOK(db.challenges[c], of(guesses, c))
    BY DEF ChallengeInv, RowsInv, GuessInv
  <2>. QED BY <2>1, <2>2 DEF GuessOK
<1>. QED BY <1>1, InvariantHolds, PTL

\* OneAnswerPerKey (idempotency.ts) is inductive only together with AnswerInv: a
\* vanished receipt must not make room for another answer.
LEMMA AnswersAgree ==
  ASSUME ChallengeInv, [Next]_vars, OneAnswerPerKey
  PROVE  OneAnswerPerKey'
<1>1. CASE UNCHANGED answers
  BY <1>1 DEF OneAnswerPerKey
<1>2. ASSUME NEW c \in ChallengeId, NEW k \in Key, NEW outcome,
             answered(c, k, outcome),
             \A x \in answers : x.challenge = c /\ x.key = k => x.outcome = outcome
      PROVE  OneAnswerPerKey'
  BY <1>2 DEF answered, OneAnswerPerKey
<1>3. ASSUME NEW c \in ChallengeId, NEW k \in Key, NEW code \in Code, Replay(c, k, code)
      PROVE  OneAnswerPerKey'
  <2>1. expired(c).receipts[c][k].outcome = db.receipts[c][k].outcome
    BY ExpiredKeeps
  <2>2. \A x \in answers : x.challenge = c /\ x.key = k
                           => x.outcome = db.receipts[c][k].outcome
    BY <1>3 DEF Replay, ChallengeInv, RowsInv, AnswerInv, AnswerOK
  <2>. QED BY <1>1, <1>2, <1>3, <2>1, <2>2 DEF Replay
<1>4. ASSUME NEW c \in ChallengeId, NEW k \in Key, comparable(expired(c), c, k)
      PROVE  \A x \in answers : ~(x.challenge = c /\ x.key = k)
  <2>1. /\ RowsInv(expired(c), answers, guesses)
        /\ expired(c).receipts[c][k].outcome = "none"
        /\ Open(expired(c).challenges[c])
    BY <1>4, Compared
  <2>. QED BY <2>1 DEF RowsInv, AnswerInv, AnswerOK, Open
<1>5. ASSUME NEW c \in ChallengeId, NEW k \in Key, VerifyRight(c, k)
      PROVE  OneAnswerPerKey'
  BY <1>2, <1>4, <1>5 DEF VerifyRight
<1>6. ASSUME NEW c \in ChallengeId, NEW k \in Key, NEW code \in Code,
             VerifyWrong(c, k, code)
      PROVE  OneAnswerPerKey'
  BY <1>2, <1>4, <1>6 DEF VerifyWrong
<1>. QED BY <1>1, <1>3, <1>5, <1>6
         DEF Next, Verify, vars, Create, Cancel, Touch, ExpireOperation, Invalidate,
             DeleteReceipt, DeleteHistory, CleanQuotas, Tick

\* OneAnswerPerKey: retries never obtain a second, different result.
THEOREM KeysHaveOneAnswer == Spec => []OneAnswerPerKey
<1>1. Init => OneAnswerPerKey
  BY DEF Init, OneAnswerPerKey
<1>2. ChallengeInv /\ OneAnswerPerKey /\ [Next]_vars => OneAnswerPerKey'
  BY AnswersAgree
<1>. QED BY <1>1, <1>2, InvariantHolds, PTL DEF Spec

\* VerifiedOnce (security.md): one key obtains success, and it stays on record.
THEOREM VerifiedForOneKey == Spec => []VerifiedOnce
<1>1. ChallengeInv => VerifiedOnce
  <2>. SUFFICES ASSUME ChallengeInv PROVE VerifiedOnce
    OBVIOUS
  <2>1. \A x \in answers : x.outcome = "verified" =>
          /\ x.challenge \in ChallengeId /\ x.key \in Key
          /\ x = [challenge |-> x.challenge, key |-> x.key, outcome |-> "verified"]
    BY DEF ChallengeInv, Answer
  <2>2. \A x \in answers : x.outcome = "verified" =>
          succeeded(db, answers, x.challenge, x.key)
    BY <2>1 DEF succeeded
  <2>. QED BY <2>1, <2>2 DEF ChallengeInv, RowsInv, SuccessInv, VerifiedOnce
<1>. QED BY <1>1, InvariantHolds, PTL

-----------------------------------------------------------------------------
(***************************************************************************)
(* The rolling limit.  The guesses counted at a new comparison are all the *)
(* guesses of every window the new one will be in.                         *)
(***************************************************************************)
window(G, t) == {g \in G : t - Window < g.at /\ g.at <= t}
recent(G)    == {g \in G : g.at > clock - Window}

\* The events cleanup removed have left the window for good.
RateInv ==
  /\ IsFiniteSet(guesses)
  /\ \A g \in guesses : g.at <= clock
  /\ \A g \in guesses : g \notin quota => g.at <= clock - Window
  /\ \A t \in Nat : Cardinality(window(guesses, t)) <= recipientGuessLimit15m

LEMMA InitRate == Init => RateInv
<1>. SUFFICES ASSUME Init PROVE RateInv
  OBVIOUS
<1>1. guesses = {} /\ \A t \in Nat : window(guesses, t) = {}
  BY DEF Init, window
<1>. QED BY <1>1, FS_EmptySet, LimitAssumption DEF RateInv

\* The effect of one counted comparison.
LEMMA CountingKeepsRate ==
  ASSUME ChallengeInv, RateInv, NEW c \in ChallengeId,
         NEW s, countQuotas(s, c), ~limited, clock' = clock
  PROVE  RateInv'
<1>. DEFINE new == [challenge |-> c, n |-> s.challenges[c].incorrect_guesses + 1, at |-> clock]
<1>1. /\ guesses' = guesses \cup {new}
      /\ quota' = quota \cup {new}
      /\ new.at = clock
  BY DEF countQuotas
<1>. HIDE DEF new
<1>2. /\ clock \in Nat
      /\ quota \subseteq guesses
      /\ \A g \in guesses : g.at \in Nat
  BY DEF ChallengeInv, Guess
<1>3. IsFiniteSet(guesses')
  BY <1>1, FS_AddElement DEF RateInv
<1>4. recent(guesses) = recent(quota)
  BY <1>2, WindowAssumption DEF recent, RateInv
<1>5. /\ IsFiniteSet(recent(guesses))
      /\ Cardinality(recent(guesses)) \in Nat
      /\ Cardinality(recent(guesses)) < recipientGuessLimit15m
  <2>1. IsFiniteSet(recent(guesses))
    BY FS_Subset DEF RateInv, recent
  <2>2. Cardinality(recent(guesses)) \in Nat
    BY <2>1, FS_CardinalityType
  <2>3. ~(Cardinality(recent(quota)) >= recipientGuessLimit15m)
    BY DEF limited, recent
  <2>. QED BY <1>4, <2>1, <2>2, <2>3, LimitAssumption
<1>6. ASSUME NEW t \in Nat
      PROVE  Cardinality(window(guesses', t)) <= recipientGuessLimit15m
  <2>1. CASE t - Window < clock /\ clock <= t
    <3>1. window(guesses', t) = window(guesses, t) \cup {new}
      BY <1>1, <2>1 DEF window
    <3>2. window(guesses, t) \subseteq recent(guesses)
      BY <1>2, <2>1, WindowAssumption DEF window, recent
    <3>3. /\ IsFiniteSet(window(guesses, t))
          /\ Cardinality(window(guesses, t)) <= Cardinality(recent(guesses))
      BY <1>5, <3>2, FS_Subset
    <3>4. Cardinality(window(guesses, t)) \in Nat
      BY <3>3, FS_CardinalityType
    <3>5. Cardinality(window(guesses', t)) <= Cardinality(window(guesses, t)) + 1
      <4>. DEFINE S == window(guesses, t)
      <4>1. /\ IsFiniteSet(S \cup {new})
            /\ Cardinality(S \cup {new}) = Cardinality(S) \/ Cardinality(S \cup {new}) = Cardinality(S) + 1
        <5>. HIDE DEF S
        <5>. QED BY <3>3, FS_AddElement DEF S
      <4>. QED BY <3>1, <3>4, <4>1
    <3>6. Cardinality(window(guesses', t)) \in Nat
      BY <3>1, <3>3, FS_AddElement, FS_CardinalityType
    <3>. QED BY <1>5, <3>3, <3>4, <3>5, <3>6, LimitAssumption
  <2>2. CASE ~(t - Window < clock /\ clock <= t)
    <3>1. window(guesses', t) = window(guesses, t)
      BY <1>1, <2>2 DEF window
    <3>. QED BY <3>1 DEF RateInv
  <2>. QED BY <2>1, <2>2
<1>7. \A g \in guesses' : g.at <= clock
  BY <1>1, <1>2 DEF RateInv
<1>8. \A g \in guesses' : g \notin quota' => g.at <= clock - Window
  BY <1>1 DEF RateInv
<1>. QED BY <1>3, <1>6, <1>7, <1>8 DEF RateInv

LEMMA RateKeeps == ChallengeInv /\ RateInv /\ [Next]_vars => RateInv'
<1>. SUFFICES ASSUME ChallengeInv, RateInv, [Next]_vars PROVE RateInv'
  OBVIOUS
<1>1. CASE UNCHANGED <<quota, clock, guesses>>
  BY <1>1 DEF RateInv, window
<1>2. CASE CleanQuotas
  <2>1. \A g \in guesses : g \notin quota' => g.at <= clock - Window
    <3>. SUFFICES ASSUME NEW g \in guesses, g \notin quota' PROVE g.at <= clock - Window
      OBVIOUS
    <3>1. CASE g \notin quota
      BY <3>1 DEF RateInv
    <3>2. CASE g \in quota
      BY <1>2, <3>2, RetentionAssumption, WindowAssumption
         DEF CleanQuotas, outdated, ChallengeInv, Guess
    <3>. QED BY <3>1, <3>2
  <2>. QED BY <1>2, <2>1 DEF CleanQuotas, RateInv, window
<1>3. CASE Tick
  <2>1. \A g \in guesses : g.at \in Nat /\ clock \in Nat
    BY DEF ChallengeInv, Guess
  <2>. QED BY <1>3, <2>1, WindowAssumption DEF Tick, RateInv, window
<1>4. ASSUME NEW c \in ChallengeId, NEW k \in Key, NEW code \in Code,
             VerifyWrong(c, k, code)
      PROVE  RateInv'
  BY <1>4, CountingKeepsRate DEF VerifyWrong, comparable
<1>. QED BY <1>1, <1>2, <1>3, <1>4
         DEF Next, Verify, Replay, VerifyRight, vars, Create, Cancel, Touch, ExpireOperation,
             Invalidate, DeleteReceipt, DeleteHistory

\* RollingGuessLimit (quotas.ts, maintenance.ts): no window, however its events were
\* cleaned up, ever holds more wrong guesses of the recipient than the limit.
THEOREM RollingLimitHolds == Spec => []RollingGuessLimit
<1>1. RateInv => RollingGuessLimit
  BY ClockAssumption DEF RateInv, window, RollingGuessLimit
<1>. QED BY <1>1, InitRate, RateKeeps, InvariantHolds, PTL DEF Spec

-----------------------------------------------------------------------------
(***************************************************************************)
(* What one command may change: the row of its challenge alone, from a     *)
(* verdict only to deletion, and to success only before the deadline.      *)
(***************************************************************************)
state(s, c) == s.challenges[c].verification_state

OneRow(c, t) ==
  /\ \A d \in ChallengeId \ {c} : state(t, d) = state(db, d)
  /\ state(db, c) \in Verdict => state(t, c) \in {state(db, c), "deleted"}
  /\ state(db, c) # "verified" /\ state(t, c) = "verified" => ~overdue(c)

\* Logical expiry leaves an open challenge only before its deadline.
LEMMA OpenIsInTime ==
  ASSUME ChallengeInv, NEW c \in ChallengeId, active(expired(c), c)
  PROVE  expired(c) = db /\ active(db, c) /\ ~overdue(c)
<1>1. CASE active(db, c) /\ overdue(c)
  <2>1. db \in Database /\ Open(db.challenges[c])
    BY <1>1 DEF ChallengeInv, RowsInv, LifeInv, LifeOK, Open, active
  <2>2. expired(c) = ended(db, c, "expired")
    BY <1>1, <2>1, TerminateEnds DEF expired, Verdict
  <2>3. ended(db, c, "expired").challenges[c].verification_state = "expired"
    BY <2>1, EndedRows DEF Verdict
  <2>. QED BY <2>2, <2>3 DEF active
<1>2. CASE ~(active(db, c) /\ overdue(c))
  BY <1>2 DEF expired
<1>. QED BY <1>1, <1>2

LEMMA ExpiredIsOneRow ==
  ASSUME ChallengeInv, NEW c \in ChallengeId
  PROVE  OneRow(c, expired(c))
<1>1. CASE active(db, c) /\ overdue(c)
  <2>1. db \in Database /\ Open(db.challenges[c])
    BY <1>1 DEF ChallengeInv, RowsInv, LifeInv, LifeOK, Open, active
  <2>2. expired(c) = ended(db, c, "expired")
    BY <1>1, <2>1, TerminateEnds DEF expired, Verdict
  <2>. QED BY <1>1, <2>1, <2>2, EndedRows DEF OneRow, state, active, Verdict
<1>2. CASE ~(active(db, c) /\ overdue(c))
  BY <1>2 DEF expired, OneRow, state
<1>. QED BY <1>1, <1>2

\* An open challenge ends, and its receipts may change with it.
LEMMA EndIsOneRow ==
  ASSUME NEW s \in Database, NEW c \in ChallengeId, NEW verdict \in Verdict, NEW t,
         Open(db.challenges[c]), \A d \in ChallengeId : state(s, d) = state(db, d),
         \A d \in ChallengeId : state(t, d) = state(ended(s, c, verdict), d),
         verdict = "verified" => ~overdue(c)
  PROVE  OneRow(c, t)
<1>1. /\ \A d \in ChallengeId \ {c} : state(t, d) = state(db, d)
      /\ state(t, c) = verdict
  BY EndedRows DEF state
<1>. QED BY <1>1 DEF OneRow, Open, state, Verdict

LEMMA VerifyIsOneRow ==
  ASSUME ChallengeInv, NEW c \in ChallengeId, NEW k \in Key, Verify(c, k)
  PROVE  /\ OneRow(c, db')
         /\ guesses' # guesses => ~overdue(c)
         /\ \A d \in ChallengeId \ {c} : guessesOf(d)' = guessesOf(d)
<1>1. ASSUME NEW code \in Code, Replay(c, k, code)
      PROVE  OneRow(c, db') /\ guesses' = guesses
  BY <1>1, ExpiredIsOneRow DEF Replay
<1>2. ASSUME comparable(expired(c), c, k)
      PROVE  /\ expired(c) = db /\ ~overdue(c)
             /\ db \in Database /\ Open(db.challenges[c])
             /\ LifeInv(db) /\ GuessInv(db, guesses)
  BY <1>2, OpenIsInTime DEF comparable, ChallengeInv, RowsInv, LifeInv, LifeOK, Open, active
<1>3. CASE VerifyRight(c, k)
  <2>1. expired(c) = db /\ ~overdue(c) /\ db \in Database /\ Open(db.challenges[c])
    BY <1>2, <1>3 DEF VerifyRight
  <2>2. db' = saveResult(ended(db, c, "verified"), c, k, "verified", NoCode)
    BY <1>3, <2>1, TerminateEnds DEF VerifyRight, Verdict
  <2>3. db'.challenges = ended(db, c, "verified").challenges
    BY <2>2 DEF saveResult, setReceipt
  <2>4. \A d \in ChallengeId : state(db', d) = state(ended(db, c, "verified"), d)
    BY <2>3 DEF state
  <2>5. OneRow(c, db')
    BY <2>1, <2>4, EndIsOneRow DEF Verdict
  <2>. QED BY <1>3, <2>5 DEF VerifyRight, guessesOf
<1>4. ASSUME NEW code \in Code, VerifyWrong(c, k, code)
      PROVE  /\ OneRow(c, db') /\ ~overdue(c)
             /\ \A d \in ChallengeId \ {c} : guessesOf(d)' = guessesOf(d)
  <2>. DEFINE s == counted(db, c)
  <2>1. /\ expired(c) = db /\ ~overdue(c) /\ db \in Database /\ Open(db.challenges[c])
        /\ LifeInv(db) /\ GuessInv(db, guesses)
    BY <1>2, <1>4 DEF VerifyWrong
  <2>2. /\ s \in Database /\ Open(s.challenges[c])
        /\ \A d \in ChallengeId \ {c} : s.challenges[d] = db.challenges[d]
    BY <2>1, CountedRows
  <2>3. \A d \in ChallengeId : state(s, d) = state(db, d)
    BY <2>1, <2>2 DEF state, Open
  <2>4. \A d \in ChallengeId \ {c} : guessesOf(d)' = guessesOf(d)
    BY <1>4 DEF VerifyWrong, countQuotas, guessesOf
  <2>5. CASE lastGuess(db, c)
    <3>1. db' = saveResult(terminate(s, c, "locked"), c, k, "locked", NoCode)
      BY <1>4, <2>1, <2>5 DEF VerifyWrong
    <3>. HIDE DEF s
    <3>2. terminate(s, c, "locked") = ended(s, c, "locked")
      BY <2>2, TerminateEnds DEF Verdict
    <3>3. \A d \in ChallengeId : state(db', d) = state(ended(s, c, "locked"), d)
      BY <3>1, <3>2 DEF saveResult, setReceipt, state
    <3>. QED BY <2>1, <2>2, <2>3, <2>4, <3>3, EndIsOneRow DEF Verdict
  <2>6. CASE ~lastGuess(db, c)
    <3>1. db' = saveResult(s, c, k, "incorrect", code)
      BY <1>4, <2>1, <2>6 DEF VerifyWrong
    <3>. HIDE DEF s
    <3>2. \A d \in ChallengeId : state(db', d) = state(db, d)
      BY <2>3, <3>1 DEF saveResult, setReceipt, state
    <3>. QED BY <2>1, <2>4, <3>2 DEF OneRow
  <2>. QED BY <2>5, <2>6
<1>. QED BY <1>1, <1>3, <1>4 DEF Verify, VerifyRight, guessesOf

LEMMA EndingIsOneRow ==
  ASSUME ChallengeInv, NEW c \in ChallengeId,
         Cancel(c) \/ Touch(c) \/ ExpireOperation(c) \/ Invalidate(c)
  PROVE  OneRow(c, db')
<1>1. db \in Database /\ LifeInv(db)
  BY DEF ChallengeInv, RowsInv
<1>2. CASE Touch(c)
  BY <1>2, ExpiredIsOneRow DEF Touch
<1>3. CASE Cancel(c)
  <2>1. expired(c) = db /\ Open(db.challenges[c])
    BY <1>1, <1>3, OpenIsInTime DEF Cancel, LifeInv, LifeOK, Open, active
  <2>2. db' = ended(db, c, "cancelled")
    BY <1>1, <1>3, <2>1, TerminateEnds DEF Cancel, Verdict
  <2>. QED BY <1>1, <2>1, <2>2, EndIsOneRow DEF Verdict
<1>4. CASE ExpireOperation(c)
  <2>1. Open(db.challenges[c])
    BY <1>1, <1>4 DEF ExpireOperation, LifeInv, LifeOK, Open
  <2>2. db' = ended(db, c, "expired")
    BY <1>1, <1>4, <2>1, CloseEnds DEF ExpireOperation
  <2>. QED BY <1>1, <2>1, <2>2, EndIsOneRow DEF Verdict
<1>5. CASE Invalidate(c)
  <2>1. Open(db.challenges[c])
    BY <1>1, <1>5 DEF Invalidate, LifeInv, LifeOK, Open
  <2>2. db' = ended(db, c, "cancelled")
    BY <1>1, <1>5, <2>1, CloseEnds DEF Invalidate
  <2>. QED BY <1>1, <2>1, <2>2, EndIsOneRow DEF Verdict
<1>. QED BY <1>2, <1>3, <1>4, <1>5

\* What DeadlineIsStrict asks of one step and one challenge.
Strict(d) ==
  /\ newlyVerified(d) \/ guessesOf(d)' # guessesOf(d) => ~overdue(d)
  /\ state(db, d) \in Verdict => state(db', d) \in {state(db, d), "deleted"}

LEMMA StepIsStrict ==
  ASSUME ChallengeInv, [Next]_vars, NEW d \in ChallengeId
  PROVE  Strict(d)
<1>1. ASSUME NEW c \in ChallengeId, OneRow(c, db'), guesses' = guesses
      PROVE  Strict(d)
  BY <1>1 DEF OneRow, Strict, newlyVerified, guessesOf, state, Verdict
<1>2. CASE db' = db /\ guesses' = guesses
  BY <1>2 DEF Strict, newlyVerified, guessesOf
<1>3. ASSUME NEW c \in ChallengeId, NEW k \in Key, Verify(c, k)
      PROVE  Strict(d)
  <2>1. /\ OneRow(c, db')
        /\ guesses' # guesses => ~overdue(c)
        /\ d # c => guessesOf(d)' = guessesOf(d)
    BY <1>3, VerifyIsOneRow
  <2>2. guessesOf(d)' # guessesOf(d) => guesses' # guesses
    BY DEF guessesOf
  <2>. QED BY <2>1, <2>2 DEF OneRow, Strict, newlyVerified, state
<1>4. ASSUME NEW c \in ChallengeId,
             Cancel(c) \/ Touch(c) \/ ExpireOperation(c) \/ Invalidate(c)
      PROVE  Strict(d)
  <2>1. guesses' = guesses
    BY <1>4 DEF Cancel, Touch, ExpireOperation, Invalidate
  <2>. QED BY <1>1, <1>4, <2>1, EndingIsOneRow
<1>5. ASSUME NEW c \in ChallengeId, Create(c)
      PROVE  Strict(d)
  <2>1. /\ db \in Database /\ state(db, c) = "absent" /\ guesses' = guesses
        /\ db'.challenges = [db.challenges EXCEPT ![c] =
             [verification_state |-> "active", operation |-> "active", verifier |-> TRUE,
              incorrect_guesses |-> 0, expires_at |-> clock + Lifetime]]
    BY <1>5 DEF Create, setRow, ChallengeInv, RowsInv, state
  <2>2. OneRow(c, db')
    BY <2>1 DEF OneRow, state, Database, Verdict
  <2>. QED BY <1>1, <2>1, <2>2
<1>6. ASSUME NEW c \in ChallengeId, NEW k \in Key, DeleteReceipt(c, k)
      PROVE  Strict(d)
  BY <1>6 DEF DeleteReceipt, setReceipt, Strict, newlyVerified, guessesOf, state
<1>7. ASSUME NEW c \in ChallengeId, DeleteHistory(c)
      PROVE  Strict(d)
  <2>1. /\ db \in Database /\ guesses' = guesses
        /\ db'.challenges = [db.challenges EXCEPT ![c] = noRow("deleted")]
    BY <1>7 DEF DeleteHistory, setRow, ChallengeInv, RowsInv
  <2>2. OneRow(c, db')
    BY <2>1 DEF OneRow, state, Database, noRow
  <2>. QED BY <1>1, <2>1, <2>2
<1>. QED BY <1>2, <1>3, <1>4, <1>5, <1>6, <1>7 DEF Next, vars, CleanQuotas, Tick

\* DeadlineIsStrict (store.ts, verify.ts): logical expiry precedes every comparison, so
\* no code is compared at or after the deadline, and a verdict stays what it is.
THEOREM DeadlinesAreStrict == Spec => DeadlineIsStrict
<1>1. ChallengeInv /\ [Next]_vars =>
        [\A c \in ChallengeId :
           /\ newlyVerified(c) \/ guessesOf(c)' # guessesOf(c) => ~overdue(c)
           /\ db.challenges[c].verification_state \in {"verified", "locked", "expired", "cancelled"}
                => db'.challenges[c].verification_state
                     \in {db.challenges[c].verification_state, "deleted"}]_vars
  BY StepIsStrict DEF Strict, state, Verdict
<1>. QED BY <1>1, InvariantHolds, PTL DEF Spec, DeadlineIsStrict
=============================================================================
