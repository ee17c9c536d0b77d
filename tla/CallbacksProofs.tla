--------------------------- MODULE CallbacksProofs ---------------------------
(***************************************************************************)
(* Theorems about Callbacks, for every number of attempts, identifiers,    *)
(* senders, revisions and reports.                                         *)
(*                                                                         *)
(* Tab relates the tables to what really happened: the messages the        *)
(* provider took and the reports it made.  Identifiers are not unique, so  *)
(* the heart of it is DueIsOwn: a report that reconciliation is about to   *)
(* merge belongs to the attempt its reference leads to, because a message  *)
(* with the same identifier has another sender, and the report was only    *)
(* authenticated for revisions with its own.  The other half is            *)
(* OwnMatches: a report of the attempt itself is never held back.          *)
(***************************************************************************)
EXTENDS Callbacks, TLAPS

-----------------------------------------------------------------------------
(***************************************************************************)
(* Merging reports is a set operation: order and repetition do not matter. *)
(***************************************************************************)
Reported == {"accepted", "delivered", "failed"}

\* Merging no report changes nothing.
LEMMA MergeNone ==
  ASSUME NEW r \in Row
  PROVE  mergeReports(r, {}) = r
<1>1. r = [state |-> r.state, acceptance |-> r.acceptance, revision |-> r.revision]
  BY DEF Row
<1>2. QED
  BY <1>1 DEF mergeReports, mergedState, Row

\* A row whose state and acceptance change.
LEMMA Updated ==
  ASSUME NEW r \in Row, NEW x \in AttemptState \cup {"unused", "deleted"}, NEW y \in Acceptance
  PROVE  /\ [r EXCEPT !.state = x, !.acceptance = y] \in Row
         /\ [r EXCEPT !.state = x, !.acceptance = y]
              = [state |-> x, acceptance |-> y, revision |-> r.revision]
<1> DEFINE q == [r EXCEPT !.state = x, !.acceptance = y]
<1>1. q \in Row /\ q.state = x /\ q.acceptance = y /\ q.revision = r.revision
  BY DEF Row
<1> HIDE DEF q
<1>2. q = [state |-> q.state, acceptance |-> q.acceptance, revision |-> q.revision]
  BY <1>1 DEF Row
<1>3. QED
  BY <1>1, <1>2 DEF q

LEMMA MergeForm ==
  ASSUME NEW r \in Row, NEW S \in SUBSET Reported
  PROVE  /\ mergeReports(r, S) \in Row
         /\ mergeReports(r, S)
              = [state |-> mergedState(r, S),
                 acceptance |-> IF mergedState(r, S) \in S THEN "accepted" ELSE r.acceptance,
                 revision |-> r.revision]
<1>1. mergedState(r, S) \in AttemptState \cup {"unused", "deleted"}
  BY DEF mergedState, Reported, Row, AttemptState
<1>2. (IF mergedState(r, S) \in S THEN "accepted" ELSE r.acceptance) \in Acceptance
  BY DEF Row, Acceptance
<1>3. QED
  BY <1>1, <1>2, Updated DEF mergeReports

\* What the merge of an outcome makes of an attempt.
LEMMA OutcomeForm ==
  ASSUME NEW r \in Row, NEW outcome \in Outcome
  PROVE  /\ mergeOutcome(r, outcome) \in Row
         /\ mergeOutcome(r, outcome)
              = [state |-> resultingState(r.state, outcome.state),
                 acceptance |-> IF resultingState(r.state, outcome.state) = outcome.state
                                THEN IF outcome.state = "delivered" \/ r.acceptance = "accepted"
                                     THEN "accepted" ELSE outcome.acceptance
                                ELSE r.acceptance,
                 revision |-> r.revision]
<1>1. resultingState(r.state, outcome.state) \in AttemptState \cup {"unused", "deleted"}
  BY DEF resultingState, Row, AttemptState, Outcome
<1>2. (IF applies(r, outcome) THEN mergedAcceptance(r, outcome) ELSE r.acceptance) \in Acceptance
  BY DEF mergedAcceptance, Row, Acceptance, Outcome
<1>3. mergeOutcome(r, outcome)
        = [state |-> resultingState(r.state, outcome.state),
           acceptance |-> IF applies(r, outcome) THEN mergedAcceptance(r, outcome)
                          ELSE r.acceptance,
           revision |-> r.revision]
      /\ mergeOutcome(r, outcome) \in Row
  BY <1>1, <1>2, Updated DEF mergeOutcome
<1>4. QED
  BY <1>3 DEF applies, mergedAcceptance

\* The reports of a reconciliation may be merged one by one, in any order: what is merged
\* in the end depends on the set of the reports alone (delivery/decision.ts).
THEOREM ReportsCommute ==
  ASSUME NEW r \in Row, NEW S \in SUBSET Reported, NEW status \in Reported
  PROVE  mergeReports(r, S \cup {status})
           = mergeOutcome(mergeReports(r, S), callbackOutcome(status))
<1> DEFINE u == mergedState(r, S)
           v == mergedState(r, S \cup {status})
           w == IF u \in S THEN "accepted" ELSE r.acceptance
<1>1. mergeReports(r, S) = [state |-> u, acceptance |-> w, revision |-> r.revision]
  BY MergeForm
<1>2. mergeReports(r, S \cup {status})
        = [state |-> v, acceptance |-> IF v \in S \cup {status} THEN "accepted" ELSE r.acceptance,
           revision |-> r.revision]
  BY MergeForm
<1>3. mergeOutcome(mergeReports(r, S), callbackOutcome(status))
        = [state |-> resultingState(u, status),
           acceptance |-> IF resultingState(u, status) = status THEN "accepted" ELSE w,
           revision |-> r.revision]
  <2>1. callbackOutcome(status) \in Outcome
    BY DEF callbackOutcome, Outcome, Reported, Acceptance
  <2>2. mergeReports(r, S) \in Row
    BY MergeForm
  <2>3. QED
    BY <1>1, <2>1, <2>2, OutcomeForm DEF callbackOutcome
<1>4. v = resultingState(u, status)
  BY DEF mergedState, resultingState, Reported
<1>5. (IF v \in S \cup {status} THEN "accepted" ELSE r.acceptance)
        = IF resultingState(u, status) = status THEN "accepted" ELSE w
  <2>1. CASE v = status
    BY <1>4, <2>1
  <2>2. CASE v # status
    <3>1. v = u
      BY <1>4, <2>2 DEF resultingState
    <3>2. QED
      BY <1>4, <2>2, <3>1
  <2>3. QED
    BY <2>1, <2>2
<1>6. QED
  BY <1>2, <1>3, <1>4, <1>5

-----------------------------------------------------------------------------
(***************************************************************************)
(* The invariant.                                                          *)
(***************************************************************************)
Tables == [row : [Attempt -> Row], correlations : [Reference -> Attempt \cup {NoAttempt}],
           inbox : SUBSET InboxRow, merged : SUBSET (Attempt \X Report), again : BOOLEAN]

deleted(s, a) == s.row[a].state = "deleted"

\* A call and its message, whatever the tables say.
Wire(a) ==
  /\ message[a].stage = "taken" => message[a].id \in Id
  /\ message[a].stage # "taken" => message[a].id = NoId /\ message[a].reported = {}
  /\ message[a].reported \subseteq ProviderStatus[environment.adapter]
  /\ call[a].outcome = "accepted" => message[a].stage = "taken"
  /\ call[a].outcome = "rejected" => message[a].stage \in {"none", "refused"}
  /\ call[a].step = "none" => call[a].outcome = "none" /\ call[a].event = "none"
  /\ call[a].event # "none" => environment.adapter = "custom" /\ call[a].event \in message[a].reported

\* Identifiers are unique in their scope only.
Distinct ==
  \A a, b \in Attempt :
    a # b /\ message[a].stage = "taken" /\ message[b].stage = "taken"
    /\ message[a].id = message[b].id => ~sameScope(a, b)

\* A message is sent for an attempt that is on its way, from the number of its revision.
SentOK(s, a) ==
  /\ s.row[a].state \in {"unused", "pending"} =>
       message[a].stage = "none" /\ call[a].step = "none" /\ s.row[a].acceptance = "null"
  /\ message[a].stage # "none" /\ ~deleted(s, a) =>
       message[a].sender = environment.sender[s.row[a].revision]
  /\ call[a].step \in {"waiting", "answered"} => ~deleted(s, a)

TruthOK(s, a) ==
  /\ s.row[a].acceptance = "not_accepted" => message[a].stage \in {"none", "refused"}
  /\ s.row[a].acceptance = "accepted" => message[a].stage = "taken"
  /\ s.row[a].state = "delivered" => \E status \in message[a].reported :
       normalizeStatus(environment.adapter, status) = "delivered"

\* A reference leads to an attempt that bears that name.
LeadsOK(s) ==
  /\ \A a \in Attempt : s.correlations[attemptReference(a)] \in {NoAttempt, a}
  /\ \A r \in Reference, a \in Attempt :
       s.correlations[r] = a => s.row[a].state \notin {"unused", "deleted"}
  /\ \A id \in Id, a \in Attempt : s.correlations[providerReference(id)] = a =>
       message[a].stage = "taken" /\ message[a].id = id

\* A report was made, and authenticated for revisions with the sender of its message,
\* its attempt's own among them.
SourceOK(s, report, revisions) ==
  /\ report \in reports
  /\ environment.adapter = "meta" =>
       revisions # {} /\ \A r \in revisions : environment.sender[r] = message[report.of].sender
  /\ revisions = {} \/ s.row[report.of].revision \in revisions \/ deleted(s, report.of)

EntryOK(s, e) ==
  LET a == e.report.of IN
  /\ SourceOK(s, e.report, e.revisions)
  /\ e.reference = correlationKey(e.report)
  /\ e.processed => <<a, e.report>> \in s.merged
  /\ e.processed => s.correlations[e.reference] = a \/ deleted(s, a)
  /\ <<a, e.report>> \in s.merged => e.processed \/ deleted(s, a)

InboxOK(s) ==
  /\ \A e \in s.inbox : EntryOK(s, e)
  /\ \A e, f \in s.inbox : e.report = f.report => e = f

MergedOK(s) ==
  /\ \A p \in s.merged :
       /\ p[2].of = p[1]
       /\ deleted(s, p[1]) \/ \E e \in s.inbox : e.report = p[2] /\ e.processed
  /\ ~s.again

Tab(s) ==
  /\ s \in Tables
  /\ \A a \in Attempt : SentOK(s, a) /\ TruthOK(s, a)
  /\ LeadsOK(s)
  /\ InboxOK(s)
  /\ MergedOK(s)

\* Outside the references R, what is known to be an attempt's has been merged.
Settled(s, R) ==
  \A e \in s.inbox :
    e.reference \notin R /\ s.correlations[e.reference] = e.report.of => e.processed

\* What the tables say of an attempt whose message was taken is only ever deleted.
Follows(s, t) ==
  \A a \in Attempt : message[a].stage = "taken" =>
    deleted(t, a) \/ (t.row[a].revision = s.row[a].revision /\ ~deleted(s, a))

World ==
  /\ environment \in Environment
  /\ message \in [Attempt -> Message]
  /\ call \in [Attempt -> Call]
  /\ configuration \in 0 .. MaxRevision
  /\ \A a \in Attempt : Wire(a)
  /\ Distinct

ReceivedOK(s) ==
  /\ received \in [events : SUBSET Report, revisions : SUBSET Revision]
  /\ \A e \in received.events : SourceOK(s, e, received.revisions)

CallbackInv ==
  /\ World
  /\ Tab(tables)
  /\ Settled(tables, {})
  /\ ReceivedOK(tables)

-----------------------------------------------------------------------------
(***************************************************************************)
(* Reconciliation.                                                         *)
(***************************************************************************)
LEMMA EnvironmentTyped ==
  ASSUME World
  PROVE  /\ environment.adapter \in Adapter
         /\ environment.sender \in [1 .. MaxRevision -> Sender]
BY CallbacksAssumption DEF World

LEMMA ReportTyped ==
  ASSUME World, NEW report \in reports
  PROVE  /\ report.of \in Attempt /\ message[report.of].stage = "taken"
         /\ message[report.of].id \in Id
         /\ report.status \in message[report.of].reported
         /\ report.status \in ProviderStatus[environment.adapter]
         /\ correlationKey(report) \in Reference
         /\ correlationKey(report) \in
              {attemptReference(report.of), providerReference(message[report.of].id)}
<1>1. /\ report \in Report /\ report.of \in Attempt
      /\ report.status \in message[report.of].reported
  BY DEF reports, Report
<1>2. Wire(report.of)
  BY <1>1 DEF World
<1>3. message[report.of].stage = "taken" /\ message[report.of].id \in Id
      /\ report.status \in ProviderStatus[environment.adapter]
  BY <1>1, <1>2 DEF Wire
<1>4. QED
  BY <1>1, <1>3 DEF correlationKey, Reference

\* What is merged is never another attempt's report.
LEMMA DueIsOwn ==
  ASSUME World, NEW s, Tab(s), NEW e \in s.inbox, due(s, e)
  PROVE  /\ s.correlations[e.reference] = e.report.of
         /\ e.report.of \in Attempt /\ ~e.processed
         /\ s.row[e.report.of].state \notin {"unused", "pending", "deleted"}
<1> DEFINE a == s.correlations[e.reference]
           b == e.report.of
<1>1. /\ EntryOK(s, e) /\ e \in InboxRow /\ s \in Tables
      /\ e.report \in reports /\ e.reference = correlationKey(e.report)
  BY DEF Tab, InboxOK, Tables, EntryOK, SourceOK
<1>2. /\ b \in Attempt /\ message[b].stage = "taken" /\ message[b].id \in Id
      /\ e.reference \in Reference
      /\ e.reference \in {attemptReference(b), providerReference(message[b].id)}
  BY <1>1, ReportTyped
<1>3. a # NoAttempt /\ ~e.processed /\ matches(e, s.row[a].revision)
  BY DEF due
<1>4. a \in Attempt
  BY <1>1, <1>2, <1>3 DEF Tables
<1>5. s.row[a].state \notin {"unused", "deleted"}
  BY <1>2, <1>4 DEF Tab, LeadsOK
<1>6. a = b
  <2>1. CASE e.reference = attemptReference(b)
    <3>1. s.correlations[attemptReference(b)] \in {NoAttempt, b}
      BY <1>2 DEF Tab, LeadsOK
    <3>2. QED
      BY <1>3, <2>1, <3>1
  <2>2. CASE e.reference = providerReference(message[b].id)
    <3>1. message[a].stage = "taken" /\ message[a].id = message[b].id
      BY <1>2, <1>4, <2>2 DEF Tab, LeadsOK
    <3>2. SUFFICES ASSUME a # b PROVE FALSE
      OBVIOUS
    <3>3. environment.adapter = "meta" /\ message[a].sender # message[b].sender
      BY <1>2, <1>4, <3>1, <3>2 DEF World, Distinct, sameScope
    <3>4. s.row[a].revision \in e.revisions
      BY <1>1, <1>3, <3>3 DEF EntryOK, SourceOK, matches
    <3>5. environment.sender[s.row[a].revision] = message[b].sender
      BY <1>1, <3>3, <3>4 DEF EntryOK, SourceOK
    <3>6. message[a].sender = environment.sender[s.row[a].revision]
      BY <1>4, <1>5, <3>1 DEF Tab, SentOK, deleted
    <3>7. QED
      BY <3>3, <3>5, <3>6
  <2>3. QED
    BY <1>2, <2>1, <2>2
<1>7. s.row[b].state # "pending"
  BY <1>2 DEF Tab, SentOK
<1>8. QED
  BY <1>2, <1>3, <1>5, <1>6, <1>7

\* An attempt's own report is not held back.
LEMMA OwnMatches ==
  ASSUME World, NEW s, Tab(s), NEW e \in s.inbox, ~e.processed,
         s.correlations[e.reference] = e.report.of
  PROVE  due(s, e)
<1>1. EntryOK(s, e) /\ e.report \in reports /\ e.reference = correlationKey(e.report)
  BY DEF Tab, InboxOK, EntryOK, SourceOK
<1>2. e.report.of \in Attempt /\ e.reference \in Reference
  BY <1>1, ReportTyped
<1>3. ~deleted(s, e.report.of)
  BY <1>2 DEF Tab, LeadsOK, deleted
<1>4. QED
  BY <1>1, <1>2, <1>3, CallbacksAssumption DEF due, matches, EntryOK, SourceOK

-----------------------------------------------------------------------------
(***************************************************************************)
(* Changes of the tables.                                                  *)
(***************************************************************************)
Live(s, a) == s.row[a].state \notin {"unused", "deleted"}

LEMMA FollowsTrans ==
  ASSUME NEW s, NEW t, NEW u, Follows(s, t), Follows(t, u)
  PROVE  Follows(s, u)
BY DEF Follows, deleted

LEMMA SourceFollows ==
  ASSUME World, NEW s, NEW t, Follows(s, t), NEW report, NEW revisions, SourceOK(s, report, revisions)
  PROVE  SourceOK(t, report, revisions)
<1>1. report.of \in Attempt /\ message[report.of].stage = "taken"
  BY ReportTyped DEF SourceOK
<1>2. QED
  BY <1>1 DEF SourceOK, Follows, deleted

\* The evidence about attempts that are on their way changes, and nothing else.
LEMMA RowStep ==
  ASSUME World, NEW s, Tab(s), NEW t \in Tables,
         t.correlations = s.correlations, t.inbox = s.inbox, t.merged = s.merged,
         t.again = s.again,
         \A a \in Attempt :
           \/ t.row[a] = s.row[a]
           \/ /\ Live(s, a) /\ Live(t, a) /\ t.row[a].state # "pending"
              /\ t.row[a].revision = s.row[a].revision
              /\ TruthOK(t, a)
  PROVE  /\ Tab(t) /\ Follows(s, t)
         /\ \A R : Settled(s, R) => Settled(t, R)
<1>1. \A a \in Attempt : SentOK(t, a) /\ TruthOK(t, a)
  <2> TAKE a \in Attempt
  <2>1. SentOK(s, a) /\ TruthOK(s, a)
    BY DEF Tab
  <2>2. QED
    BY <2>1 DEF SentOK, TruthOK, Live, deleted
<1>2. LeadsOK(t)
  BY DEF LeadsOK, Live, Tab
<1>3. Follows(s, t)
  <2> SUFFICES ASSUME NEW a \in Attempt, message[a].stage = "taken", ~deleted(t, a)
               PROVE  t.row[a].revision = s.row[a].revision /\ ~deleted(s, a)
    BY DEF Follows
  <2>1. QED
    BY DEF Live, deleted
<1>4. \A a \in Attempt : deleted(s, a) => deleted(t, a)
  BY DEF Live, deleted
<1>5. InboxOK(t)
  <2> SUFFICES ASSUME NEW e \in s.inbox PROVE EntryOK(t, e)
    BY DEF InboxOK, Tab
  <2>1. EntryOK(s, e)
    BY DEF InboxOK, Tab
  <2>2. e.report.of \in Attempt
    BY <2>1, ReportTyped DEF EntryOK, SourceOK
  <2>3. SourceOK(t, e.report, e.revisions)
    BY <1>3, <2>1, SourceFollows DEF EntryOK
  <2>4. QED
    BY <1>4, <2>1, <2>2, <2>3 DEF EntryOK
<1>6. MergedOK(t)
  <2> SUFFICES ASSUME NEW p \in s.merged
               PROVE  /\ p[2].of = p[1]
                      /\ deleted(t, p[1]) \/ \E e \in t.inbox : e.report = p[2] /\ e.processed
    BY DEF MergedOK, Tab
  <2>1. p[1] \in Attempt
    BY DEF Tab, Tables
  <2>2. QED
    BY <1>4, <2>1 DEF MergedOK, Tab
<1>7. QED
  BY <1>1, <1>2, <1>3, <1>5, <1>6 DEF Tab, Settled

\* The rows due for merging.
Now(s, R) == {entry \in s.inbox : entry.reference \in R /\ due(s, entry)}

LEMMA StatusReported ==
  ASSUME World, NEW report \in reports
  PROVE  /\ inboxStatus(report) \in Reported
         /\ inboxStatus(report) = "delivered" =>
              normalizeStatus(environment.adapter, report.status) = "delivered"
<1>1. /\ environment.adapter \in Adapter
      /\ report.status \in ProviderStatus[environment.adapter]
  BY EnvironmentTyped, ReportTyped
<1>2. normalizeStatus(environment.adapter, report.status)
        \in {"accepted", "delivered", "failed", "cancelled"}
  BY <1>1 DEF Adapter, ProviderStatus, normalizeStatus, normalizeMeta, normalizeTelegram
<1>3. QED
  BY <1>2 DEF inboxStatus, Reported

\* What a reconciliation makes of the tables s, in terms of the reports' own attempts.
Reconciles(s, R, t) ==
  /\ t \in Tables
  /\ t.correlations = s.correlations
  /\ t.inbox = (s.inbox \ Now(s, R)) \cup {[e EXCEPT !.processed = TRUE] : e \in Now(s, R)}
  /\ t.merged = s.merged \cup {<<e.report.of, e.report>> : e \in Now(s, R)}
  /\ t.again = (s.again \/ {<<e.report.of, e.report>> : e \in Now(s, R)} \cap s.merged # {})
  /\ \A a \in Attempt :
       t.row[a] = mergeReports(s.row[a],
         {inboxStatus(e.report) : e \in {f \in Now(s, R) : f.report.of = a}})

LEMMA ReconcileForm ==
  ASSUME World, NEW s, Tab(s), NEW R
  PROVE  Reconciles(s, R, reconcile(s, R))
<1> DEFINE pairs == {<<s.correlations[e.reference], e.report>> : e \in Now(s, R)}
           of(a) == {e \in Now(s, R) : s.correlations[e.reference] = a}
           rows == [a \in Attempt |-> mergeReports(s.row[a], {inboxStatus(e.report) : e \in of(a)})]
           merged1 == s.merged \cup pairs
           again1 == s.again \/ pairs \cap s.merged # {}
           inbox1 == (s.inbox \ Now(s, R)) \cup {[e EXCEPT !.processed = TRUE] : e \in Now(s, R)}
<1>1. s \in Tables
  BY DEF Tab
<1>2. reconcile(s, R) = [s EXCEPT !.row = rows, !.inbox = inbox1, !.merged = merged1, !.again = again1]
  BY DEF reconcile, Now
<1>3. \A e \in Now(s, R) :
        /\ e \in s.inbox /\ e \in InboxRow /\ e.report \in reports
        /\ s.correlations[e.reference] = e.report.of /\ e.report.of \in Attempt
  BY <1>1, DueIsOwn DEF Now, Tab, InboxOK, EntryOK, SourceOK, Tables
<1>4. rows \in [Attempt -> Row]
  <2> SUFFICES ASSUME NEW a \in Attempt
               PROVE  mergeReports(s.row[a], {inboxStatus(e.report) : e \in of(a)}) \in Row
    OBVIOUS
  <2>1. {inboxStatus(e.report) : e \in of(a)} \in SUBSET Reported
    BY <1>3, StatusReported
  <2>2. s.row[a] \in Row
    BY <1>1 DEF Tables
  <2>3. QED
    BY <2>1, <2>2, MergeForm
<1>5. inbox1 \in SUBSET InboxRow
  <2>1. \A e \in InboxRow : [e EXCEPT !.processed = TRUE] \in InboxRow
    BY DEF InboxRow
  <2>2. s.inbox \in SUBSET InboxRow
    BY <1>1 DEF Tables
  <2>3. QED
    BY <1>3, <2>1, <2>2
<1>6. merged1 \in SUBSET (Attempt \X Report)
  BY <1>1, <1>3 DEF Tables, reports
<1>7. again1 \in BOOLEAN
  OBVIOUS
<1> HIDE DEF rows, inbox1, merged1, again1
<1>8. /\ reconcile(s, R) \in Tables
      /\ reconcile(s, R).correlations = s.correlations
      /\ reconcile(s, R).inbox = inbox1
      /\ reconcile(s, R).merged = merged1
      /\ reconcile(s, R).again = again1
      /\ reconcile(s, R).row = rows
  BY <1>1, <1>2, <1>4, <1>5, <1>6, <1>7 DEF Tables
<1>9. pairs = {<<e.report.of, e.report>> : e \in Now(s, R)}
  BY <1>3
<1>10. \A a \in Attempt : of(a) = {f \in Now(s, R) : f.report.of = a}
  BY <1>3
<1>11. QED
  BY <1>8, <1>9, <1>10 DEF rows, inbox1, merged1, again1, Reconciles

\* A reconciliation merges every report that waits under the references, and each report
\* into its own attempt.
LEMMA Reconciled ==
  ASSUME World, NEW s, Tab(s), NEW R, Settled(s, R)
  PROVE  /\ Tab(reconcile(s, R)) /\ Follows(s, reconcile(s, R))
         /\ Settled(reconcile(s, R), {})
<1> DEFINE t == reconcile(s, R)
           now == Now(s, R)
           u == [s EXCEPT !.row = t.row]
           done(e) == [e EXCEPT !.processed = TRUE]
<1>1. /\ t \in Tables
      /\ t.correlations = s.correlations
      /\ t.inbox = (s.inbox \ now) \cup {done(e) : e \in now}
      /\ t.merged = s.merged \cup {<<e.report.of, e.report>> : e \in now}
      /\ t.again = (s.again \/ {<<e.report.of, e.report>> : e \in now} \cap s.merged # {})
      /\ \A a \in Attempt :
           t.row[a] = mergeReports(s.row[a],
             {inboxStatus(e.report) : e \in {f \in now : f.report.of = a}})
  <2>1. Reconciles(s, R, reconcile(s, R))
    BY ReconcileForm
  <2>2. QED
    BY <2>1 DEF Reconciles
<1>2. s \in Tables
  BY DEF Tab
<1>3. \A e \in now :
        /\ e \in s.inbox /\ e \in InboxRow /\ EntryOK(s, e)
        /\ s.correlations[e.reference] = e.report.of /\ e.report.of \in Attempt
        /\ ~e.processed /\ e.report \in reports
        /\ s.row[e.report.of].state \notin {"unused", "pending", "deleted"}
  BY <1>2, DueIsOwn DEF Now, Tab, InboxOK, EntryOK, SourceOK, Tables
<1> HIDE DEF t, now
<1>4. \A a \in Attempt :
        \/ t.row[a] = s.row[a]
        \/ /\ Live(s, a) /\ Live(t, a) /\ t.row[a].state # "pending"
           /\ t.row[a].revision = s.row[a].revision
           /\ TruthOK(t, a)
  <2> TAKE a \in Attempt
  <2> DEFINE S == {inboxStatus(e.report) : e \in {f \in now : f.report.of = a}}
  <2>1. S \subseteq Reported
    BY <1>3, StatusReported
  <2>2. t.row[a] = mergeReports(s.row[a], S) /\ s.row[a] \in Row
    BY <1>1, <1>2 DEF Tables
  <2> HIDE DEF S, u
  <2>3. /\ t.row[a].state = mergedState(s.row[a], S)
        /\ t.row[a].acceptance = IF mergedState(s.row[a], S) \in S THEN "accepted"
                                 ELSE s.row[a].acceptance
        /\ t.row[a].revision = s.row[a].revision
    BY <2>1, <2>2, MergeForm
  <2>4. CASE S = {}
    BY <2>2, <2>4, MergeNone
  <2>5. CASE S # {}
    <3>1. PICK e \in now : e.report.of = a
      BY <2>5 DEF S
    <3>2. message[a].stage = "taken" /\ s.row[a].state \notin {"unused", "pending", "deleted"}
      BY <1>3, <3>1, ReportTyped
    <3>3. t.row[a].state \notin {"unused", "pending", "deleted"}
      BY <2>1, <2>3, <3>2 DEF mergedState, Reported
    <3>4. TruthOK(s, a)
      BY DEF Tab
    <3>5. t.row[a].acceptance # "not_accepted"
      BY <2>3, <3>2, <3>4 DEF TruthOK
    <3>6. ASSUME t.row[a].state = "delivered"
          PROVE  \E status \in message[a].reported :
                   normalizeStatus(environment.adapter, status) = "delivered"
      <4>1. CASE s.row[a].state = "delivered"
        BY <3>4, <4>1 DEF TruthOK
      <4>2. CASE s.row[a].state # "delivered"
        <5>1. "delivered" \in S
          BY <2>3, <3>6, <4>2 DEF mergedState
        <5>2. PICK f \in now : f.report.of = a /\ inboxStatus(f.report) = "delivered"
          BY <5>1 DEF S
        <5>3. /\ normalizeStatus(environment.adapter, f.report.status) = "delivered"
              /\ f.report.status \in message[a].reported
          BY <1>3, <5>2, StatusReported, ReportTyped
        <5>4. QED
          BY <5>3
      <4>3. QED
        BY <4>1, <4>2
    <3>7. TruthOK(t, a)
      BY <3>2, <3>5, <3>6 DEF TruthOK
    <3>8. QED
      BY <2>3, <3>2, <3>3, <3>7 DEF Live
  <2>6. QED
    BY <2>4, <2>5
<1>5. /\ u \in Tables /\ u.row = t.row /\ u.correlations = s.correlations
      /\ u.inbox = s.inbox /\ u.merged = s.merged /\ u.again = s.again
  BY <1>1, <1>2 DEF Tables
<1> HIDE DEF u
<1>6. Tab(u) /\ Follows(s, u) /\ Settled(u, R)
  <2>1. \A a \in Attempt :
        \/ u.row[a] = s.row[a]
        \/ /\ Live(s, a) /\ Live(u, a) /\ u.row[a].state # "pending"
           /\ u.row[a].revision = s.row[a].revision
           /\ TruthOK(u, a)
    BY <1>4, <1>5 DEF Live, TruthOK
  <2>2. QED
    BY <1>5, <2>1, RowStep
<1>7. \A a \in Attempt : SentOK(t, a) /\ TruthOK(t, a)
  <2> TAKE a \in Attempt
  <2>1. SentOK(u, a) /\ TruthOK(u, a)
    BY <1>6 DEF Tab
  <2>2. QED
    BY <1>5, <2>1 DEF SentOK, TruthOK, deleted
<1>8. LeadsOK(t)
  BY <1>1, <1>5, <1>6 DEF Tab, LeadsOK
<1>9. Follows(s, t)
  BY <1>5, <1>6 DEF Follows, deleted
<1>10. \A a : deleted(t, a) <=> deleted(u, a)
  BY <1>5 DEF deleted
<1>11. InboxOK(u) /\ MergedOK(u)
  BY <1>6 DEF Tab
<1>12. \A e \in InboxRow : LET d == done(e) IN
         d.report = e.report /\ d.reference = e.reference /\ d.revisions = e.revisions /\ d.processed
  BY DEF InboxRow
<1> HIDE DEF done
<1>13. \A e, f \in s.inbox : e.report = f.report => e = f
  BY DEF Tab, InboxOK
<1>14. \A e \in t.inbox : \E f \in s.inbox :
          /\ e.report = f.report /\ e.reference = f.reference /\ e.revisions = f.revisions
          /\ \/ f \in now /\ e = done(f) /\ e.processed
             \/ f \notin now /\ e = f
  <2> TAKE e \in t.inbox
  <2>1. CASE e \in s.inbox \ now
    BY <2>1
  <2>2. CASE e \notin s.inbox \ now
    <3>1. PICK g \in now : e = done(g)
      BY <1>1, <2>2
    <3>2. QED
      BY <1>3, <1>12, <3>1
  <2>3. QED
    BY <2>1, <2>2
<1>15. ASSUME NEW e \in t.inbox PROVE EntryOK(t, e)
  <2>1. PICK f \in s.inbox :
          /\ e.report = f.report /\ e.reference = f.reference /\ e.revisions = f.revisions
          /\ \/ f \in now /\ e = done(f) /\ e.processed
             \/ f \notin now /\ e = f
    BY <1>14
  <2>2. EntryOK(u, f)
    BY <1>5, <1>11 DEF InboxOK
  <2>3. SourceOK(t, e.report, e.revisions)
    BY <1>5, <2>1, <2>2 DEF EntryOK, SourceOK, deleted
  <2>4. e.report.of \in Attempt
    BY <2>3, ReportTyped DEF SourceOK
  <2>5. CASE f \in now
    BY <1>1, <1>3, <2>1, <2>2, <2>3, <2>5 DEF EntryOK
  <2>6. CASE f \notin now
    <3>1. <<f.report.of, f.report>> \in t.merged => <<f.report.of, f.report>> \in s.merged
      BY <1>1, <1>3, <1>13, <2>6
    <3>2. QED
      BY <1>1, <1>5, <1>10, <2>1, <2>2, <2>3, <2>6, <3>1 DEF EntryOK
  <2>7. QED
    BY <2>5, <2>6
<1>16. ASSUME NEW e \in t.inbox, NEW f \in t.inbox, e.report = f.report PROVE e = f
  <2>1. PICK g \in s.inbox :
          /\ e.report = g.report
          /\ \/ g \in now /\ e = done(g)
             \/ g \notin now /\ e = g
    BY <1>14
  <2>2. PICK h \in s.inbox :
          /\ f.report = h.report
          /\ \/ h \in now /\ f = done(h)
             \/ h \notin now /\ f = h
    BY <1>14
  <2>3. g = h
    BY <1>13, <1>16, <2>1, <2>2
  <2>4. QED
    BY <2>1, <2>2, <2>3
<1>17. InboxOK(t)
  BY <1>15, <1>16 DEF InboxOK
<1>18. MergedOK(t)
  <2>1. ASSUME NEW p \in t.merged
        PROVE  /\ p[2].of = p[1]
               /\ deleted(t, p[1]) \/ \E e \in t.inbox : e.report = p[2] /\ e.processed
    <3>1. CASE p \in s.merged
      <4>1. /\ p[2].of = p[1]
            /\ deleted(u, p[1]) \/ \E e \in s.inbox : e.report = p[2] /\ e.processed
        BY <1>5, <1>11, <3>1 DEF MergedOK
      <4>2. \A e \in s.inbox : e.processed => e \in t.inbox
        BY <1>1, <1>3
      <4>3. QED
        BY <1>10, <4>1, <4>2
    <3>2. CASE p \notin s.merged
      <4>1. PICK e \in now : p = <<e.report.of, e.report>>
        BY <1>1, <2>1, <3>2
      <4>2. done(e) \in t.inbox
        BY <1>1, <4>1
      <4>3. QED
        BY <1>3, <1>12, <4>1, <4>2
    <3>3. QED
      BY <3>1, <3>2
  <2>2. \A e \in now : <<e.report.of, e.report>> \notin s.merged
    BY <1>3 DEF EntryOK, deleted
  <2>3. t.again = FALSE
    BY <1>1, <1>5, <1>11, <2>2 DEF MergedOK
  <2>4. QED
    BY <2>1, <2>3 DEF MergedOK
<1>19. Settled(t, {})
  <2> SUFFICES ASSUME NEW e \in t.inbox, t.correlations[e.reference] = e.report.of, ~e.processed
               PROVE  FALSE
    BY DEF Settled
  <2>1. e \in s.inbox /\ e \notin now
    BY <1>14
  <2>2. due(s, e)
    BY <1>1, <2>1, OwnMatches
  <2>3. QED
    BY <1>1, <2>1, <2>2 DEF Settled, Now, now
<1>20. QED
  BY <1>1, <1>7, <1>8, <1>9, <1>17, <1>18, <1>19 DEF Tab, t

-----------------------------------------------------------------------------
(***************************************************************************)
(* A batch of reports.                                                     *)
(***************************************************************************)
\* A report teaches the identifier of its own attempt, which is on its way.
LEMMA TaughtIsOwn ==
  ASSUME World, NEW s, Tab(s), NEW events, NEW revisions,
         \A e \in events : SourceOK(s, e, revisions),
         NEW e \in aliases(s, events, revisions)
  PROVE  /\ e \in events /\ e.of \in Attempt
         /\ message[e.of].stage = "taken" /\ message[e.of].id \in Id
         /\ providerRequestId(e) = message[e.of].id
         /\ Live(s, e.of)
<1>1. /\ e \in events /\ providerRequestId(e) # NoId
      /\ s.correlations[attemptReference(e.of)] # NoAttempt
  BY DEF aliases
<1>2. e.of \in Attempt /\ message[e.of].stage = "taken" /\ message[e.of].id \in Id
  BY <1>1, ReportTyped DEF SourceOK
<1>3. providerRequestId(e) = message[e.of].id
  BY <1>1 DEF providerRequestId
<1>4. Live(s, e.of)
  <2>1. s.correlations[attemptReference(e.of)] = e.of /\ attemptReference(e.of) \in Reference
    BY <1>1, <1>2 DEF Tab, LeadsOK, Reference
  <2>2. QED
    BY <1>2, <2>1 DEF Tab, LeadsOK, Live
<1>5. QED
  BY <1>1, <1>2, <1>3, <1>4

\* A batch is stored, its names are learnt, and what waits under them is merged.
LEMMA Ingested ==
  ASSUME World, NEW s, Tab(s), Settled(s, {}), NEW events, NEW revisions \in SUBSET Revision,
         \A e \in events : SourceOK(s, e, revisions), NEW kept \in storable(s, events)
  PROVE  LET t == ingestLockedEvents(s, events, kept, revisions)
         IN Tab(t) /\ Follows(s, t) /\ Settled(t, {})
<1> DEFINE taught == aliases(s, events, revisions)
           known  == {entry.report : entry \in s.inbox}
           row1(e) == [report |-> e, reference |-> correlationKey(e), revisions |-> revisions,
                       processed |-> FALSE]
           new    == {row1(e) : e \in kept}
           teaches(r) == \E e \in taught : providerReference(providerRequestId(e)) = r
           teacher(r) == CHOOSE e \in taught : providerReference(providerRequestId(e)) = r
           owner(r) == IF s.correlations[r] = NoAttempt /\ teaches(r) THEN teacher(r).of
                       ELSE s.correlations[r]
           leads == [r \in Reference |-> owner(r)]
           R == ingested(s, events, revisions)
           t == [s EXCEPT !.inbox = s.inbox \cup new, !.correlations = leads]
<1>0. kept \subseteq events /\ \A e \in kept : e \notin known
  BY DEF storable, sameKey
<1>1. ingestLockedEvents(s, events, kept, revisions) = reconcile(t, R)
  BY DEF ingestLockedEvents
<1>2. s \in Tables
  BY DEF Tab
<1>3. \A e \in taught :
        /\ e \in events /\ e.of \in Attempt
        /\ message[e.of].stage = "taken" /\ message[e.of].id \in Id
        /\ providerRequestId(e) = message[e.of].id
        /\ Live(s, e.of)
  BY TaughtIsOwn
<1>4. \A r \in Reference : teaches(r) =>
        /\ teacher(r) \in taught
        /\ r = providerReference(message[teacher(r).of].id)
  BY <1>3
<1>5. \A e \in events :
        /\ e \in Report /\ e \in reports /\ e.of \in Attempt /\ message[e.of].stage = "taken"
        /\ correlationKey(e) \in Reference
        /\ correlationKey(e) \in R
  BY ReportTyped DEF SourceOK, reports, ingested
<1>6. \A r \in Reference : teaches(r) => r \in R
  BY DEF ingested
<1> HIDE DEF teaches, teacher
<1>7. \A r \in Reference : owner(r) \in Attempt \cup {NoAttempt}
  BY <1>2, <1>3, <1>4 DEF Tables
<1>8. new \subseteq InboxRow
  <2>1. ASSUME NEW e \in events PROVE row1(e) \in InboxRow
    <3>1. e \in Report /\ correlationKey(e) \in Reference
      BY <1>5
    <3>2. QED
      BY <3>1 DEF InboxRow
  <2> HIDE DEF row1
  <2>2. QED
    BY <1>0, <2>1
<1> HIDE DEF taught, new, R
<1>9. /\ t \in Tables /\ t.row = s.row /\ t.merged = s.merged /\ t.again = s.again
      /\ t.inbox = s.inbox \cup new /\ t.correlations = leads
  BY <1>2, <1>7, <1>8 DEF Tables
<1> HIDE DEF t
<1>10. \A r \in Reference :
         \/ t.correlations[r] = s.correlations[r]
         \/ /\ s.correlations[r] = NoAttempt /\ r \in R
            /\ t.correlations[r] \in Attempt
            /\ r = providerReference(message[t.correlations[r]].id)
            /\ message[t.correlations[r]].stage = "taken"
            /\ message[t.correlations[r]].id \in Id
            /\ Live(s, t.correlations[r])
  BY <1>3, <1>4, <1>6, <1>9
<1>11. Follows(s, t)
  <2> SUFFICES ASSUME NEW a \in Attempt, message[a].stage = "taken"
               PROVE  deleted(t, a) \/ (t.row[a].revision = s.row[a].revision /\ ~deleted(s, a))
    BY DEF Follows
  <2>1. QED
    BY <1>9 DEF deleted
<1>12. \A a \in Attempt : SentOK(t, a) /\ TruthOK(t, a)
  BY <1>9 DEF Tab, SentOK, TruthOK, deleted
<1>13. LeadsOK(t)
  <2>1. \A a \in Attempt : attemptReference(a) \in Reference
                           /\ t.correlations[attemptReference(a)] = s.correlations[attemptReference(a)]
    BY <1>10 DEF Reference, attemptReference, providerReference
  <2>2. \A r \in Reference, a \in Attempt :
          t.correlations[r] = a => t.row[a].state \notin {"unused", "deleted"}
    BY <1>9, <1>10 DEF Tab, LeadsOK, Live
  <2>3. \A id \in Id, a \in Attempt : t.correlations[providerReference(id)] = a =>
          message[a].stage = "taken" /\ message[a].id = id
    BY <1>10 DEF Tab, LeadsOK, Reference, providerReference
  <2>4. QED
    BY <2>1, <2>2, <2>3 DEF Tab, LeadsOK
<1>14. InboxOK(s) /\ MergedOK(s)
  BY DEF Tab
<1>15. \A e \in new : /\ e.report \in events /\ e.report \notin known
                      /\ e.reference = correlationKey(e.report)
                      /\ e.revisions = revisions /\ ~e.processed
                      /\ e = row1(e.report)
  BY <1>0 DEF new
<1>16. ASSUME NEW e \in t.inbox PROVE EntryOK(t, e)
  <2>1. CASE e \in s.inbox
    <3>1. EntryOK(s, e) /\ e.reference \in Reference
      BY <1>2, <1>14, <2>1 DEF InboxOK, Tables, InboxRow
    <3>2. SourceOK(t, e.report, e.revisions)
      BY <1>11, <3>1, SourceFollows DEF EntryOK
    <3>3. e.report.of \in Attempt
      BY <3>2, ReportTyped DEF SourceOK
    <3>4. s.correlations[e.reference] = e.report.of => t.correlations[e.reference] = e.report.of
      BY <1>10, <3>1, <3>3, CallbacksAssumption
    <3>5. QED
      BY <1>9, <3>1, <3>2, <3>4 DEF EntryOK, deleted
  <2>2. CASE e \in new
    <3>1. SourceOK(s, e.report, revisions)
      BY <1>15, <2>2
    <3>2. SourceOK(t, e.report, e.revisions)
      BY <1>11, <1>15, <2>2, <3>1, SourceFollows
    <3>3. <<e.report.of, e.report>> \in t.merged => deleted(t, e.report.of)
      BY <1>9, <1>14, <1>15, <2>2 DEF MergedOK, deleted
    <3>4. QED
      BY <1>15, <2>2, <3>2, <3>3 DEF EntryOK
  <2>3. QED
    BY <1>9, <2>1, <2>2
<1>17. \A e, f \in t.inbox : e.report = f.report => e = f
  <2> SUFFICES ASSUME NEW e \in t.inbox, NEW f \in t.inbox, e.report = f.report PROVE e = f
    OBVIOUS
  <2>1. CASE e \in s.inbox /\ f \in s.inbox
    BY <1>14, <2>1 DEF InboxOK
  <2>2. CASE e \in new /\ f \in new
    BY <1>15, <2>2
  <2>3. CASE e \in s.inbox /\ f \in new
    BY <1>15, <2>3
  <2>4. CASE e \in new /\ f \in s.inbox
    BY <1>15, <2>4
  <2>5. QED
    BY <1>9, <2>1, <2>2, <2>3, <2>4
<1>18. InboxOK(t)
  BY <1>16, <1>17 DEF InboxOK
<1>19. MergedOK(t)
  BY <1>9, <1>14 DEF MergedOK, deleted
<1>20. Tab(t)
  BY <1>9, <1>12, <1>13, <1>18, <1>19 DEF Tab
<1>21. Settled(t, R)
  <2> SUFFICES ASSUME NEW e \in t.inbox, e.reference \notin R,
                      t.correlations[e.reference] = e.report.of
               PROVE  e.processed
    BY DEF Settled
  <2>1. e \in s.inbox
    BY <1>5, <1>9, <1>15
  <2>2. e.reference \in Reference
    BY <1>2, <2>1 DEF Tables, InboxRow
  <2>3. s.correlations[e.reference] = e.report.of
    BY <1>10, <2>2
  <2>4. QED
    BY <2>1, <2>3 DEF Settled
<1>22. Tab(reconcile(t, R)) /\ Follows(t, reconcile(t, R)) /\ Settled(reconcile(t, R), {})
  BY <1>20, <1>21, Reconciled
<1>23. QED
  BY <1>1, <1>11, <1>22, FollowsTrans DEF t, R, new, taught, teaches, teacher

\* The outcome of a call, recorded without its identifier.
LEMMA Recorded ==
  ASSUME World, NEW s, Tab(s), NEW a \in Attempt, Live(s, a), s.row[a].state # "pending",
         NEW outcome \in Outcome,
         outcome.acceptance = "not_accepted" => message[a].stage \in {"none", "refused"},
         outcome.acceptance = "accepted" => message[a].stage = "taken",
         outcome.state # "delivered"
  PROVE  LET t == [s EXCEPT !.row[a] = mergeOutcome(s.row[a], outcome)] IN
         /\ Tab(t) /\ Follows(s, t) /\ t.row[a].state \notin {"unused", "pending", "deleted"}
         /\ t.correlations = s.correlations
         /\ \A R : Settled(s, R) => Settled(t, R)
<1> DEFINE q == mergeOutcome(s.row[a], outcome)
           t == [s EXCEPT !.row[a] = q]
<1>1. s \in Tables /\ s.row[a] \in Row
  BY DEF Tab, Tables
<1>2. /\ q \in Row
      /\ q.state = resultingState(s.row[a].state, outcome.state)
      /\ q.acceptance \in {s.row[a].acceptance, "accepted", outcome.acceptance}
      /\ q.acceptance = "accepted" =>
           s.row[a].acceptance = "accepted" \/ outcome.acceptance = "accepted"
      /\ q.revision = s.row[a].revision
  BY <1>1, OutcomeForm
<1>3. q.state \notin {"unused", "pending", "deleted"}
  BY <1>2 DEF Live, resultingState, Outcome
<1>4. q.state = "delivered" => s.row[a].state = "delivered"
  BY <1>2 DEF resultingState
<1> HIDE DEF q
<1>5. /\ t \in Tables /\ t.correlations = s.correlations /\ t.inbox = s.inbox
      /\ t.merged = s.merged /\ t.again = s.again
      /\ t.row[a] = q /\ \A b \in Attempt \ {a} : t.row[b] = s.row[b]
  BY <1>1, <1>2 DEF Tables
<1> HIDE DEF t
<1>6. TruthOK(s, a)
  BY DEF Tab
<1>7. TruthOK(t, a)
  BY <1>2, <1>4, <1>5, <1>6 DEF TruthOK
<1>8. \A b \in Attempt :
        \/ t.row[b] = s.row[b]
        \/ /\ Live(s, b) /\ Live(t, b) /\ t.row[b].state # "pending"
           /\ t.row[b].revision = s.row[b].revision
           /\ TruthOK(t, b)
  BY <1>2, <1>3, <1>5, <1>7 DEF Live
<1>9. Tab(t) /\ Follows(s, t) /\ \A R : Settled(s, R) => Settled(t, R)
  BY <1>5, <1>8, RowStep
<1>10. QED
  BY <1>3, <1>5, <1>9 DEF t, q

\* The identifier of an attempt's own message is registered.
LEMMA Registered ==
  ASSUME World, NEW s, Tab(s), Settled(s, {}), NEW a \in Attempt, message[a].stage = "taken",
         Live(s, a)
  PROVE  LET reference == providerReference(message[a].id)
             t == registerCorrelation(s, reference, a)
         IN Tab(t) /\ Follows(s, t) /\ Settled(t, {reference})
<1> DEFINE reference == providerReference(message[a].id)
           t == registerCorrelation(s, reference, a)
<1>1. message[a].id \in Id /\ reference \in Reference
  BY DEF World, Wire, Reference
<1>2. s \in Tables
  BY DEF Tab
<1>3. /\ t \in Tables /\ t.row = s.row /\ t.inbox = s.inbox /\ t.merged = s.merged
      /\ t.again = s.again
      /\ \A r \in Reference : t.correlations[r] =
           IF r = reference /\ s.correlations[r] = NoAttempt THEN a ELSE s.correlations[r]
  BY <1>1, <1>2 DEF registerCorrelation, Tables
<1> HIDE DEF t
<1>4. \A x \in Attempt : deleted(t, x) <=> deleted(s, x)
  BY <1>3 DEF deleted
<1>5. Follows(s, t)
  BY <1>3, <1>4 DEF Follows
<1>6. \A x \in Attempt : SentOK(t, x) /\ TruthOK(t, x)
  BY <1>3 DEF Tab, SentOK, TruthOK, deleted
<1>7. LeadsOK(t)
  <2>1. \A x \in Attempt : attemptReference(x) \in Reference /\ attemptReference(x) # reference
    BY DEF Reference, attemptReference, providerReference
  <2>2. \A id \in Id : providerReference(id) \in Reference
                       /\ (providerReference(id) = reference => id = message[a].id)
    BY DEF Reference, providerReference
  <2>3. QED
    BY <1>3, <2>1, <2>2 DEF Tab, LeadsOK, Live
<1>8. InboxOK(t)
  <2> SUFFICES ASSUME NEW e \in s.inbox PROVE EntryOK(t, e)
    BY <1>3 DEF Tab, InboxOK
  <2>1. EntryOK(s, e) /\ e.reference \in Reference
    BY <1>2 DEF Tab, InboxOK, Tables, InboxRow
  <2>2. SourceOK(t, e.report, e.revisions)
    BY <1>5, <2>1, SourceFollows DEF EntryOK
  <2>3. e.report.of \in Attempt
    BY <2>2, ReportTyped DEF SourceOK
  <2>4. s.correlations[e.reference] = e.report.of => t.correlations[e.reference] = e.report.of
    BY <1>3, <2>1, <2>3, CallbacksAssumption
  <2>5. QED
    BY <1>3, <1>4, <2>1, <2>2, <2>3, <2>4 DEF EntryOK
<1>9. MergedOK(t)
  BY <1>3 DEF Tab, MergedOK, deleted
<1>10. Settled(t, {reference})
  BY <1>2, <1>3 DEF Settled, Tables, InboxRow
<1>11. QED
  BY <1>3, <1>5, <1>6, <1>7, <1>8, <1>9, <1>10 DEF Tab, t

\* The whole transaction that records an acceptance.
LEMMA AcceptanceRecorded ==
  ASSUME World, NEW s, Tab(s), Settled(s, {}), NEW a \in Attempt,
         call[a].step = "answered", call[a].outcome = "accepted",
         NEW events, \A e \in events : SourceOK(s, e, {})
  PROVE  LET reference == providerReference(message[a].id)
             q == [s EXCEPT !.row[a] = mergeOutcome(s.row[a], acceptedOutcome)]
             u == reconcile(registerCorrelation(q, reference, a), {reference})
         IN \A kept \in storable(u, events) :
              LET t == ingestLockedEvents(u, events, kept, {})
              IN Tab(t) /\ Follows(s, t) /\ Settled(t, {})
<1> DEFINE reference == providerReference(message[a].id)
           q == [s EXCEPT !.row[a] = mergeOutcome(s.row[a], acceptedOutcome)]
           r == registerCorrelation(q, reference, a)
           u == reconcile(r, {reference})
           t(kept) == ingestLockedEvents(u, events, kept, {})
<1>1. message[a].stage = "taken"
  BY DEF World, Wire
<1>2. s.row[a].state \notin {"unused", "pending", "deleted"} /\ Live(s, a)
  BY DEF Tab, SentOK, deleted, Live
<1>3. acceptedOutcome \in Outcome
  BY DEF acceptedOutcome, Outcome, Acceptance
<1>4. Tab(q) /\ Follows(s, q) /\ Settled(q, {}) /\ Live(q, a)
  BY <1>1, <1>2, <1>3, Recorded DEF acceptedOutcome, Live
<1> HIDE DEF q
<1>5. Tab(r) /\ Follows(q, r) /\ Settled(r, {reference})
  BY <1>1, <1>4, Registered
<1> HIDE DEF r
<1>6. Tab(u) /\ Follows(r, u) /\ Settled(u, {})
  BY <1>5, Reconciled
<1>7. Follows(s, u)
  BY <1>4, <1>5, <1>6, FollowsTrans
<1>8. \A e \in events : SourceOK(u, e, {})
  BY <1>7, SourceFollows
<1> HIDE DEF u
<1>9. \A kept \in storable(u, events) :
        Tab(t(kept)) /\ Follows(u, t(kept)) /\ Settled(t(kept), {})
  BY <1>6, <1>8, Ingested
<1>10. QED
  BY <1>7, <1>9, FollowsTrans DEF u, r, q

-----------------------------------------------------------------------------
(***************************************************************************)
(* Steps of the provider and of the worker's call.                         *)
(***************************************************************************)
\* What one step does to a message and to a call, given the tables s after it.
Moves(s, a) ==
  \/ message'[a] = message[a]
  \/ /\ message[a].stage = "none" /\ message'[a].stage = "offered"
     /\ message'[a].reported = message[a].reported
     /\ message'[a].sender = environment.sender[s.row[a].revision]
     /\ s.row[a].state = "dispatching" /\ s.row[a].acceptance = "null"
  \/ /\ message[a].stage = "offered" /\ message'[a].stage \in {"taken", "refused"}
     /\ message'[a].reported = message[a].reported
     /\ message'[a].sender = message[a].sender
  \/ /\ message[a].stage = "taken" /\ message'[a].stage = "taken"
     /\ message[a].reported \subseteq message'[a].reported
     /\ message'[a].sender = message[a].sender /\ message'[a].id = message[a].id

Calls(s, a) ==
  \/ call'[a] = call[a]
  \/ call'[a].step = "over" /\ s.row[a].state \notin {"unused", "pending"}
  \/ s.row[a].state \notin {"unused", "pending", "deleted"}

Moved(s) ==
  /\ environment' = environment
  /\ \A a \in Attempt : Moves(s, a) /\ Calls(s, a)

LEMMA SourceKept ==
  ASSUME World, World', NEW s, Moved(s), NEW report, NEW revisions, SourceOK(s, report, revisions)
  PROVE  SourceOK(s, report, revisions)'
<1>1. report \in Report /\ report.of \in Attempt /\ message[report.of].stage = "taken"
      /\ report.status \in message[report.of].reported
  BY ReportTyped DEF SourceOK, reports
<1>2. /\ message'[report.of].stage = "taken"
      /\ message'[report.of].sender = message[report.of].sender
      /\ message'[report.of].id = message[report.of].id
      /\ report.status \in message'[report.of].reported
  BY <1>1 DEF Moved, Moves
<1>3. report \in reports'
  BY <1>1, <1>2 DEF reports
<1>4. environment' = environment
  BY DEF Moved
<1>5. QED
  BY <1>2, <1>3, <1>4 DEF SourceOK, deleted

LEMMA Kept ==
  ASSUME World, World', NEW s, Tab(s), Moved(s), tables' = s
  PROVE  Tab(tables)'
<1>1. environment' = environment
  BY DEF Moved
<1>2. s \in Tables /\ s = tables'
  BY DEF Tab
<1>3. ASSUME NEW a \in Attempt PROVE SentOK(s, a)' /\ TruthOK(s, a)'
  <2>1. SentOK(s, a) /\ TruthOK(s, a) /\ Moves(s, a) /\ Calls(s, a)
    BY DEF Tab, Moved
  <2>2. SentOK(s, a)'
    BY <1>1, <2>1 DEF SentOK, Moves, Calls, deleted
  <2>3. TruthOK(s, a)'
    <3>1. s.row[a].acceptance = "not_accepted" => message'[a].stage \in {"none", "refused"}
      BY <2>1 DEF TruthOK, Moves
    <3>2. s.row[a].acceptance = "accepted" => message'[a].stage = "taken"
      BY <2>1 DEF TruthOK, Moves
    <3>3. message[a].reported \subseteq message'[a].reported
      BY <2>1 DEF Moves
    <3>4. QED
      BY <1>1, <2>1, <3>1, <3>2, <3>3 DEF TruthOK
  <2>4. QED
    BY <2>2, <2>3
<1>4. LeadsOK(s)'
  <2>1. \A a \in Attempt : message[a].stage = "taken" =>
          message'[a].stage = "taken" /\ message'[a].id = message[a].id
    BY DEF Moved, Moves
  <2>2. QED
    BY <2>1 DEF Tab, LeadsOK
<1>5. InboxOK(s)'
  <2>1. ASSUME NEW e \in s.inbox PROVE EntryOK(s, e)'
    <3>1. EntryOK(s, e)
      BY DEF Tab, InboxOK
    <3>2. SourceOK(s, e.report, e.revisions)'
      BY <3>1, SourceKept DEF EntryOK
    <3>3. e.report.of \in Attempt /\ message[e.report.of].stage = "taken"
      BY <3>1, ReportTyped DEF EntryOK, SourceOK
    <3>4. message'[e.report.of].id = message[e.report.of].id
      BY <3>3 DEF Moved, Moves
    <3>5. e.reference = correlationKey(e.report)'
      BY <1>1, <3>1, <3>4 DEF EntryOK, correlationKey, echoes
    <3>6. QED
      BY <3>1, <3>2, <3>5 DEF EntryOK, deleted
  <2>2. QED
    BY <2>1 DEF Tab, InboxOK
<1>6. MergedOK(s)'
  BY DEF Tab, MergedOK, deleted
<1>7. QED
  BY <1>2, <1>3, <1>4, <1>5, <1>6
     DEF Tab, SentOK, TruthOK, LeadsOK, InboxOK, EntryOK, SourceOK, MergedOK, deleted

\* A step that leaves the tables s behind it.
LEMMA Step ==
  ASSUME CallbackInv, World', NEW s, Tab(s), Follows(tables, s), Settled(s, {}), Moved(s),
         tables' = s, received' \in {received, noCallback}
  PROVE  CallbackInv'
<1>1. Tab(tables)'
  BY Kept DEF CallbackInv
<1>2. Settled(tables, {})'
  BY DEF Settled
<1>3. ReceivedOK(tables)'
  <2>1. CASE received' = noCallback
    BY <2>1 DEF ReceivedOK, noCallback
  <2>2. CASE received' = received
    <3>1. \A e \in received.events : SourceOK(s, e, received.revisions)
      BY SourceFollows DEF CallbackInv, ReceivedOK
    <3>2. ASSUME NEW e \in received.events, NEW revisions, revisions = received.revisions
          PROVE  SourceOK(s, e, revisions)'
      BY <3>1, <3>2, SourceKept DEF CallbackInv
    <3>3. environment' = environment
      BY DEF Moved
    <3>4. \A e \in received.events : SourceOK(tables, e, received.revisions)'
      BY <2>2, <3>2, <3>3 DEF SourceOK, deleted
    <3>5. QED
      BY <2>2, <3>4 DEF ReceivedOK, CallbackInv
  <2>3. QED
    BY <2>1, <2>2
<1>4. QED
  BY <1>1, <1>2, <1>3 DEF CallbackInv

\* What an adapter concludes from a reply is what happened to the message.
LEMMA ReplyIsProof ==
  ASSUME World, NEW a \in Attempt, NEW reply \in replies(a)
  PROVE  LET outcome == send(environment.adapter, reply) IN
         /\ outcome \in {"accepted", "rejected", "uncertain"}
         /\ outcome = "accepted" => message[a].stage = "taken"
         /\ outcome = "rejected" => message[a].stage = "refused"
<1>1. environment.adapter \in {"meta", "telegram", "play_mobile", "custom"}
  BY EnvironmentTyped DEF Adapter
<1>2. \/ reply.body = "other"
      \/ /\ reply.body = "error" /\ reply.status \in {400, 500}
         /\ reply.code \in indeterminate[environment.adapter]
      \/ /\ environment.adapter = "telegram" /\ reply.body = "error"
         /\ reply.status \in {408, 502}
      \/ message[a].stage = "taken" /\ reply.body = "accepted"
      \/ message[a].stage = "refused" /\ reply.body = "error"
  <2>1. ASSUME NEW S, NEW C, NEW x \in errors(S, C)
        PROVE  x.status \in S /\ x.code \in C /\ x.body = "error"
    BY DEF errors
  <2>2. \/ reply.body = "other"
        \/ reply \in errors({400, 500}, indeterminate[environment.adapter])
        \/ environment.adapter = "telegram" /\ reply \in errors({408, 502}, refusal.telegram)
        \/ message[a].stage = "taken" /\ reply.body = "accepted"
        \/ message[a].stage = "refused" /\ reply \in errors({400}, refusal[environment.adapter])
    <3> DEFINE T == IF environment.adapter = "telegram" THEN errors({408, 502}, refusal.telegram)
                    ELSE {}
               A == IF message[a].stage = "taken"
                    THEN {[status |-> 200, body |-> "accepted", code |-> "none"]} ELSE {}
               F == IF message[a].stage = "refused"
                    THEN errors({400}, refusal[environment.adapter]) ELSE {}
    <3>1. \/ reply \in {transportFailure, [status |-> 200, body |-> "other", code |-> "none"]}
          \/ reply \in errors({400, 500}, indeterminate[environment.adapter])
          \/ reply \in T \/ reply \in A \/ reply \in F
      BY DEF replies
    <3>2. reply \in T => environment.adapter = "telegram" /\ reply \in errors({408, 502}, refusal.telegram)
      OBVIOUS
    <3>3. reply \in A => message[a].stage = "taken" /\ reply.body = "accepted"
      OBVIOUS
    <3>4. reply \in F => message[a].stage = "refused" /\ reply \in errors({400}, refusal[environment.adapter])
      OBVIOUS
    <3>5. reply \in {transportFailure, [status |-> 200, body |-> "other", code |-> "none"]}
            => reply.body = "other"
      BY DEF transportFailure
    <3> HIDE DEF T, A, F
    <3>6. QED
      BY <3>1, <3>2, <3>3, <3>4, <3>5
  <2>3. QED
    BY <2>1, <2>2
<1>3. CASE environment.adapter = "meta"
  BY <1>2, <1>3 DEF indeterminate, send, sendMeta, mapMetaError, success
<1>4. CASE environment.adapter = "telegram"
  BY <1>2, <1>4 DEF indeterminate, send, sendTelegram, mapTelegramError, success, clientError
<1>5. CASE environment.adapter = "play_mobile"
  BY <1>2, <1>5 DEF indeterminate, send, sendPlayMobile, mapErrorCode
<1>6. CASE environment.adapter = "custom"
  BY <1>2, <1>6 DEF indeterminate, send, sendCustom
<1>7. QED
  BY <1>1, <1>3, <1>4, <1>5, <1>6

-----------------------------------------------------------------------------
(***************************************************************************)
(* One lemma for each action.                                              *)
(***************************************************************************)
LEMMA TablesTyped ==
  ASSUME NEW s, Tab(s)
  PROVE  /\ s \in Tables
         /\ commit(s) => tables' = s
<1>1. s \in Tables
  BY DEF Tab
<1>2. s = [row |-> s.row, correlations |-> s.correlations, inbox |-> s.inbox,
           merged |-> s.merged, again |-> s.again]
  BY <1>1 DEF Tables
<1>3. QED
  BY <1>1, <1>2 DEF commit, tables

LEMMA TablesPrimed ==
  ASSUME NEW s \in Tables,
         s.row = row', s.correlations = correlations', s.inbox = inbox', s.merged = merged',
         s.again = again'
  PROVE  tables' = s
<1>1. s = [row |-> s.row, correlations |-> s.correlations, inbox |-> s.inbox,
           merged |-> s.merged, again |-> s.again]
  BY DEF Tables
<1>2. QED
  BY <1>1 DEF tables

\* The tables stay as they are.
LEMMA TablesStay ==
  ASSUME CallbackInv, World', Moved(tables),
         UNCHANGED <<row, correlations, inbox, merged, again>>, received' \in {received, noCallback}
  PROVE  CallbackInv'
<1>1. Tab(tables) /\ Settled(tables, {}) /\ Follows(tables, tables)
  BY DEF CallbackInv, Follows
<1>2. tables' = tables
  BY DEF tables
<1> DEFINE s == tables
<1>3. Tab(s) /\ Settled(s, {}) /\ Follows(tables, s) /\ Moved(s) /\ tables' = s
  BY <1>1, <1>2
<1>4. QED
  BY <1>3, Step

LEMMA TakeStep ==
  ASSUME CallbackInv, NEW a \in Attempt, Take(a)
  PROVE  CallbackInv'
<1>1. PICK id \in Id :
        /\ message[a].stage = "offered"
        /\ \A b \in Attempt : message[b].id = id => ~sameScope(a, b)
        /\ message' = [message EXCEPT ![a].stage = "taken", ![a].id = id]
  BY DEF Take
<1>2. UNCHANGED <<environment, call, row, configuration, correlations, inbox, received,
                  merged, again>>
  BY DEF Take
<1>3. World
  BY DEF CallbackInv
<1>4. message' \in [Attempt -> Message]
  BY <1>1, <1>3 DEF World, Message
<1>5. /\ message'[a].stage = "taken" /\ message'[a].id = id
      /\ message'[a].sender = message[a].sender /\ message'[a].reported = message[a].reported
      /\ \A b \in Attempt \ {a} : message'[b] = message[b]
  BY <1>1, <1>3 DEF World, Message
<1>6. \A b \in Attempt : Wire(b)'
  BY <1>1, <1>2, <1>3, <1>5 DEF World, Wire
<1>7. Distinct'
  <2> SUFFICES ASSUME NEW b \in Attempt, NEW c \in Attempt, b # c,
                      message'[b].stage = "taken", message'[c].stage = "taken",
                      message'[b].id = message'[c].id
               PROVE  ~(environment.adapter = "meta" => message'[b].sender = message'[c].sender)
    BY <1>2 DEF Distinct, sameScope
  <2>1. CASE b = a
    BY <1>1, <1>5, <2>1 DEF sameScope
  <2>2. CASE c = a
    BY <1>1, <1>5, <2>2 DEF sameScope
  <2>3. CASE b # a /\ c # a
    BY <1>3, <1>5, <2>3 DEF World, Distinct, sameScope
  <2>4. QED
    BY <2>1, <2>2, <2>3
<1>8. World'
  BY <1>2, <1>3, <1>4, <1>6, <1>7 DEF World
<1>9. Moved(tables)
  BY <1>1, <1>2, <1>5 DEF Moved, Moves, Calls
<1>10. QED
  BY <1>2, <1>8, <1>9, TablesStay

LEMMA RefuseStep ==
  ASSUME CallbackInv, NEW a \in Attempt, Refuse(a)
  PROVE  CallbackInv'
<1>1. World
  BY DEF CallbackInv
<1>2. message' \in [Attempt -> Message]
  BY <1>1 DEF Refuse, World, Message
<1>3. /\ message'[a].stage = "refused" /\ message'[a].id = message[a].id
      /\ message'[a].sender = message[a].sender /\ message'[a].reported = message[a].reported
      /\ \A b \in Attempt \ {a} : message'[b] = message[b]
  BY <1>1 DEF Refuse, World, Message
<1>4. \A b \in Attempt : Wire(b)'
  BY <1>1, <1>3 DEF Refuse, World, Wire
<1>5. Distinct'
  BY <1>1, <1>3 DEF Refuse, World, Distinct, sameScope
<1>6. World'
  BY <1>1, <1>2, <1>4, <1>5 DEF Refuse, World
<1>7. Moved(tables)
  BY <1>3 DEF Refuse, Moved, Moves, Calls
<1>8. QED
  BY <1>6, <1>7, TablesStay DEF Refuse

LEMMA EmitStep ==
  ASSUME CallbackInv, NEW a \in Attempt, Emit(a)
  PROVE  CallbackInv'
<1>1. World
  BY DEF CallbackInv
<1>2. PICK status \in Status \cap ProviderStatus[environment.adapter] :
        message' = [message EXCEPT ![a].reported = @ \cup {status}]
  BY DEF Emit
<1>3. message[a].stage = "taken"
      /\ UNCHANGED <<environment, call, row, configuration, correlations, inbox, received, merged, again>>
  BY DEF Emit
<1>4. message' \in [Attempt -> Message]
  BY <1>1, <1>2 DEF World, Message
<1>5. /\ message'[a].stage = "taken" /\ message'[a].id = message[a].id
      /\ message'[a].sender = message[a].sender
      /\ message'[a].reported = message[a].reported \cup {status}
      /\ \A b \in Attempt \ {a} : message'[b] = message[b]
  BY <1>1, <1>2, <1>3 DEF World, Message
<1>6. \A b \in Attempt : Wire(b)'
  BY <1>1, <1>2, <1>3, <1>5 DEF World, Wire
<1>7. Distinct'
  BY <1>1, <1>3, <1>5 DEF World, Distinct, sameScope
<1>8. World'
  BY <1>1, <1>3, <1>4, <1>6, <1>7 DEF World
<1>9. Moved(tables)
  BY <1>3, <1>5 DEF Moved, Moves, Calls
<1>10. QED
  BY <1>3, <1>8, <1>9, TablesStay

LEMMA AnswerStep ==
  ASSUME CallbackInv, NEW a \in Attempt, Answer(a)
  PROVE  CallbackInv'
<1>1. World /\ environment.adapter \in Adapter
  BY EnvironmentTyped DEF CallbackInv
<1>2. PICK reply \in replies(a), event \in Status \cup {"none"} :
        LET outcome == send(environment.adapter, reply)
        IN /\ event # "none" => /\ environment.adapter = "custom"
                                /\ outcome = "accepted"
                                /\ event \in ProviderStatus["custom"]
                                /\ Cardinality(reports) < MaxReports
           /\ call' = [call EXCEPT ![a] = [step |-> "answered", outcome |-> outcome,
                                           event |-> event]]
           /\ message' = IF event = "none" THEN message
                         ELSE [message EXCEPT ![a].reported = @ \cup {event}]
  BY DEF Answer
<1> DEFINE outcome == send(environment.adapter, reply)
<1>3. /\ call[a].step = "waiting"
      /\ UNCHANGED <<environment, row, configuration, correlations, inbox, received, merged, again>>
  BY DEF Answer
<1>4. /\ outcome \in {"accepted", "rejected", "uncertain"}
      /\ outcome = "accepted" => message[a].stage = "taken"
      /\ outcome = "rejected" => message[a].stage = "refused"
  BY <1>1, ReplyIsProof
<1> HIDE DEF outcome
<1>5. /\ call'[a].step = "answered" /\ call'[a].outcome = outcome /\ call'[a].event = event
      /\ \A b \in Attempt \ {a} : call'[b] = call[b]
      /\ call' \in [Attempt -> Call]
  BY <1>1, <1>2, <1>4 DEF World, Call, outcome
<1>6. /\ message' \in [Attempt -> Message]
      /\ \A b \in Attempt : /\ message'[b].stage = message[b].stage /\ message'[b].id = message[b].id
                            /\ message'[b].sender = message[b].sender
                            /\ message[b].reported \subseteq message'[b].reported
                            /\ message'[b].reported \subseteq message[b].reported
                                 \cup (IF b = a /\ event # "none" THEN {event} ELSE {})
                            /\ b # a \/ event = "none" => message'[b] = message[b]
      /\ event # "none" => event \in message'[a].reported
  <2>1. CASE event = "none"
    BY <1>1, <1>2, <2>1 DEF World
  <2>2. CASE event # "none"
    BY <1>1, <1>2, <2>2 DEF World, Message
  <2>3. QED
    BY <2>1, <2>2
<1>7. event # "none" => environment.adapter = "custom" /\ message[a].stage = "taken"
                        /\ event \in ProviderStatus[environment.adapter]
  BY <1>2, <1>4 DEF outcome
<1>8. ASSUME NEW b \in Attempt PROVE Wire(b)'
  <2>1. Wire(b)
    BY <1>1 DEF World
  <2>2. CASE b = a
    <3>1. message'[a].reported \subseteq ProviderStatus[environment.adapter]
      BY <1>6, <1>7, <2>1, <2>2 DEF Wire
    <3>2. message'[a].stage # "taken" => message'[a].reported = {}
      BY <1>6, <1>7, <2>1, <2>2 DEF Wire
    <3>3. QED
      BY <1>3, <1>4, <1>5, <1>6, <1>7, <2>1, <2>2, <3>1, <3>2 DEF Wire
  <2>3. CASE b # a
    BY <1>3, <1>5, <1>6, <2>1, <2>3 DEF Wire
  <2>4. QED
    BY <2>2, <2>3
<1>9. Distinct'
  BY <1>1, <1>3, <1>6 DEF World, Distinct, sameScope
<1>10. World'
  BY <1>1, <1>3, <1>5, <1>6, <1>8, <1>9 DEF World
<1>11. row[a].state \notin {"unused", "pending", "deleted"}
  BY <1>3 DEF CallbackInv, Tab, SentOK, tables, deleted
<1>12. Moved(tables)
  <2> SUFFICES ASSUME NEW b \in Attempt PROVE Moves(tables, b) /\ Calls(tables, b)
    BY <1>3 DEF Moved
  <2>1. Moves(tables, b)
    BY <1>6, <1>7 DEF Moves
  <2>2. Calls(tables, b)
    BY <1>5, <1>11 DEF Calls, tables
  <2>3. QED
    BY <2>1, <2>2
<1>13. QED
  BY <1>3, <1>10, <1>12, TablesStay

\* A call that is over leaves the world as it is otherwise.
LEMMA OverWorld ==
  ASSUME World, NEW a \in Attempt, over(a), UNCHANGED <<environment, message, configuration>>
  PROVE  /\ World'
         /\ call'[a].step = "over" /\ \A b \in Attempt \ {a} : call'[b] = call[b]
<1>1. /\ call' \in [Attempt -> Call]
      /\ call'[a].step = "over" /\ call'[a].outcome = "none" /\ call'[a].event = "none"
      /\ \A b \in Attempt \ {a} : call'[b] = call[b]
  BY DEF World, over, Call
<1>2. \A b \in Attempt : Wire(b)'
  BY <1>1 DEF World, Wire
<1>3. Distinct'
  BY DEF World, Distinct, sameScope
<1>4. QED
  BY <1>1, <1>2, <1>3 DEF World

LEMMA CrashStep ==
  ASSUME CallbackInv, NEW a \in Attempt, Crash(a)
  PROVE  CallbackInv'
<1>1. World' /\ call'[a].step = "over" /\ \A b \in Attempt \ {a} : call'[b] = call[b]
  BY OverWorld DEF CallbackInv, Crash
<1>2. row[a].state \notin {"unused", "pending", "deleted"}
  BY DEF CallbackInv, Tab, SentOK, tables, deleted, Crash
<1>3. Moved(tables)
  BY <1>1, <1>2 DEF Moved, Moves, Calls, Crash, tables
<1>4. QED
  BY <1>1, <1>3, TablesStay DEF Crash

LEMMA ConfigurationStep ==
  ASSUME CallbackInv, UpdateInstance \/ RetireInstance
  PROVE  CallbackInv'
<1>1. /\ UNCHANGED <<environment, message, call, row, correlations, inbox, received, merged, again>>
      /\ configuration' \in 0 .. MaxRevision
  BY CallbacksAssumption DEF UpdateInstance, RetireInstance, CallbackInv, World
<1>2. World'
  BY <1>1 DEF CallbackInv, World, Wire, Distinct, sameScope
<1>3. Moved(tables)
  BY <1>1 DEF Moved, Moves, Calls
<1>4. QED
  BY <1>1, <1>2, <1>3, TablesStay

LEMMA ScheduleStep ==
  ASSUME CallbackInv, NEW a \in Attempt, schedule(a)
  PROVE  CallbackInv'
<1> DEFINE s == [tables EXCEPT !.row = row', !.correlations = correlations']
<1>1. /\ row[a].state = "unused" /\ configuration # 0
      /\ row' = [row EXCEPT ![a] = [state |-> "pending", acceptance |-> "null",
                                    revision |-> configuration]]
      /\ correlations' = [correlations EXCEPT ![attemptReference(a)] = a]
      /\ UNCHANGED <<environment, message, call, configuration, inbox, received, merged, again>>
  BY DEF schedule
<1>2. World /\ Tab(tables) /\ Settled(tables, {}) /\ tables \in Tables
  BY DEF CallbackInv, Tab
<1>3. [state |-> "pending", acceptance |-> "null", revision |-> configuration] \in Row
  BY <1>1, <1>2, CallbacksAssumption DEF World, Row, AttemptState, Acceptance, Revision
<1>4. attemptReference(a) \in Reference
  BY DEF Reference
<1>5. /\ row \in [Attempt -> Row] /\ correlations \in [Reference -> Attempt \cup {NoAttempt}]
  BY <1>2 DEF Tables, tables
<1>6. /\ row' \in [Attempt -> Row] /\ correlations' \in [Reference -> Attempt \cup {NoAttempt}]
  BY <1>1, <1>3, <1>4, <1>5
<1>7. /\ s \in Tables /\ s.row = row' /\ s.correlations = correlations'
      /\ s.inbox = tables.inbox /\ s.merged = tables.merged /\ s.again = tables.again
  BY <1>2, <1>6 DEF Tables
<1> HIDE DEF s
<1>8. /\ s.row[a] = [state |-> "pending", acceptance |-> "null", revision |-> configuration]
      /\ \A b \in Attempt \ {a} : s.row[b] = tables.row[b]
      /\ s.correlations[attemptReference(a)] = a
      /\ \A r \in Reference \ {attemptReference(a)} : s.correlations[r] = tables.correlations[r]
  <2>1. /\ tables.row = row /\ tables.correlations = correlations
    BY DEF tables
  <2>2. /\ row'[a] = [state |-> "pending", acceptance |-> "null", revision |-> configuration]
        /\ \A b \in Attempt \ {a} : row'[b] = row[b]
    BY <1>1, <1>5
  <2>3. /\ correlations'[attemptReference(a)] = a
        /\ \A r \in Reference \ {attemptReference(a)} : correlations'[r] = correlations[r]
    BY <1>1, <1>4, <1>5
  <2>4. QED
    BY <1>7, <2>1, <2>2, <2>3
<1>9. tables' = s
  BY <1>1, <1>7, TablesPrimed DEF tables
<1>10. message[a].stage = "none" /\ call[a].step = "none" /\ tables.row[a].state = "unused"
       /\ tables.row[a].acceptance = "null"
  BY <1>1, <1>2 DEF Tab, SentOK, tables
<1>11. \A b \in Attempt : b # a => (deleted(s, b) <=> deleted(tables, b))
  BY <1>8 DEF deleted
<1>12. Follows(tables, s)
  <2> SUFFICES ASSUME NEW b \in Attempt, message[b].stage = "taken"
               PROVE  deleted(s, b) \/ (s.row[b].revision = tables.row[b].revision /\ ~deleted(tables, b))
    BY DEF Follows
  <2>1. b # a
    BY <1>10
  <2>2. QED
    BY <1>8, <2>1 DEF deleted
<1>13. \A b \in Attempt : SentOK(s, b) /\ TruthOK(s, b)
  <2> TAKE b \in Attempt
  <2>1. SentOK(tables, b) /\ TruthOK(tables, b)
    BY <1>2 DEF Tab
  <2>2. QED
    BY <1>8, <1>10, <2>1 DEF SentOK, TruthOK, deleted
<1>14. LeadsOK(s)
  <2>1. \A b \in Attempt : attemptReference(b) \in Reference /\ (attemptReference(b) = attemptReference(a) => b = a)
    BY DEF Reference, attemptReference
  <2>2. \A id \in Id : providerReference(id) \in Reference /\ providerReference(id) # attemptReference(a)
    BY DEF Reference, attemptReference, providerReference
  <2>3. QED
    BY <1>2, <1>8, <2>1, <2>2 DEF Tab, LeadsOK
<1>15. \A e \in s.inbox : e \in tables.inbox /\ EntryOK(tables, e) /\ e.reference \in Reference
                          /\ e.report.of \in Attempt /\ e.report.of # a
                          /\ e.reference # attemptReference(a)
  <2> TAKE e \in s.inbox
  <2>1. e \in tables.inbox /\ EntryOK(tables, e) /\ e.reference \in Reference
    BY <1>2, <1>7 DEF Tab, InboxOK, Tables, InboxRow
  <2>2. /\ e.report.of \in Attempt /\ message[e.report.of].stage = "taken"
        /\ e.reference \in {attemptReference(e.report.of), providerReference(message[e.report.of].id)}
    BY <1>2, <2>1, ReportTyped DEF EntryOK, SourceOK
  <2>3. QED
    BY <1>10, <2>1, <2>2 DEF attemptReference, providerReference
<1>16. InboxOK(s)
  <2> SUFFICES ASSUME NEW e \in s.inbox PROVE EntryOK(s, e)
    BY <1>2, <1>7 DEF Tab, InboxOK
  <2>1. SourceOK(s, e.report, e.revisions)
    BY <1>2, <1>12, <1>15, SourceFollows DEF EntryOK
  <2>2. QED
    BY <1>7, <1>8, <1>11, <1>15, <2>1 DEF EntryOK
<1>17. MergedOK(s)
  <2>1. \A p \in tables.merged : deleted(tables, p[1]) => p[1] \in Attempt /\ p[1] # a
    BY <1>2, <1>10 DEF Tables, deleted
  <2>2. QED
    BY <1>2, <1>7, <1>11, <2>1 DEF Tab, MergedOK
<1>18. Tab(s)
  BY <1>7, <1>13, <1>14, <1>16, <1>17 DEF Tab
<1>19. Settled(s, {})
  BY <1>2, <1>7, <1>8, <1>15 DEF Settled
<1>20. World'
  BY <1>1, <1>2 DEF World, Wire, Distinct, sameScope
<1>21. Moved(s)
  BY <1>1 DEF Moved, Moves, Calls
<1>22. QED
  BY <1>1, <1>9, <1>12, <1>18, <1>19, <1>20, <1>21, Step

\* A step that changes the evidence alone.
LEMMA RowsPrimed ==
  ASSUME CallbackInv, row' \in [Attempt -> Row], UNCHANGED <<correlations, inbox, merged, again>>
  PROVE  LET s == [tables EXCEPT !.row = row'] IN
         /\ s \in Tables /\ tables' = s /\ s.row = row' /\ s.correlations = tables.correlations
         /\ s.inbox = tables.inbox /\ s.merged = tables.merged /\ s.again = tables.again
<1> DEFINE s == [tables EXCEPT !.row = row']
<1>1. tables \in Tables
  BY DEF CallbackInv, Tab
<1>2. /\ s \in Tables /\ s.row = row' /\ s.correlations = tables.correlations
      /\ s.inbox = tables.inbox /\ s.merged = tables.merged /\ s.again = tables.again
  BY <1>1 DEF Tables
<1> HIDE DEF s
<1>3. tables' = s
  BY <1>2, TablesPrimed DEF tables
<1>4. QED
  BY <1>2, <1>3 DEF s

LEMMA DispatchStep ==
  ASSUME CallbackInv, NEW a \in Attempt, dispatch(a)
  PROVE  CallbackInv'
<1> DEFINE s == [tables EXCEPT !.row = row']
<1>1. World /\ Tab(tables) /\ Settled(tables, {}) /\ tables \in Tables
  BY DEF CallbackInv, Tab
<1>2. /\ row[a].state = "pending"
      /\ row' = [row EXCEPT ![a].state = "dispatching"]
      /\ UNCHANGED <<environment, configuration, correlations, inbox, received, merged, again>>
      /\ \/ /\ message' = [message EXCEPT ![a].stage = "offered",
                             ![a].sender = environment.sender[row[a].revision]]
            /\ call' = [call EXCEPT ![a].step = "waiting"]
         \/ /\ call' = [call EXCEPT ![a].step = "answered", ![a].outcome = "rejected"]
            /\ UNCHANGED message
  BY DEF dispatch
<1>3. row \in [Attempt -> Row] /\ tables.row = row
  BY <1>1 DEF Tables, tables
<1>4. /\ row' \in [Attempt -> Row] /\ row'[a].state = "dispatching"
      /\ row'[a].acceptance = row[a].acceptance /\ row'[a].revision = row[a].revision
      /\ \A b \in Attempt \ {a} : row'[b] = row[b]
  BY <1>2, <1>3 DEF Row, AttemptState
<1>5. /\ s \in Tables /\ tables' = s /\ s.row = row' /\ s.correlations = tables.correlations
      /\ s.inbox = tables.inbox /\ s.merged = tables.merged /\ s.again = tables.again
  BY <1>2, <1>4, RowsPrimed
<1> HIDE DEF s
<1>6. message[a].stage = "none" /\ call[a].step = "none" /\ row[a].acceptance = "null"
  BY <1>1, <1>2, <1>3 DEF Tab, SentOK
<1>7. \A b \in Attempt :
        \/ s.row[b] = tables.row[b]
        \/ /\ Live(tables, b) /\ Live(s, b) /\ s.row[b].state # "pending"
           /\ s.row[b].revision = tables.row[b].revision
           /\ TruthOK(s, b)
  BY <1>2, <1>3, <1>4, <1>5, <1>6 DEF Live, TruthOK
<1>8. Tab(s) /\ Follows(tables, s) /\ Settled(s, {})
  BY <1>1, <1>5, <1>7, RowStep
<1>9. /\ call' \in [Attempt -> Call] /\ \A b \in Attempt \ {a} : call'[b] = call[b]
      /\ call'[a].step # "none" /\ call'[a].event = "none" /\ call'[a].outcome # "accepted"
      /\ call'[a].outcome = "rejected" => message' = message
  <2>1. call[a].outcome = "none" /\ call[a].event = "none" /\ call \in [Attempt -> Call]
    BY <1>1, <1>6 DEF World, Wire
  <2>2. QED
    BY <1>2, <2>1 DEF Call
<1>10. /\ message' \in [Attempt -> Message] /\ \A b \in Attempt \ {a} : message'[b] = message[b]
       /\ message'[a].id = message[a].id /\ message'[a].reported = message[a].reported
       /\ \/ message'[a] = message[a]
          \/ message'[a].stage = "offered" /\ message'[a].sender = environment.sender[row[a].revision]
  <2>1. environment.sender[row[a].revision] \in Sender
    BY <1>1, <1>3, EnvironmentTyped DEF Row, Revision
  <2>2. QED
    BY <1>1, <1>2, <2>1 DEF World, Message
<1>11. \A b \in Attempt : Wire(b)'
  <2> TAKE b \in Attempt
  <2>1. Wire(b)
    BY <1>1 DEF World
  <2>2. QED
    BY <1>2, <1>6, <1>9, <1>10, <2>1 DEF Wire
<1>12. Distinct'
  BY <1>1, <1>2, <1>6, <1>10 DEF World, Distinct, sameScope
<1>13. World'
  BY <1>1, <1>2, <1>9, <1>10, <1>11, <1>12 DEF World
<1>14. Moved(s)
  <2> SUFFICES ASSUME NEW b \in Attempt PROVE Moves(s, b) /\ Calls(s, b)
    BY <1>2 DEF Moved
  <2>1. CASE b = a
    BY <1>4, <1>5, <1>6, <1>10, <2>1 DEF Moves, Calls
  <2>2. CASE b # a
    BY <1>9, <1>10, <2>2 DEF Moves, Calls
  <2>3. QED
    BY <2>1, <2>2
<1>15. QED
  BY <1>2, <1>5, <1>8, <1>13, <1>14, Step

\* The outcome of a call is recorded, or a call that is over is given up.
LEMMA OutcomeStep ==
  ASSUME CallbackInv, World', NEW a \in Attempt, NEW outcome \in Outcome,
         row[a].state \notin {"unused", "pending", "deleted"},
         outcome.acceptance = "not_accepted" => message[a].stage \in {"none", "refused"},
         outcome.acceptance # "accepted", outcome.state # "delivered",
         row' = [row EXCEPT ![a] = mergeOutcome(row[a], outcome)],
         UNCHANGED <<environment, message, correlations, inbox, received, merged, again>>,
         call' = call \/ (call'[a].step = "over" /\ \A b \in Attempt \ {a} : call'[b] = call[b])
  PROVE  CallbackInv'
<1> DEFINE s == [tables EXCEPT !.row = row']
           t == [tables EXCEPT !.row[a] = mergeOutcome(tables.row[a], outcome)]
<1>1. World /\ Tab(tables) /\ Settled(tables, {}) /\ tables \in Tables
  BY DEF CallbackInv, Tab
<1>2. row \in [Attempt -> Row] /\ tables.row = row
  BY <1>1 DEF Tables, tables
<1>3. row' \in [Attempt -> Row]
  BY <1>2, OutcomeForm
<1>4. tables' = s /\ s.row = row'
  BY <1>3, RowsPrimed
<1>5. s = t
  BY <1>1, <1>2 DEF Tables
<1>6. Live(tables, a) /\ tables.row[a].state # "pending"
  BY <1>2 DEF Live
<1>7. /\ Tab(t) /\ Follows(tables, t) /\ t.row[a].state \notin {"unused", "pending", "deleted"}
      /\ Settled(t, {})
  BY <1>1, <1>6, Recorded
<1> HIDE DEF s, t
<1>8. Moved(s)
  BY <1>5, <1>7 DEF Moved, Moves, Calls
<1>9. QED
  BY <1>4, <1>5, <1>7, <1>8, Step

LEMMA RecordOutcomeStep ==
  ASSUME CallbackInv, NEW a \in Attempt, recordOutcome(a)
  PROVE  CallbackInv'
<1> DEFINE outcome == IF call[a].outcome = "rejected" THEN rejectedOutcome(FALSE) ELSE uncertainOutcome
<1>1. World /\ Tab(tables)
  BY DEF CallbackInv
<1>2. World' /\ call'[a].step = "over" /\ \A b \in Attempt \ {a} : call'[b] = call[b]
  BY <1>1, OverWorld DEF recordOutcome
<1>3. /\ outcome \in Outcome /\ outcome.state # "delivered" /\ outcome.acceptance # "accepted"
      /\ outcome.acceptance = "not_accepted" => call[a].outcome = "rejected"
  BY DEF rejectedOutcome, uncertainOutcome, Outcome, Acceptance
<1>4. call[a].outcome = "rejected" => message[a].stage \in {"none", "refused"}
  BY <1>1 DEF World, Wire
<1>5. row[a].state \notin {"unused", "pending", "deleted"}
  BY <1>1 DEF Tab, SentOK, tables, deleted, recordOutcome
<1>6. /\ row' = [row EXCEPT ![a] = mergeOutcome(row[a], outcome)]
      /\ UNCHANGED <<environment, message, correlations, inbox, received, merged, again>>
  BY DEF recordOutcome
<1> HIDE DEF outcome
<1>7. QED
  BY <1>2, <1>3, <1>4, <1>5, <1>6, OutcomeStep

LEMMA RecoverStep ==
  ASSUME CallbackInv, NEW a \in Attempt, recoverDispatches(a)
  PROVE  CallbackInv'
<1>1. World'
  BY DEF CallbackInv, World, Wire, Distinct, sameScope, recoverDispatches
<1>2. /\ uncertainOutcome \in Outcome /\ uncertainOutcome.state = "uncertain"
      /\ uncertainOutcome.acceptance = "unknown"
  BY DEF uncertainOutcome, Outcome, Acceptance
<1>3. QED
  BY <1>1, <1>2, OutcomeStep DEF recoverDispatches

LEMMA RecordAcceptedStep ==
  ASSUME CallbackInv, NEW a \in Attempt, recordAccepted(a)
  PROVE  CallbackInv'
<1> DEFINE reference == providerReference(message[a].id)
           events == IF call[a].event = "none" THEN {} ELSE {[of |-> a, status |-> call[a].event]}
           q == [tables EXCEPT !.row[a] = mergeOutcome(tables.row[a], acceptedOutcome)]
           u == reconcile(registerCorrelation(q, reference, a), {reference})
           t(kept) == ingestLockedEvents(u, events, kept, {})
<1>1. World /\ Tab(tables) /\ Settled(tables, {})
  BY DEF CallbackInv
<1>2. /\ call[a].step = "answered" /\ call[a].outcome = "accepted" /\ over(a)
      /\ UNCHANGED <<environment, message, configuration, received>>
      /\ commit(tables) \/ \E kept \in storable(u, events) : commit(t(kept))
  <2>1. tables.row = row
    BY DEF tables
  <2>2. QED
    BY <2>1 DEF recordAccepted
<1>3. World' /\ call'[a].step = "over" /\ \A b \in Attempt \ {a} : call'[b] = call[b]
  BY <1>1, <1>2, OverWorld
<1>4. \A e \in events : SourceOK(tables, e, {})
  <2> SUFFICES ASSUME call[a].event # "none"
               PROVE  SourceOK(tables, [of |-> a, status |-> call[a].event], {})
    OBVIOUS
  <2>1. /\ environment.adapter = "custom" /\ call[a].event \in message[a].reported
        /\ call[a].event \in Status
    BY <1>1 DEF World, Wire, Message
  <2>2. [of |-> a, status |-> call[a].event] \in reports
    BY <2>1 DEF reports, Report
  <2>3. QED
    BY <2>1, <2>2 DEF SourceOK
<1> HIDE DEF events
<1>5. \A kept \in storable(u, events) :
        Tab(t(kept)) /\ Follows(tables, t(kept)) /\ Settled(t(kept), {})
  BY <1>1, <1>2, <1>4, AcceptanceRecorded
<1> HIDE DEF t, u
<1>6. message[a].stage = "taken"
  BY <1>1, <1>2 DEF World, Wire
<1>7. ASSUME NEW s, Tab(s), Follows(tables, s), Settled(s, {}), commit(s) PROVE CallbackInv'
  <2>1. tables' = s
    BY <1>7, TablesTyped
  <2>2. s.row[a].state \notin {"unused", "pending"}
    BY <1>6, <1>7 DEF Tab, SentOK
  <2>3. Moved(s)
    BY <1>2, <1>3, <2>2 DEF Moved, Moves, Calls
  <2>4. QED
    BY <1>2, <1>3, <1>7, <2>1, <2>3, Step
<1>8. Follows(tables, tables)
  BY DEF Follows
<1>9. CASE commit(tables)
  <2> DEFINE s == tables
  <2>1. Tab(s) /\ Follows(tables, s) /\ Settled(s, {}) /\ commit(s)
    BY <1>1, <1>8, <1>9
  <2> HIDE DEF s
  <2>2. QED
    BY <1>7, <2>1
<1>10. CASE \E kept \in storable(u, events) : commit(t(kept))
  BY <1>5, <1>7, <1>10
<1>11. QED
  BY <1>2, <1>9, <1>10

LEMMA IngestStep ==
  ASSUME CallbackInv, ingestEvents
  PROVE  CallbackInv'
<1> DEFINE t(kept) == ingestLockedEvents(tables, received.events, kept, received.revisions)
<1>1. World /\ Tab(tables) /\ Settled(tables, {})
  BY DEF CallbackInv
<1>2. received' = noCallback /\ UNCHANGED <<environment, message, call, configuration>>
      /\ \/ commit(tables)
         \/ \E kept \in storable(tables, received.events) : commit(t(kept))
  BY DEF ingestEvents
<1>3. World'
  BY <1>1, <1>2 DEF World, Wire, Distinct, sameScope
<1>4. received.revisions \in SUBSET Revision
      /\ \A e \in received.events : SourceOK(tables, e, received.revisions)
  BY DEF CallbackInv, ReceivedOK
<1>5. \A kept \in storable(tables, received.events) :
        Tab(t(kept)) /\ Follows(tables, t(kept)) /\ Settled(t(kept), {})
  BY <1>1, <1>4, Ingested
<1> HIDE DEF t
<1>6. CASE commit(tables)
  <2>1. Moved(tables)
    BY <1>2 DEF Moved, Moves, Calls
  <2>2. UNCHANGED <<row, correlations, inbox, merged, again>>
    BY <1>6 DEF commit, tables
  <2>3. QED
    BY <1>2, <1>3, <2>1, <2>2, TablesStay
<1>7. ASSUME NEW kept \in storable(tables, received.events), commit(t(kept))
      PROVE  CallbackInv'
  <2>1. tables' = t(kept)
    BY <1>5, <1>7, TablesTyped
  <2>2. Moved(t(kept))
    BY <1>2 DEF Moved, Moves, Calls
  <2>3. QED
    BY <1>2, <1>3, <1>5, <2>1, <2>2, Step
<1>8. QED
  BY <1>2, <1>6, <1>7

\* The configuration a report is authenticated under is one with the sender of its message,
\* and the configuration of its own attempt is always among those tried.
LEMMA AuthenticateStep ==
  ASSUME CallbackInv, NEW events \in SUBSET reports, authenticate(events)
  PROVE  CallbackInv'
<1> DEFINE senders == {message[e.of].sender : e \in events}
           revisions == {r \in candidates :
                           authenticates(environment.adapter, environment.sender[r], senders)}
<1>1. World /\ Tab(tables) /\ Settled(tables, {}) /\ tables \in Tables /\ tables.row = row
      /\ tables.inbox = inbox
  BY DEF CallbackInv, Tab, tables
<1>2. /\ events # {} /\ revisions # {}
      /\ received' = [events |-> events, revisions |-> revisions]
      /\ UNCHANGED <<environment, message, call, row, configuration, correlations, inbox,
                     merged, again>>
  BY DEF authenticate
<1>3. World'
  BY <1>1, <1>2 DEF World, Wire, Distinct, sameScope
<1>4. candidates \subseteq Revision
  <2>1. row \in [Attempt -> Row] /\ inbox \in SUBSET InboxRow
    BY <1>1 DEF Tables
  <2>2. \A a \in Attempt : row[a].revision \in Revision
    BY <2>1 DEF Row
  <2>3. \A e \in inbox : e.revisions \subseteq Revision
    BY <2>1 DEF InboxRow
  <2>4. configuration # 0 => configuration \in Revision
    BY <1>1, CallbacksAssumption DEF World, Revision
  <2>5. QED
    BY <2>2, <2>3, <2>4 DEF candidates
<1>5. ASSUME NEW e \in events PROVE SourceOK(tables, e, revisions)
  <2>1. e \in reports /\ e.of \in Attempt /\ message[e.of].stage = "taken"
    BY <1>1, ReportTyped
  <2>2. environment.adapter = "meta" => \A r \in revisions :
          \A f \in events : message[f.of].sender = environment.sender[r]
    BY DEF authenticates, acceptsMeta
  <2>3. ASSUME ~deleted(tables, e.of) PROVE row[e.of].revision \in revisions
    <3>1. SentOK(tables, e.of)
      BY <1>1, <2>1 DEF Tab
    <3>2. row[e.of].state \notin {"unused", "deleted"}
          /\ message[e.of].sender = environment.sender[row[e.of].revision]
      BY <1>1, <2>1, <2>3, <3>1 DEF SentOK, deleted
    <3>3. row[e.of].revision \in candidates
      BY <2>1, <3>2 DEF candidates, existing
    <3>4. CASE environment.adapter = "meta"
      <4>1. senders \subseteq {environment.sender[row[e.of].revision]}
        BY <1>2, <2>2, <3>2, <3>4
      <4>2. QED
        BY <3>3, <3>4, <4>1 DEF authenticates, acceptsMeta
    <3>5. CASE environment.adapter # "meta"
      BY <3>3, <3>5 DEF authenticates, acceptsTelegram
    <3>6. QED
      BY <3>4, <3>5
  <2> HIDE DEF revisions
  <2>4. QED
    BY <1>1, <1>2, <2>1, <2>2, <2>3 DEF SourceOK
<1> HIDE DEF revisions
<1>6. revisions \subseteq Revision
  BY <1>4 DEF revisions
<1>7. tables' = tables
  BY <1>2 DEF tables
<1>8. Moved(tables)
  BY <1>2 DEF Moved, Moves, Calls
<1>9. events \subseteq Report
  BY DEF reports
<1>10. ReceivedOK(tables)'
  <2>1. reports' = reports
    BY <1>2 DEF reports
  <2>2. received'.events = events /\ received'.revisions = revisions
    BY <1>2
  <2>3. \A e \in received'.events : SourceOK(tables, e, received.revisions)'
    BY <1>2, <1>5, <1>7, <2>1, <2>2 DEF SourceOK, deleted
  <2>4. received' \in [events : SUBSET Report, revisions : SUBSET Revision]
    BY <1>2, <1>6, <1>9
  <2>5. QED
    BY <2>3, <2>4 DEF ReceivedOK
<1>11. Tab(tables)'
  <2> DEFINE s == tables
  <2>1. Tab(s) /\ Moved(s) /\ tables' = s
    BY <1>1, <1>7, <1>8
  <2> HIDE DEF s
  <2>2. QED
    BY <1>1, <1>3, <2>1, Kept
<1>12. Settled(tables, {})'
  BY <1>1, <1>7 DEF Settled
<1>13. QED
  BY <1>3, <1>10, <1>11, <1>12 DEF CallbackInv

LEMMA DeleteOperationStep ==
  ASSUME CallbackInv, NEW a \in Attempt, deleteOperation(a)
  PROVE  CallbackInv'
<1> DEFINE s == [tables EXCEPT !.row = row', !.correlations = correlations']
           gone == [state |-> "deleted", acceptance |-> "null", revision |-> 1]
<1>1. /\ row[a].state \notin {"unused", "deleted", "dispatching"}
      /\ row' = [row EXCEPT ![a] = gone]
      /\ correlations' = [r \in Reference |-> IF correlations[r] = a THEN NoAttempt ELSE correlations[r]]
      /\ UNCHANGED <<environment, message, call, configuration, inbox, received, merged, again>>
      /\ call[a].step \in {"none", "over"}
  BY DEF deleteOperation
<1>2. World /\ Tab(tables) /\ Settled(tables, {}) /\ tables \in Tables
  BY DEF CallbackInv, Tab
<1>3. gone \in Row
  BY CallbacksAssumption DEF Row, Acceptance, Revision
<1>4. /\ row \in [Attempt -> Row] /\ correlations \in [Reference -> Attempt \cup {NoAttempt}]
      /\ tables.row = row /\ tables.correlations = correlations
  BY <1>2 DEF Tables, tables
<1>5. /\ row' \in [Attempt -> Row] /\ correlations' \in [Reference -> Attempt \cup {NoAttempt}]
  BY <1>1, <1>3, <1>4
<1>6. /\ s \in Tables /\ s.row = row' /\ s.correlations = correlations'
      /\ s.inbox = tables.inbox /\ s.merged = tables.merged /\ s.again = tables.again
  BY <1>2, <1>5 DEF Tables
<1> HIDE DEF s
<1>7. tables' = s
  BY <1>1, <1>6, TablesPrimed DEF tables
<1>8. /\ s.row[a].state = "deleted" /\ s.row[a].acceptance = "null"
      /\ \A b \in Attempt \ {a} : s.row[b] = tables.row[b]
      /\ \A r \in Reference : s.correlations[r] = IF tables.correlations[r] = a THEN NoAttempt
                                                  ELSE tables.correlations[r]
  BY <1>1, <1>4, <1>6
<1>9. \A b \in Attempt : deleted(tables, b) => deleted(s, b)
  BY <1>8 DEF deleted
<1>10. Follows(tables, s)
  <2> SUFFICES ASSUME NEW b \in Attempt, message[b].stage = "taken"
               PROVE  deleted(s, b) \/ (s.row[b].revision = tables.row[b].revision /\ ~deleted(tables, b))
    BY DEF Follows
  <2>1. QED
    BY <1>8 DEF deleted
<1>11. \A b \in Attempt : SentOK(s, b) /\ TruthOK(s, b)
  <2> TAKE b \in Attempt
  <2>1. SentOK(tables, b) /\ TruthOK(tables, b)
    BY <1>2 DEF Tab
  <2>2. QED
    BY <1>1, <1>8, <2>1 DEF SentOK, TruthOK, deleted
<1>12. LeadsOK(s)
  <2>1. \A b \in Attempt : attemptReference(b) \in Reference
    BY DEF Reference
  <2>2. \A id \in Id : providerReference(id) \in Reference
    BY DEF Reference
  <2>3. QED
    BY <1>2, <1>8, <2>1, <2>2, CallbacksAssumption DEF Tab, LeadsOK
<1>13. InboxOK(s)
  <2> SUFFICES ASSUME NEW e \in tables.inbox PROVE EntryOK(s, e)
    BY <1>2, <1>6 DEF Tab, InboxOK
  <2>1. EntryOK(tables, e) /\ e.reference \in Reference
    BY <1>2 DEF Tab, InboxOK, Tables, InboxRow
  <2>2. SourceOK(s, e.report, e.revisions)
    BY <1>2, <1>10, <2>1, SourceFollows DEF EntryOK
  <2>3. e.report.of \in Attempt
    BY <1>2, <2>2, ReportTyped DEF SourceOK
  <2>4. s.correlations[e.reference] = tables.correlations[e.reference] \/ tables.correlations[e.reference] = a
    BY <1>8, <2>1
  <2>5. deleted(s, a)
    BY <1>8 DEF deleted
  <2>6. QED
    BY <1>6, <1>9, <2>1, <2>2, <2>3, <2>4, <2>5 DEF EntryOK
<1>14. MergedOK(s)
  <2>1. \A p \in tables.merged : p[1] \in Attempt
    BY <1>2 DEF Tables
  <2>2. QED
    BY <1>2, <1>6, <1>9, <2>1 DEF Tab, MergedOK
<1>15. Tab(s)
  BY <1>6, <1>11, <1>12, <1>13, <1>14 DEF Tab
<1>16. Settled(s, {})
  <2> SUFFICES ASSUME NEW e \in tables.inbox, s.correlations[e.reference] = e.report.of
               PROVE  e.processed
    BY <1>6 DEF Settled
  <2>1. EntryOK(tables, e) /\ e.reference \in Reference
    BY <1>2 DEF Tab, InboxOK, Tables, InboxRow
  <2>2. e.report.of \in Attempt
    BY <1>2, <2>1, ReportTyped DEF EntryOK, SourceOK
  <2>3. tables.correlations[e.reference] = e.report.of
    BY <1>8, <2>1, <2>2, CallbacksAssumption
  <2>4. QED
    BY <1>2, <2>3 DEF Settled
<1>17. World'
  BY <1>1, <1>2 DEF World, Wire, Distinct, sameScope
<1>18. Moved(s)
  BY <1>1 DEF Moved, Moves, Calls
<1>19. QED
  BY <1>1, <1>7, <1>10, <1>15, <1>16, <1>17, <1>18, Step

\* A report whose reference leads nowhere is forgotten; what it was merged into, if anything,
\* is gone.
LEMMA DeleteInboxStep ==
  ASSUME CallbackInv, deleteInbox
  PROVE  CallbackInv'
<1> DEFINE s == [tables EXCEPT !.inbox = inbox']
<1>1. PICK e \in inbox : obsolete(e) /\ inbox' = inbox \ {e}
  BY DEF deleteInbox
<1>2. UNCHANGED <<environment, message, call, row, configuration, correlations, received, merged, again>>
  BY DEF deleteInbox
<1>3. World /\ Tab(tables) /\ Settled(tables, {}) /\ tables \in Tables /\ tables.inbox = inbox
      /\ tables.correlations = correlations /\ tables.row = row
  BY DEF CallbackInv, Tab, tables
<1>4. /\ s \in Tables /\ s.row = tables.row /\ s.correlations = tables.correlations
      /\ s.inbox = inbox' /\ s.merged = tables.merged /\ s.again = tables.again
  BY <1>1, <1>3 DEF Tables
<1> HIDE DEF s
<1>5. tables' = s
  BY <1>2, <1>4, TablesPrimed DEF tables
<1>6. s.inbox \subseteq tables.inbox /\ \A f \in tables.inbox : f \in s.inbox \/ f = e
  BY <1>1, <1>3, <1>4
<1>7. \A b : deleted(s, b) <=> deleted(tables, b)
  BY <1>4 DEF deleted
<1>8. Follows(tables, s)
  BY <1>4, <1>7 DEF Follows, deleted
<1>9. InboxOK(s)
  BY <1>3, <1>4, <1>6, <1>7 DEF Tab, InboxOK, EntryOK, SourceOK
<1>10. MergedOK(s)
  <2> SUFFICES ASSUME NEW p \in tables.merged, ~deleted(tables, p[1])
               PROVE  p[2].of = p[1] /\ \E f \in s.inbox : f.report = p[2] /\ f.processed
    BY <1>3, <1>4, <1>7 DEF Tab, MergedOK
  <2>1. PICK f \in tables.inbox : f.report = p[2] /\ f.processed /\ p[2].of = p[1]
    BY <1>3 DEF Tab, MergedOK
  <2>2. EntryOK(tables, f)
    BY <1>3 DEF Tab, InboxOK
  <2>3. f.report.of \in Attempt
    BY <1>3, <2>2, ReportTyped DEF EntryOK, SourceOK
  <2>4. tables.correlations[f.reference] = f.report.of
    BY <2>1, <2>2 DEF EntryOK
  <2>5. f # e
    BY <1>1, <1>3, <2>3, <2>4, CallbacksAssumption DEF obsolete
  <2>6. QED
    BY <1>6, <2>1, <2>5
<1>11. Tab(s)
  BY <1>3, <1>4, <1>9, <1>10 DEF Tab, SentOK, TruthOK, LeadsOK, deleted
<1>12. Settled(s, {})
  BY <1>3, <1>4, <1>6 DEF Settled
<1>13. World'
  BY <1>2, <1>3 DEF World, Wire, Distinct, sameScope
<1>14. Moved(s)
  BY <1>2 DEF Moved, Moves, Calls
<1>15. QED
  BY <1>2, <1>5, <1>8, <1>11, <1>12, <1>13, <1>14, Step

-----------------------------------------------------------------------------
(***************************************************************************)
(* The theorems.                                                           *)
(***************************************************************************)
LEMMA InitCallbacks == Init => CallbackInv
<1> SUFFICES ASSUME Init PROVE CallbackInv
  OBVIOUS
<1>1. /\ environment \in Environment /\ environment.sender \in [1 .. MaxRevision -> Sender]
      /\ 1 \in 1 .. MaxRevision /\ environment.sender[1] \in Sender
  BY CallbacksAssumption DEF Init
<1>2. message \in [Attempt -> Message] /\ \A a \in Attempt :
        message[a].stage = "none" /\ message[a].id = NoId /\ message[a].reported = {}
  BY <1>1 DEF Init, Message
<1>3. call \in [Attempt -> Call] /\ \A a \in Attempt :
        call[a].step = "none" /\ call[a].outcome = "none" /\ call[a].event = "none"
  BY DEF Init, Call
<1>4. [state |-> "unused", acceptance |-> "null", revision |-> 1] \in Row
  BY <1>1 DEF Row, Acceptance, Revision
<1>5. row \in [Attempt -> Row] /\ \A a \in Attempt :
        row[a].state = "unused" /\ row[a].acceptance = "null"
  BY <1>4 DEF Init
<1>6. World
  <2>1. \A a \in Attempt : Wire(a)
    BY <1>2, <1>3 DEF Wire
  <2>2. Distinct
    BY <1>2 DEF Distinct
  <2>3. configuration \in 0 .. MaxRevision
    BY CallbacksAssumption DEF Init
  <2>4. QED
    BY <1>1, <1>2, <1>3, <2>1, <2>2, <2>3 DEF World
<1>7. tables \in Tables
  BY <1>5 DEF Init, Tables, tables
<1>8. /\ tables.row = row /\ tables.correlations = correlations /\ tables.inbox = {}
      /\ tables.merged = {} /\ tables.again = FALSE
  BY DEF tables, Init
<1>9. \A a \in Attempt : SentOK(tables, a) /\ TruthOK(tables, a)
  BY <1>2, <1>3, <1>5, <1>8 DEF SentOK, TruthOK, deleted
<1>10. LeadsOK(tables)
  BY <1>8, CallbacksAssumption DEF Init, LeadsOK, Reference
<1>11. InboxOK(tables) /\ MergedOK(tables) /\ Settled(tables, {})
  BY <1>8 DEF InboxOK, MergedOK, Settled
<1>12. ReceivedOK(tables)
  BY DEF Init, noCallback, ReceivedOK
<1>13. QED
  BY <1>6, <1>7, <1>9, <1>10, <1>11, <1>12 DEF CallbackInv, Tab

LEMMA NextCallbacks == CallbackInv /\ [Next]_vars => CallbackInv'
<1> SUFFICES ASSUME CallbackInv, [Next]_vars PROVE CallbackInv'
  OBVIOUS
<1>1. CASE UNCHANGED vars
  <2>1. UNCHANGED <<environment, message, call, row, configuration, correlations, inbox,
                    received, merged, again>>
    BY <1>1 DEF vars
  <2>2. World'
    BY <2>1 DEF CallbackInv, World, Wire, Distinct, sameScope
  <2>3. Moved(tables)
    BY <2>1 DEF Moved, Moves, Calls
  <2>4. QED
    BY <2>1, <2>2, <2>3, TablesStay
<1>2. ASSUME NEW a \in Attempt, schedule(a) PROVE CallbackInv'
  BY <1>2, ScheduleStep
<1>3. ASSUME NEW a \in Attempt, dispatch(a) PROVE CallbackInv'
  BY <1>3, DispatchStep
<1>4. ASSUME NEW a \in Attempt, Take(a) \/ Refuse(a) \/ Emit(a) \/ Answer(a) PROVE CallbackInv'
  BY <1>4, TakeStep, RefuseStep, EmitStep, AnswerStep
<1>5. ASSUME NEW a \in Attempt, recordAccepted(a) \/ recordOutcome(a) PROVE CallbackInv'
  BY <1>5, RecordAcceptedStep, RecordOutcomeStep
<1>6. ASSUME NEW a \in Attempt, Crash(a) \/ recoverDispatches(a) \/ deleteOperation(a)
      PROVE  CallbackInv'
  BY <1>6, CrashStep, RecoverStep, DeleteOperationStep
<1>7. ASSUME NEW events \in SUBSET reports, authenticate(events) PROVE CallbackInv'
  BY <1>7, AuthenticateStep
<1>8. CASE ingestEvents
  BY <1>8, IngestStep
<1>9. CASE UpdateInstance \/ RetireInstance
  BY <1>9, ConfigurationStep
<1>10. CASE deleteInbox
  BY <1>10, DeleteInboxStep
<1>11. QED
  BY <1>1, <1>2, <1>3, <1>4, <1>5, <1>6, <1>7, <1>8, <1>9, <1>10 DEF Next

LEMMA CallbackInvariant == Spec => []CallbackInv
<1>1. QED
  BY InitCallbacks, NextCallbacks, PTL DEF Spec

LEMMA TypesNow == CallbackInv => TypeOK
BY DEF CallbackInv, World, Tab, Tables, tables, ReceivedOK, TypeOK

LEMMA OwnNow == CallbackInv => OwnReportsOnly
BY DEF CallbackInv, Tab, MergedOK, tables, OwnReportsOnly

LEMMA CountedNow == CallbackInv => CountedOnce
<1> SUFFICES ASSUME CallbackInv PROVE CountedOnce
  OBVIOUS
<1>1. tables.inbox = inbox /\ tables.correlations = correlations /\ tables.merged = merged
      /\ tables.again = again
  BY DEF tables
<1>2. ASSUME NEW e \in inbox, correlations[e.reference] = e.report.of
      PROVE  <<e.report.of, e.report>> \in merged
  BY <1>1, <1>2 DEF CallbackInv, Tab, InboxOK, EntryOK, Settled
<1>3. QED
  BY <1>1, <1>2 DEF CallbackInv, Tab, MergedOK, CountedOnce, MergedOnce, NothingForgotten

LEMMA TruthNow == CallbackInv => EvidenceIsTrue
<1> SUFFICES ASSUME CallbackInv PROVE EvidenceIsTrue
  OBVIOUS
<1>1. tables.row = row
  BY DEF tables
<1>2. QED
  BY <1>1 DEF CallbackInv, Tab, TruthOK, EvidenceIsTrue

\* Every variable keeps its type (delivery/callbacks.ts, provider_correlations,
\* callback_inbox).
THEOREM TypesHold == Spec => []TypeOK
BY CallbackInvariant, TypesNow, PTL

\* A report is only ever merged into the attempt whose message it is about, although
\* identifiers are unique for one sender alone, replies get lost and reports teach
\* identifiers (delivery/callbacks.ts reconcile and matches).
THEOREM ReportsStayOwn == Spec => []OwnReportsOnly
BY CallbackInvariant, OwnNow, PTL

\* A stored report is merged once, and as soon as its reference leads to its attempt
\* (delivery/callbacks.ts ingestLockedEvents, callback_inbox.processed).
THEOREM ReportsCountOnce == Spec => []CountedOnce
BY CallbackInvariant, CountedNow, PTL

\* What the database says of a message is what happened to it (the adapters' send and
\* delivery/decision.ts).
THEOREM EvidenceHolds == Spec => []EvidenceIsTrue
BY CallbackInvariant, TruthNow, PTL
=============================================================================
