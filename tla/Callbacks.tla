------------------------------ MODULE Callbacks ------------------------------
(***************************************************************************)
(* Evidence from outside: what one provider instance is asked to send,     *)
(* what it answers, what it reports later, and how each piece of evidence  *)
(* finds the attempt it is about.  The transactions of delivery/callbacks  *)
(* hold the advisory lock of the provider instance and the locks of the    *)
(* operations concerned, so each is one action here; authentication of a   *)
(* callback is an earlier transaction of its own.                          *)
(*                                                                         *)
(* The provider is external.  It takes, refuses or loses a message, names  *)
(* it with an identifier of its own, answers the send or leaves it         *)
(* unanswered, and reports statuses in any order, more than once, and      *)
(* before its own answer has been recorded.                                *)
(***************************************************************************)
EXTENDS Adapters, Decision, FiniteSets

CONSTANTS Attempt,        \* the attempts of the instance, each of its own operation
          NoAttempt,
          Id,             \* the identifiers the provider gives
          NoId,
          Sender,         \* the sending numbers a revision may name
          Environment,    \* the instances explored: adapter, echo, senders, coincidence
          Observed,       \* the provider statuses explored
          CodeLength,     \* the lengths of code the policies ask for
          RemainingMs,    \* the time left to the deadline at the call
          MaxRevision,    \* bound on the configuration revisions
          MaxReports,     \* bound on the reports the provider makes
          MaxBatch        \* bound on the reports in one callback

ASSUME CallbacksAssumption ==
  /\ NoAttempt \notin Attempt
  /\ NoId \notin Id
  /\ Environment \subseteq [adapter : Adapter, echo : SUBSET Observed,
                           sender : [1 .. MaxRevision -> Sender], coincide : BOOLEAN]
  /\ MaxRevision \in Nat \ {0}

VARIABLES environment,    \* what does not change: adapter, statuses with echo, sender of each
                          \* revision, whether the reports of a status share a second
          message,        \* the provider's side of each attempt
          call,           \* the worker's call to the provider
          row,            \* delivery_attempts
          configuration,  \* the instance's current revision, 0 once retired
          correlations,   \* provider_correlations
          inbox,          \* callback_inbox
          received,       \* the callback between authentication and ingestion
          merged,         \* history: the reports merged into each attempt
          again           \* history: a report was merged twice

vars == <<environment, message, call, row, configuration, correlations, inbox,
          received, merged, again>>

Revision  == 1 .. MaxRevision
Status    == Observed \intersect UNION {ProviderStatus[adapter] : adapter \in Adapter}
Report    == [of : Attempt, status : Status]
attemptReference(a)   == <<"attempt", a>>
providerReference(id) == <<"provider", id>>
Reference == {attemptReference(a) : a \in Attempt} \union {providerReference(id) : id \in Id}
InboxRow  == [report : Report, reference : Reference, revisions : SUBSET Revision,
              processed : BOOLEAN]

Message == [stage : {"none", "offered", "taken", "refused"}, id : Id \union {NoId},
            sender : Sender, reported : SUBSET Status]
Call    == [step : {"none", "waiting", "answered", "over"},
            outcome : {"none", "accepted", "rejected", "uncertain"},
            event : Status \union {"none"}]
Row     == [state : AttemptState \union {"unused", "deleted"},
            acceptance : Acceptance, revision : Revision]

TypeOK ==
  /\ environment \in Environment
  /\ message \in [Attempt -> Message]
  /\ call \in [Attempt -> Call]
  /\ row \in [Attempt -> Row]
  /\ configuration \in 0 .. MaxRevision
  /\ correlations \in [Reference -> Attempt \union {NoAttempt}]
  /\ inbox \subseteq InboxRow
  /\ received \in [events : SUBSET Report, revisions : SUBSET Revision]
  /\ merged \subseteq Attempt \X Report
  /\ again \in BOOLEAN

noCallback == [events |-> {}, revisions |-> {}]
existing(a) == row[a].state \notin {"unused", "deleted"}

-----------------------------------------------------------------------------
(***************************************************************************)
(* The references of the provider's reports.                               *)
(***************************************************************************)
\* Whether a report names the attempt, as far as the provider returned what
\* it was given.
echoes(report) == report.status \in environment.echo

\* The identifier a report carries, if it carries one.
providerRequestId(report) ==
  IF bearsIdentifier(environment.adapter, echoes(report)) THEN message[report.of].id ELSE NoId

correlationKey(report) ==
  IF echoes(report) THEN attemptReference(report.of)
  ELSE providerReference(message[report.of].id)

\* Whether two messages may bear one identifier: the provider keeps them
\* unique for each sending number, or for the account when it has no other
\* notion of a sender.
sameScope(a, b) ==
  environment.adapter = "meta" => message[a].sender = message[b].sender

-----------------------------------------------------------------------------
(***************************************************************************)
(* The pieces of the transactions, on a state s of the tables:             *)
(* s.row, s.correlations, s.inbox, s.merged, s.again.                      *)
(***************************************************************************)
tables == [row |-> row, correlations |-> correlations, inbox |-> inbox,
           merged |-> merged, again |-> again]
commit(s) ==
  /\ row' = s.row
  /\ correlations' = s.correlations
  /\ inbox' = s.inbox
  /\ merged' = s.merged
  /\ again' = s.again

\* The part of the evidence merge that concerns the attempt itself.
mergeOutcome(r, outcome) ==
  [r EXCEPT !.state = resultingState(r.state, outcome.state),
            !.acceptance = IF applies(r, outcome) THEN mergedAcceptance(r, outcome)
                           ELSE r.acceptance]

\* What merging several reports one after the other amounts to, in whatever
\* order; the proofs show it.
mergedState(r, statuses) ==
  LET known == statuses \union {r.state}
  IN IF "suppressed" \in known THEN "suppressed"
     ELSE IF "delivered" \in known THEN "delivered"
     ELSE IF "failed" \in known THEN "failed"
     ELSE IF "accepted" \in known THEN "accepted" ELSE r.state

mergeReports(r, statuses) ==
  [r EXCEPT !.state = mergedState(r, statuses),
            !.acceptance = IF mergedState(r, statuses) \in statuses THEN "accepted"
                           ELSE r.acceptance]

\* A cancellation at the provider is a failed delivery, never a local one.
inboxStatus(report) ==
  LET status == normalizeStatus(environment.adapter, report.status)
  IN IF status = "cancelled" THEN "failed" ELSE status

\* Mutant: an identifier is enough, whichever sender reported it.
matches_any(entry, revision) == TRUE
matches(entry, revision) == entry.revisions = {} \/ revision \in entry.revisions

due(s, entry) ==
  LET a == s.correlations[entry.reference]
  IN a # NoAttempt /\ ~entry.processed /\ matches(entry, s.row[a].revision)

\* The reports waiting under the references are merged into their attempts.
reconcile(s, references) ==
  LET now   == {entry \in s.inbox : entry.reference \in references /\ due(s, entry)}
      of(a) == {entry \in now : s.correlations[entry.reference] = a}
      pairs == {<<s.correlations[entry.reference], entry.report>> : entry \in now}
  IN [s EXCEPT !.row = [a \in Attempt |->
                          mergeReports(s.row[a], {inboxStatus(e.report) : e \in of(a)})],
               !.inbox = (s.inbox \ now) \union {[e EXCEPT !.processed = TRUE] : e \in now},
               !.merged = s.merged \union pairs,
               !.again = s.again \/ pairs \intersect s.merged # {}]

conflicts(s, reference, a) == s.correlations[reference] \notin {NoAttempt, a}
registerCorrelation(s, reference, a) ==
  [s EXCEPT !.correlations[reference] =
     IF s.correlations[reference] = NoAttempt THEN a ELSE s.correlations[reference]]

\* The reports of a batch that teach the identifier of an attempt: they bear
\* both names, and come from the sender the attempt was given to.
aliases(s, events, revisions) ==
  {e \in events :
     /\ echoes(e)
     /\ providerRequestId(e) # NoId
     /\ s.correlations[attemptReference(e.of)] # NoAttempt
     /\ revisions = {} \/ s.row[e.of].revision \in revisions}

aliasConflict(s, events, revisions) ==
  \E e \in aliases(s, events, revisions) :
     \/ conflicts(s, providerReference(providerRequestId(e)), e.of)
     \/ \E f \in aliases(s, events, revisions) :
          f.of # e.of /\ providerRequestId(f) = providerRequestId(e)

\* Mutant: an early report is not looked for once its identifier is known.
ingested_forgetful(s, events, revisions) == {correlationKey(e) : e \in events}
ingested(s, events, revisions) ==
  {correlationKey(e) : e \in events}
    \union {providerReference(providerRequestId(e)) : e \in aliases(s, events, revisions)}

\* Whether two reports have one deduplication key.  It has the identifier, the status
\* and the second of a report, but not the sender, in whose scope the identifier is one.
sameKey(e, f) ==
  /\ e.status = f.status
  /\ e.of = f.of \/ (environment.coincide /\ message[e.of].id = message[f.of].id)

\* The reports of a batch that are stored, for each order of the batch: those whose key
\* neither a stored report has nor an earlier one of the batch.
storable(s, events) ==
  LET stored == {entry.report : entry \in s.inbox}
  IN {kept \in SUBSET events :
        /\ \A e \in kept, f \in stored : ~sameKey(e, f)
        /\ \A e, f \in kept : sameKey(e, f) => e = f
        /\ \A e \in events \ kept : \E f \in kept \union stored : sameKey(e, f)}

\* ingestLockedEvents: the batch is stored as far as its keys are new, and every
\* reference it names or teaches is reconciled.
ingestLockedEvents(s, events, kept, revisions) ==
  LET taught == aliases(s, events, revisions)
      new    == {[report |-> e, reference |-> correlationKey(e), revisions |-> revisions,
                  processed |-> FALSE] : e \in kept}
      owner(reference) ==
        IF s.correlations[reference] = NoAttempt
           /\ \E e \in taught : providerReference(providerRequestId(e)) = reference
        THEN (CHOOSE e \in taught : providerReference(providerRequestId(e)) = reference).of
        ELSE s.correlations[reference]
  IN reconcile([s EXCEPT !.inbox = s.inbox \union new,
                         !.correlations = [r \in Reference |-> owner(r)]],
               ingested(s, events, revisions))

-----------------------------------------------------------------------------
Init ==
  /\ environment \in Environment
  /\ message = [a \in Attempt |-> [stage |-> "none", id |-> NoId,
                                   sender |-> environment.sender[1], reported |-> {}]]
  /\ call = [a \in Attempt |-> [step |-> "none", outcome |-> "none", event |-> "none"]]
  /\ row = [a \in Attempt |-> [state |-> "unused", acceptance |-> "null", revision |-> 1]]
  /\ configuration = 1
  /\ correlations = [r \in Reference |-> NoAttempt]
  /\ inbox = {}
  /\ received = noCallback
  /\ merged = {}
  /\ again = FALSE

(***************************************************************************)
(* The router schedules an attempt and calls the provider.                 *)
(***************************************************************************)
schedule(a) ==
  /\ row[a].state = "unused"
  /\ configuration # 0
  /\ row' = [row EXCEPT ![a] = [state |-> "pending", acceptance |-> "null",
                                revision |-> configuration]]
  /\ correlations' = [correlations EXCEPT ![attemptReference(a)] = a]
  /\ UNCHANGED <<environment, message, call, configuration, inbox, received, merged, again>>

\* The adapter refuses the request itself, or offers it to the provider.
dispatch(a) ==
  /\ row[a].state = "pending"
  /\ row' = [row EXCEPT ![a].state = "dispatching"]
  /\ \E length \in CodeLength, remaining \in RemainingMs, fits \in BOOLEAN :
       IF sendable(environment.adapter, length, remaining, fits)
       THEN /\ message' = [message EXCEPT ![a].stage = "offered",
                             ![a].sender = environment.sender[row[a].revision]]
            /\ call' = [call EXCEPT ![a].step = "waiting"]
       ELSE /\ call' = [call EXCEPT ![a].step = "answered", ![a].outcome = "rejected"]
            /\ UNCHANGED message
  /\ UNCHANGED <<environment, configuration, correlations, inbox, received, merged, again>>

(***************************************************************************)
(* The provider.  It may still take a message after the call was given up. *)
(***************************************************************************)
Take(a) ==
  /\ message[a].stage = "offered"
  /\ \E id \in Id :
       /\ \A b \in Attempt : message[b].id = id => ~sameScope(a, b)
       /\ message' = [message EXCEPT ![a].stage = "taken", ![a].id = id]
  /\ UNCHANGED <<environment, call, row, configuration, correlations, inbox, received,
                 merged, again>>

Refuse(a) ==
  /\ message[a].stage = "offered"
  /\ message' = [message EXCEPT ![a].stage = "refused"]
  /\ UNCHANGED <<environment, call, row, configuration, correlations, inbox, received,
                 merged, again>>

reports == {r \in Report : r.status \in message[r.of].reported}

Emit(a) ==
  /\ message[a].stage = "taken"
  /\ Cardinality(reports) < MaxReports
  /\ \E status \in Status \intersect ProviderStatus[environment.adapter] :
       message' = [message EXCEPT ![a].reported = @ \union {status}]
  /\ message' # message
  /\ UNCHANGED <<environment, call, row, configuration, correlations, inbox, received,
                 merged, again>>

\* The error codes that a provider documents as a refusal, and those that
\* prove nothing.  Error envelopes that imitate a refusal come from proxies
\* in front of the Gateway, with the statuses of a proxy.
refusal ==
  [meta |-> {"131026"}, telegram |-> {"PHONE_NUMBER_NOT_FOUND"},
   play_mobile |-> {"102"}, custom |-> {"refused"}]
indeterminate ==
  [meta |-> {"131000"}, telegram |-> {"MESSAGE_ALREADY_SENT"},
   play_mobile |-> {"100"}, custom |-> {}]
errors(statuses, codes) ==
  {[status |-> status, body |-> "error", code |-> code] : status \in statuses, code \in codes}

replies(a) ==
  {transportFailure, [status |-> 200, body |-> "other", code |-> "none"]}
  \union errors({400, 500}, indeterminate[environment.adapter])
  \union (IF environment.adapter = "telegram" THEN errors({408, 502}, refusal.telegram) ELSE {})
  \union (IF message[a].stage = "taken"
          THEN {[status |-> 200, body |-> "accepted", code |-> "none"]} ELSE {})
  \union (IF message[a].stage = "refused"
          THEN errors({400}, refusal[environment.adapter]) ELSE {})

\* The call ends with a reply, with the send timeout or with the worker.  An
\* adapter may find a first delivery report in the reply itself.
Answer(a) ==
  /\ call[a].step = "waiting"
  /\ \E reply \in replies(a), event \in Status \union {"none"} :
       LET outcome == send(environment.adapter, reply)
       IN /\ event # "none" => /\ environment.adapter = "custom"
                               /\ outcome = "accepted"
                               /\ event \in ProviderStatus["custom"]
                               /\ Cardinality(reports) < MaxReports
          /\ call' = [call EXCEPT ![a] = [step |-> "answered", outcome |-> outcome,
                                          event |-> event]]
          /\ message' = IF event = "none" THEN message
                        ELSE [message EXCEPT ![a].reported = @ \union {event}]
  /\ UNCHANGED <<environment, row, configuration, correlations, inbox, received, merged,
                 again>>

(***************************************************************************)
(* The reply is recorded.                                                  *)
(***************************************************************************)
over(a) == call' = [call EXCEPT ![a] = [step |-> "over", outcome |-> "none", event |-> "none"]]

\* An identifier that is another attempt's already rolls the acceptance back:
\* the attempt stays dispatching until recovery.
recordAccepted(a) ==
  LET s         == tables
      reference == providerReference(message[a].id)
      registered == registerCorrelation(
                      [s EXCEPT !.row[a] = mergeOutcome(row[a], acceptedOutcome)], reference, a)
      reconciled == reconcile(registered, {reference})
      events    == IF call[a].event = "none" THEN {}
                   ELSE {[of |-> a, status |-> call[a].event]}
  IN /\ call[a].step = "answered"
     /\ call[a].outcome = "accepted"
     /\ over(a)
     /\ IF conflicts(s, reference, a) THEN commit(s)
        ELSE \E kept \in storable(reconciled, events) :
               commit(ingestLockedEvents(reconciled, events, kept, {}))
     /\ UNCHANGED <<environment, message, configuration, received>>

recordOutcome(a) ==
  /\ call[a].step = "answered"
  /\ call[a].outcome \in {"rejected", "uncertain"}
  /\ over(a)
  /\ row' = [row EXCEPT ![a] = mergeOutcome(row[a],
               IF call[a].outcome = "rejected" THEN rejectedOutcome(FALSE)
               ELSE uncertainOutcome)]
  /\ UNCHANGED <<environment, message, configuration, correlations, inbox, received, merged,
                 again>>

\* The worker dies before the reply is recorded.
Crash(a) ==
  /\ call[a].step = "answered"
  /\ over(a)
  /\ UNCHANGED <<environment, message, row, configuration, correlations, inbox, received,
                 merged, again>>

recoverDispatches(a) ==
  /\ row[a].state = "dispatching"
  /\ call[a].step = "over"
  /\ row' = [row EXCEPT ![a] = mergeOutcome(row[a], uncertainOutcome)]
  /\ UNCHANGED <<environment, message, call, configuration, correlations, inbox, received,
                 merged, again>>

(***************************************************************************)
(* A callback: authenticated in one transaction, ingested in another.  It  *)
(* is tried under the current configuration of the instance and under      *)
(* every one that a saved route or a stored report still needs.            *)
(***************************************************************************)
candidates ==
  ({configuration} \ {0})
    \union {row[a].revision : a \in {b \in Attempt : existing(b)}}
    \union UNION {entry.revisions : entry \in inbox}

authenticate(events) ==
  LET senders   == {message[e.of].sender : e \in events}
      revisions == {r \in candidates :
                      authenticates(environment.adapter, environment.sender[r], senders)}
  IN /\ received = noCallback
     /\ events # {}
     /\ Cardinality(events) <= batchLimit(environment.adapter, MaxBatch)
     /\ revisions # {}
     /\ received' = [events |-> events, revisions |-> revisions]
     /\ UNCHANGED <<environment, message, call, row, configuration, correlations, inbox,
                    merged, again>>

\* One report whose identifier is another attempt's rolls the batch back.
ingestEvents ==
  /\ received # noCallback
  /\ received' = noCallback
  /\ IF aliasConflict(tables, received.events, received.revisions) THEN commit(tables)
     ELSE \E kept \in storable(tables, received.events) :
            commit(ingestLockedEvents(tables, received.events, kept, received.revisions))
  /\ UNCHANGED <<environment, message, call, configuration>>

(***************************************************************************)
(* The surroundings: administration and retention.                         *)
(***************************************************************************)
UpdateInstance ==
  /\ configuration \in 1 .. MaxRevision - 1
  /\ configuration' = configuration + 1
  /\ UNCHANGED <<environment, message, call, row, correlations, inbox, received, merged, again>>

RetireInstance ==
  /\ configuration # 0
  /\ configuration' = 0
  /\ UNCHANGED <<environment, message, call, row, correlations, inbox, received, merged, again>>

\* The retention of an ended operation, days after its calls: its attempts go
\* with it, and their correlations with them.
deleteOperation(a) ==
  /\ row[a].state \notin {"unused", "deleted", "dispatching"}
  /\ call[a].step \in {"none", "over"}
  /\ row' = [row EXCEPT ![a] = [state |-> "deleted", acceptance |-> "null", revision |-> 1]]
  /\ correlations' = [r \in Reference |->
                        IF correlations[r] = a THEN NoAttempt ELSE correlations[r]]
  /\ UNCHANGED <<environment, message, call, configuration, inbox, received, merged, again>>

obsolete(entry) ==
  /\ call[entry.report.of].step \in {"none", "over"}
  /\ correlations[entry.reference] = NoAttempt

deleteInbox ==
  /\ \E entry \in inbox : obsolete(entry) /\ inbox' = inbox \ {entry}
  /\ UNCHANGED <<environment, message, call, row, configuration, correlations, received,
                 merged, again>>

Next ==
  \/ \E a \in Attempt :
       \/ schedule(a) \/ dispatch(a)
       \/ Take(a) \/ Refuse(a) \/ Emit(a) \/ Answer(a)
       \/ recordAccepted(a) \/ recordOutcome(a) \/ Crash(a) \/ recoverDispatches(a)
       \/ deleteOperation(a)
  \/ \E events \in SUBSET reports : authenticate(events)
  \/ ingestEvents
  \/ UpdateInstance \/ RetireInstance \/ deleteInbox

Spec == Init /\ [][Next]_vars

-----------------------------------------------------------------------------
(***************************************************************************)
(* Properties.                                                             *)
(***************************************************************************)
\* A report is evidence about its own message alone, whatever identifiers are
\* shared between sending numbers, left over by lost replies or taught by
\* reports (docs/runtime-configuration.md: "a different saved sender cannot
\* establish delivery evidence").
OwnReportsOnly == \A pair \in merged : pair[2].of = pair[1]

\* Duplicated and repeated callbacks, an identifier learnt twice and the
\* deletion of old reports never make one report count twice.
MergedOnce == ~again

\* A stored report of a message counts as soon as the reference it names is
\* known to be that message's, whichever of the two came first, and whatever
\* became of the instance's configuration in between.
NothingForgotten ==
  \A entry \in inbox :
    correlations[entry.reference] = entry.report.of
      => <<entry.report.of, entry.report>> \in merged

\* Together: each report counts exactly once.
CountedOnce == MergedOnce /\ NothingForgotten

\* What is on record is what happened: "not accepted" is never said of a
\* message the provider took or may still take, "accepted" only of one it
\* took, and "delivered" only on a report of delivery.
EvidenceIsTrue ==
  \A a \in Attempt :
    /\ row[a].acceptance = "not_accepted" => message[a].stage \in {"none", "refused"}
    /\ row[a].acceptance = "accepted" => message[a].stage = "taken"
    /\ row[a].state = "delivered" => \E status \in message[a].reported :
         normalizeStatus(environment.adapter, status) = "delivered"
=============================================================================
