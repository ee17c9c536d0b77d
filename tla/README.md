# otp-router in TLA+

otp-router delivers one-time codes. A backend creates an *operation* (an external code to
deliver, or a managed *challenge* that also verifies it); the engine keeps everything in
PostgreSQL, sends through provider adapters in the order of a saved *route*, and reconciles
what providers report later. This directory models that engine, checks it with TLC on small
instances, and proves its most important invariants with TLAPS for all instances. Every
definition is translated from the source; `PROJECT.json` names the lines. Paths below are
relative to `src/packages/engine/src/`.

## Inventory

| Part | State it keeps | Operations | What is hard | What makes it correct |
| --- | --- | --- | --- | --- |
| Delivery lifecycle (`delivery/lifecycle.ts`, `service.ts`, `actions.ts`, `store.ts`, `schedule.ts`) | `delivery_operations`, `delivery_attempts`, `send_intents`, `delivery_secrets` | prepare, create, submit a code, resend / next / select, close, expire | commands race pending work and each other; a rejected command commits what it wrote | waiting work is always current; deadlines and terminal states are final; the send budget holds |
| Dispatch (`delivery/dispatch.ts`, `eligibility.ts`) | attempt state and `invocation` | gate transaction, provider call, outcome transaction | duplicate jobs, crashes between the three steps, authority withdrawn in between | at most one provider call for each attempt; "not invoked" is true |
| Evidence and routing (`delivery/decision.ts`, `outcomes.ts`) | attempt state and acceptance, operation flags | merge an outcome, suppress, advance the route | outcome, recovery and callbacks in any order | fallback only after confirmed failure, forward, never after a delivery or an invalid recipient |
| Recovery and maintenance (`delivery/recovery.ts`, `maintenance.ts`) | `recovery_at`, retention times | recover dispatches and authorizations, expire, delete | races with slow workers | nothing hangs; nothing is repeated |
| Send authorization (`delivery/authorization.ts`) | decision, lease, retry time and generation of each attempt; `project_send_blocks` | claim, reserve, finish, gate, recover | lost and late answers, stale claims, project denials, lost jobs | no send without an approval; decisions final; old approvals void after a denial |
| Provider adapters (`providers/`) | none | send, normalize a callback | what a reply proves | a rejection is proof that nothing was sent |
| Callback inbox (`delivery/callbacks.ts`, `correlation.ts`) | `callback_inbox`, `provider_correlations` | authenticate, ingest, register a reference, reconcile | duplicates, callbacks before the answer of the send, identifiers shared between senders | each report merged once, into its own attempt, none forgotten |
| Challenges (`challenges/`) | `challenges` | create, verify, cancel, deliver | concurrent guesses, expiry during a guess | at most one verification, no guess beyond the limit, in step with its delivery |
| Requests and receipts (`requests/`, `*/idempotency.ts`) | `request_receipts` | replay or execute a command | a retry races its first execution, or comes after the erasure of secrets | same answer for the same request, executed once |
| Quotas (`delivery/quotas.ts`) | `quota_events`, `provider_restrictions` | lock, check, count | windows, locks that not every check holds | limits hold under concurrency |
| Event stream and feed (`history/`, `delivery/publication.ts`) | `events`, `project_streams` | append, finalize, read, retain | sequence numbers across transactions, cursors against retention | gapless, ordered, no silent skip |
| Notifications (`notifications/`) | `notifications` | claim, send, finish, recover, replay | leases, slow finishes, replay | bounded attempts, stale finishes ignored |
| Project administration (`projects/`) | projects, access grants, audit events, receipts | create, update, grant, revoke, suspend, reactivate, retire | revisions, repeated requests, races with commands | no lost update; withdrawn authority revives nothing; complete audit |
| Runtime administration (`runtime/`) | resources, revisions, credentials, assignments, audit events, receipts | create, update, lifecycle, rotate, revoke, invalidate, assign; resolve and revalidate routes; erase credentials | a route resolved in one transaction and used in another; credentials still in use | what is admitted is current; no credential erased that is needed |
| Queue (`queue/`) and worker (`worker/`) | pg-boss jobs | enqueue in a transaction, consume, drain on shutdown | at-least-once, retries used up, aborts | work survives a lost job |

Around this core, without durable state of their own: configuration, HTTP server, client
package, cryptography, input schemas, diagnostics.

How the parts interact: every domain command is one database transaction that locks the
project, then the request, then quotas, then the operation, expires the operation if it is
overdue, does its work, and publishes events and enqueues jobs before it commits. The parts
meet only in those rows, in the jobs, and in the external calls that happen *between*
transactions: the authority's `reserve`, the provider's `send`, the webhook.

### Lock orders

Whether transactions can wait for each other in a circle depends on these orders. Only the
last one, of stream rows, is model-checked (`CirclesNeedBothOrders`); the models of the other
parts take the locks of a transaction in one step, which is sound for what they check since no
transaction reads, before it holds its locks, anything others may change.

| Transaction | Locks, in order (x: exclusive, s: shared) |
| --- | --- |
| every one | capability registration s, runtime s (administration of the runtime: x) |
| project administration | project x, request x |
| request | project s, request x, on replay its operation x, quotas sorted x, operation x, challenge x, streams in project order |
| dispatch gate | project s, quotas sorted x, operation x, streams |
| authorization claim and finish | project s, quota of the project x (finish), operation x, streams |
| rejected or uncertain outcome | operation x, streams |
| accepted outcome, callback | provider instance x, projects s (in SQL order), operations x (in JavaScript order), streams |
| recovery, expiry, retention | operations with `SKIP LOCKED`, streams |
| registration of a process | capability registration x, after a lock of its own |

Two places step out of the order, and PostgreSQL's deadlock detection resolves them: a
`deliver` whose receipt is deleted by retention while it is being read has locked its
operation before its quotas, and the `DELETE` of retention takes in any order the operations
that a callback takes one by one. Either way one transaction is aborted and leaves nothing;
the client, the queue or the next cleanup repeats it.

## Modules

| Module | Models |
| --- | --- |
| `Decision` | `delivery/decision.ts` as pure operators: the evidence merge and its effect on the route |
| `Delivery` | one operation with all its attempts, jobs, workers, callbacks, recovery, expiry and the administration that affects it |
| `SendContract` | the abstract promise about provider calls: one ledger entry for each attempt |
| `MC_Delivery` | symmetry sets for TLC; the `MC_Delivery_*.cfg` files give the instances |
| `DeliveryProofs` | the inductive invariants of `Delivery`, its theorems and the refinement of `SendContract` |
| `Authorization` | the authorization of the attempts of one project: claims, the authority, the gate, the project block, recovery |
| `MC_Authorization` | as above |
| `AuthorizationProofs` | the inductive invariant of `Authorization` and its theorems |
| `Adapters` | `providers/` as pure operators: what each adapter refuses to send, what it concludes from a reply, what a callback says and identifies |
| `Callbacks` | one provider instance: sends, replies, reports, the inbox and the correlations; uses `Adapters` and `Decision` |
| `MC_Callbacks` | the environments for TLC: adapters, senders, which reports name the attempt |
| `CallbacksProofs` | the inductive invariant of `Callbacks` and its theorems |
| `Challenge` | the managed challenges of one recipient: verification, lockout, rolling limit, receipts, expiry from both sides, retention |
| `MC_Challenge` | for TLC |
| `ChallengeProofs` | the inductive invariants of `Challenge` and its theorems |
| `Admission` | requests to the delivery service with their receipts, and the quotas that they and the jobs of their attempts are held to |
| `AdmissionContract` | the abstract promise about requests and sends: one clerk with a complete record |
| `MC_Admission` | the clients and limits for TLC |
| `AdmissionProofs` | the inductive invariants of `Admission`, its theorems and the refinement of `AdmissionContract` |
| `Resources` | the tables and transactions of runtime administration, as functions of the tables; uses `Adapters` |
| `Projects` | the same for project administration; extends `Resources` |
| `Administration` | administrators, one delivery that their changes affect, and the erasure of credentials; extends `Projects` |
| `MC_Administration` | a provisioned deployment and the scenarios for TLC |
| `AdministrationProofs` | the inductive invariant of `Administration`, its theorems, and a lemma for every command |
| `EventStream` | publication of events, the feed and the operation listing, and the cleanup of events, with the row locks between them |
| `MC_EventStream` | projects, operations and orders for TLC |
| `EventStreamProofs` | the inductive invariants of `EventStream` and its theorems |
| `Notifications` | the notification of one event: claims, the call of the receiver, recovery, replay, retention |
| `MC_Notifications` | as above |
| `NotificationsProofs` | the inductive invariant of `Notifications` and its theorems |

### Delivery

`db` holds the committed rows: `op` (the operation), `attempts` (a function on the ids, an
unused id having state `unused`) and `jobs` (every delivery job ever enqueued). A
transaction is one action on `db`. Each action first applies `expired`, as the code calls
`expire` after locking the row. `pc` and `held` are the workers: idle, *reserved* (gate
committed, provider not yet called) or *invoking*. `sends` counts provider calls, so the
models see a second call. `authority` has the project's and the policy's current state and
epoch; an intent captures epochs and `intentEligible` compares them.

| Code | Action |
| --- | --- |
| `prepare`, one-step and managed creation | `Prepare`, `Create` |
| `attachCode`, and its rejection by `captureAuthority` | `SubmitCode`, `SubmitCodeRejected` |
| `requestSend` | `RequestSend` |
| close, challenge ends | `Close` |
| `invalidateRestoredOperations` | `Invalidate` |
| status reads, expiry job, cleanup, rejected commands | `Expire` |
| `dispatchGate`, one action for each way out of it | `GateDuplicate`, `GateSuppress`, `GateRefused`, `GateUnavailable`, `GateReserve` |
| `dispatch` after the gate | `SkipSend`, `Send`, `SendFailed`, `SendAccepted`, `Crash` |
| `ingestEvents` | `Callback` |
| `recoverDispatches` | `recoverDispatches` |
| clock, administration | `PassDeadline`, `Withdraw…`, `Restore…` |

Abstractions. Time is whether the deadline has passed; recovery may hit any set of
dispatching attempts at any time, which includes every choice of `recovery_at`. A job is
never removed, so a worker may open the gate for it any number of times or never: this
covers redelivery, lost acknowledgements and authorization wake-ups. Which route steps are
ready (restrictions, cooldowns, quotas, instance lifecycles) is a free choice at each use.
A callback may come whenever the provider has been called, also before its answer, after
recovery and after the end of the operation. A fresh attempt id stands for a random UUID.

### Authorization

One project with several attempts, each the current one of its own operation. The worker
record is the handler's step between its transactions: *asking* (claim committed, authority
not answered), *answered*, *gate*. `ledger` is the authority, external: the decision it has
made, final as `docs/authorization.md` requires of it. `voided` is a history variable:
attempts with an approval on record and not yet sent when a project denial was recorded.
`AuthorityIsObeyed` has two sides: nothing is sent without an approval, and nothing is given
up without a decision while its operation wants it and its time is not up, however many
answers were lost or late.

| Code | Action |
| --- | --- |
| `claimAuthorization`, each way out of it | `ClaimNothing`, `ClaimExpired`, `ClaimBlocked`, `ClaimHeld`, `Claim` |
| `authorizer.reserve` with its timeout | `Decide` (the authority), `Reserve` (the answer, or none) |
| `finishAuthorization` | `FinishStale`, `FinishWait`, `FinishDenied`, `FinishApproved` |
| `authorizationPermitsDispatch` and the gate around it | `GateLeaves`, `GateSuppresses`, `GateRefuses`, `GateCommits` |
| `recoverAuthorizations` | `recoverAuthorizations` |
| queue retry, and loss after the last one | `Crash` |
| end of the operation or supersession, withdrawn authority, clocks | `Supersede`, `Withdraw`, `PassDeadline`, `ApprovalExpires`, `LeaseEnds`, `RetryDue`, `BlockEnds` |

Jobs are a set of attempts: the code enqueues one job for each wait, and the model lets a
waiting job start early, as an older duplicate can. `Delivery` sees all of this as
`GateSuppress` and `GateRefused`: whatever authorization decides, an attempt that is not
committed is suppressed as not invoked, or left pending.

### Adapters and Callbacks

`Adapters` has no state: for Meta, Telegram, Play Mobile and an adapter written to the
contract (the tests have one), which codes and windows it accepts, what a reply proves, what
a status says, and which senders and identifiers a callback carries. Wire formats and
signatures are left out.

`Callbacks` is one provider instance with its attempts, each of an operation of its own.
`message` is the provider's side: whether it took the message and under which identifier, and
what it reported. `call` is the worker's call, `row`, `correlations` and `inbox` the tables,
`received` a callback between its two transactions. `merged` and `again` are history: which
reports were merged into which attempt, and whether one was merged twice. The environment
of a behaviour (the adapter, which statuses name the attempt, the sender of each revision)
is chosen at the start.

| Code | Action |
| --- | --- |
| an attempt is scheduled, with its own reference | `schedule` |
| `dispatch`: the adapter refuses or calls | `dispatch` |
| the provider, external | `Take`, `Refuse`, `Emit`, `Answer` |
| `recordAccepted` with its conflict | `recordAccepted` |
| `recordOutcome` for a rejection or no proof | `recordOutcome` |
| a worker dies, `recoverDispatches` | `Crash`, `recoverDispatches` |
| `authenticateCallback`: every revision that may still be needed | `authenticate` |
| `ingestEvents` with its conflict | `ingestEvents` |
| update and retirement of the instance | `UpdateInstance`, `RetireInstance` |
| retention of operations and of the inbox | `deleteOperation`, `deleteInbox` |

The transactions of `delivery/callbacks.ts` hold the lock of the provider instance and of
the operations concerned, so each is one step. Identifiers are unique for one sender only,
as Meta's are. The key of a stored report is its identifier, status and second, without the
sender (`sameKey`; `providers/meta.ts:206`), so the reports of two messages may have one key.
The second is the environment's choice, `coincide`. Where keys meet, `storable` keeps one of
them, as `ON CONFLICT DO NOTHING` does, in whichever order a batch brings them; the report
dropped counts nowhere, which the properties say nothing against: they speak of stored
reports, and of what is on record. Retention of an operation and of a stored report comes days after the
calls they belong to, so it does not meet a call under way. Meta's subscription handshake,
which changes nothing, is left out.

### Challenge

The challenges of one recipient with the operations they own. `db.challenges` is the
challenge row joined with the state of its operation, whether the verifier exists, and the
deadline; `db.receipts` the receipts of verify requests. `quota` is the recipient's quota
events of kind `guess`; `clock` is the database's clock, so that the rolling window, its
cleanup and the deadlines meet. `guesses` and `answers` are history variables: comparisons
that failed and results handed out, which retention cannot delete.

| Code | Action |
| --- | --- |
| `createChallenge` | `Create` |
| `verifyChallenge`: a receipt exists; right code; wrong code | `Replay`, `VerifyRight`, `VerifyWrong` |
| `verifyChallenge` rejected, status, `requestDelivery`, other rejections | `Touch` |
| `cancelChallenge` | `Cancel` |
| expiry by the delivery side (gate, callbacks, job, sweep), through `DeliveryOwner` | `ExpireOperation` |
| `invalidateRestoredOperations` | `Invalidate` |
| cleanup of receipts, history and quota events | `DeleteReceipt`, `DeleteHistory`, `CleanQuotas` |

Every command is one transaction that takes the advisory locks of its request key and of
the recipient's quota, then the rows, so it is one step, and the clock is read under those
locks. The request's other inputs are equal for equal keys (a different purpose or context
is refused before anything is read). Only the receipts of verify requests are kept: those
of creation, cancellation and sends have no code. Retention is free to act on any ended
operation, at any time, which includes every retention period.

### Admission

`db` has the operations, attempts, quota events and receipts of a few recipients. `session`
is a transaction under way: *prepared* (the first transaction of a preparation found no
receipt, the route is resolved outside any transaction) or *decide* (it holds its locks and
has read the quotas and the clock). `clock` is the database's. `log`, `executed` and
`rejected` are history: what was admitted, requested and sent, when, what each request did,
and to which operations a code was attached by a submission that was then rejected.

| Code | Action |
| --- | --- |
| `prepare`, `create`: `readReceipt` in the first transaction | `Lookup` |
| their second transaction, up to its checks | `EnterPrepared` |
| `submit`, `deliver`, `close`, up to their checks | `Enter` |
| `replay` of a receipt, or its conflict | `Replay` |
| `admitOperation` with `attachCode`; `attachCode`; `requestSend`; close | `Admit`, `Submit`, `Deliver`, `Close` |
| `attachCode` whose `schedule` is rejected: the code is committed, no receipt is | `Submit`, by `reject` |
| `dispatchGate`: locks and checks; `admitSend` and the reservation | `EnterGate`, `Gate` |
| the end of a send | `RecordOutcome` |
| lock timeout, failure, crash | `Abort` |
| `cleanupBatch`: expiry, then receipts, operations and quota events | `Cleanup` |
| `clock_timestamp()` | `Tick` |

A request is sent by any number of clients any number of times; the clients of one behaviour
send the requests of one scenario. A transaction that has read the clock ends within one unit
of it: a unit is long compared with a transaction, whose locks and statements have timeouts.
A user's send is held to quotas it does not lock (`availableProviders` reads them), so that
what it found may be outdated when it commits; the gate, which locks them, decides. A gate
that finds a limit reached ends the attempt without an event, whether a limit of its own
provider (where the code goes on to another step of the route: `Delivery`) or one that all
have in common. The 24-hour limits are represented by the one of an allowance scope, the
15-minute ones by those of the recipient and the deployment; limits of the project, of other
scopes and the other window of the same scope have the same form. Availability and choice of
the route, the send budget and invalid recipients are in `Delivery`.

Durations keep their real order (30 seconds, 15 minutes, 24 hours, a lifetime of at most an
hour against seven days of retention): since a receipt outlives its operation by far, the
condition of its deletion that no live operation owns it never decides anything.

`AdmissionContract` says what clients may rely on, without sessions, locks, receipts, quota
events, expiry jobs and retention. A clerk keeps a record of every command with what it came
to, a log of admissions and sends, and the time, and decides from these alone. Commands are
executed before the deadline of their operation, each once (closing again is harmless); an
operation and an attempt are new when a command comes to them; the first code makes one
attempt and later submissions come to an attempt that is known, unless that first submission
was rejected with its code committed (the clerk's `Reject`, on his record as `rejected`): the
submissions after it are answered as executed, with no attempt. Only a coded operation with
an attempt is delivered again; nothing is worked on after it was closed; every send is of a known attempt,
the first of it, goes to the recipient admitted, and finds room among the sends in the log.
The mapping, at the end of `Admission`: a command is a request without its code (of which
the program keeps only a fingerprint, and not for long), the record is `executed`, `log`, `rejected`
and `clock` are themselves, and the answer is what the step gives the client. Steps that commit
nothing, refusals, `Cleanup` and the end of a send are the clerk's `Nothing`; `Replay` is his
`Repeat`. What the contract leaves open is which request is refused when it could be
executed, and when what was decided is sent.

### Resources, Projects and Administration

`Resources` and `Projects` are the administrative tables as one record and each transaction
as a function of it: every mutation holds the runtime lock or the project lock exclusively,
so it is one step. `Administration` puts around them the administrators, who send *requests*
that expect the revision seen when they were written and may arrive at any later time, any
number of times, and one delivery: the `route` it was resolved to, the `intent` it captured,
and what is in `use` (send credentials of dispatches, of which several may be under way, accounts of retained routes, accounts of
stored reports). `effects`, `repeated`, `answers` and `promised` are history.

| Code | Action |
| --- | --- |
| an administrator writes a request; it arrives | `submit`, `execute` |
| `mutateRuntime`, all its commands | `mutateRuntime` in `Resources` |
| `mutateProject`, all its commands | `mutateProject` in `Projects` |
| `resolvePolicy` and the selector | `prepareRoute` |
| `revalidateRoute`, `requireAccess`, `captureAuthority` | `admitOperation` |
| `intentEligible`, `availableProviders`, `providerConfiguration` | `dispatch` |
| end of the last dispatch under a credential; a report is stored; retention of both | `endDispatch`, `storeReport`, `deleteOperation`, `deleteReports` |
| `cleanupAdminReceipts`, `cleanupRuntimeSecrets` | the same names |

Settings are the few numbers that decisions read, and the two send limits of a project are
one. The configuration of a process does not change, so the permissions that a replay checks
again are those the first execution had. Receipts of runtime administration and of the
creation of projects are permanent, others are dropped after seven days, which here is at any
time. `identifiersLeft` bounds the random identifiers.

### EventStream

The only module in which one transaction is several steps, because the questions are about
its locks. `head`, `floor` and `events` are what is committed; `todo`, `done` and `heads` are
what a publishing transaction has written and not committed; `locked` is what a cleanup
holds. A row of `project_streams` is taken only if nobody holds it, and given back by the
commit or the rollback. `reader` and `lister` are clients: their cursor, the window of the
request under way, and what they have `seen`. `log` is a history variable: every event ever
committed.

| Code | Action |
| --- | --- |
| a domain transaction up to `flushChanges` | `Write` |
| `finalizeEvents`, one event | `Finalize` |
| `creation_sequence`, and the commit | `Commit` |
| rollback: fault, lock timeout, interruption | `Abort`, `AbortCleanup` |
| retention of operations | `DeleteOperation` |
| `cleanupEvents`: the candidates; the locks; the floor and the deletion | `Select`, `Lock`, `Delete` |
| `readWindow`, and its `history_cursor_expired` | `OpenFeed`, `CursorExpired`, `OpenList` |
| the page query and the next cursor | `FeedPage`, `ListPage` |
| an answer that gets lost, a listing done again | `FeedLost`, `ListLost`, `ListAgain` |

A transaction publishes one event for each operation it changed (the code may publish
several, numbered in a row); kinds and bodies are left out. `Write` takes the operations'
rows, which are held until the end, so an operation has one event in flight. Which events
of deleted operations are old enough, and whether their notifications were delivered, is
left open. A feed is read whole or for one operation; cursors cannot be forged, so a client
uses the last one it has. `SqlRank` and `JsRank` are the two orders of project identifiers
the code uses: publication takes its streams in the order of SQL, whose collation is the
database's, and cleanup in that of JavaScript's `sort`. Nothing is assumed of how they agree,
and in the run they are opposed. Transactions that wait in a circle stay so until one of them
aborts, as PostgreSQL makes it do.

### Notifications

`row` is the row of `notifications`, `waiting` says whether the queue holds a job of the event
to start, and `handler` has the steps of the consumer's places: *sending* (claimed, receiver
not answered), *answered*, or *retry*, a job that failed and will be run again.
`acknowledged` is a history variable: the receiver answered 2xx, whether it was heard or not.
A claim's `round` is history too, the number of replays before it.

| Code | Action |
| --- | --- |
| `scheduleNotification` | `Init` |
| `claim` | `Claim`, `ClaimNothing` |
| `fetch` with its timeout | `Call` |
| `finish`, and its update of no row | `Finish`, `FinishStale` |
| abort, crash, retry by the queue, loss after the last retry | `Crash` |
| `recoverNotifications`, `replayNotification`, `cleanupEvents` | the same names |
| backoff and lease | `BackoffEnds`, `LeaseEnds` |

The fence compares the number of the attempt and not the round, so an assumption on time is
part of the model: `noneLeft` says that no handler of an earlier round is alive when the
number of its attempt comes again. Between the two lie `attemptLimit` claims, at 12 attempts
more than four minutes, while the queue aborts a handler after 90 seconds. Without the
assumption `ClaimIsExclusive` fails: the answer to an old call would settle the new one.

## Runs

| Run | Instance | Shows |
| --- | --- | --- |
| `delivery_concurrency` | 2 attempts, 2 workers, 2 steps, 2 sends, one withdrawal each of project and policy | one provider call for each attempt; noninvocation is true; no evidence violates a CHECK constraint; only the current attempt ever waits; a known delivery of the current attempt starts no fallback |
| `delivery_routing` | 3 attempts, 1 worker, 2 steps, 2 sends, fair clock and background jobs | fallback only after failure, forward; an invalid recipient, the deadline and the end are final; `Delivery` implements `SendContract`; no attempt waits or hangs in dispatch for ever |
| `authorization_claims` | 1 attempt, 2 workers, 3 claims, lost jobs, silent authority | decisions on record are the authority's and final; no send without approval, and nothing given up without a decision before its time; the attempt settles |
| `authorization_denial` | 2 attempts, 1 worker, 1 project denial | approvals on record at the denial are never used |
| `callbacks` | 2 attempts, 2 identifiers, 2 revisions; six environments: Meta with two senders, naming attempts in no or in some reports, and with reports of equal keys, Telegram, a custom adapter, Play Mobile; 2 reports | stored reports count once, for their own message, and none is forgotten; what is on record is what happened |
| `challenge` | 2 challenges, 2 keys, a right and a wrong code, budget 2, limit 3 in a window of 2, lifetime 2, clock to 4 | the guess budget and the rolling limit hold; keys have one answer, success is unique; both sides end together; the deadline is strict; every challenge ends and loses its secrets |
| `admission` | 2 sessions, 2 recipients, 2 operations, 3 attempts, four scenarios of up to four requests, limits of 1 and 2 in windows of 2 and 3, clock to 4 | no rolling limit is exceeded; requests are executed once and answered alike; no fingerprint of a code is left behind; `Admission` implements `AdmissionContract` |
| `administration` | 1 project, 2 accounts with an instance each, 1 policy, 1 scope, from a provisioned deployment; nine scenarios of up to six commands | authority taken away revives nothing; what is admitted is what would be resolved then; requests are executed once; no credential is erased while needed |
| `event_stream` | 2 projects with 2 operations each, 2 writers, 1 cleanup, 1 client, 1 listing client, pages of one, the two orders of projects opposed | the stream has no gap and no repetition; the client skips nothing; the listing is complete; a circle of waiting transactions has both kinds in it |
| `notifications` | 3 handlers, 3 attempts, 2 replays, fair handlers, recovery and time | only the holder of a claim settles it; delivered means acknowledged; every notification settles |
| `delivery_attachment` | 2 attempts | **violated**, see Findings |
| `authorization_block` | 1 attempt that needs a decision and 1 that does not, 1 worker, no lost jobs | **violated**, see Findings |

Type invariants are proved rather than run, and so are the CHECK constraints of notifications,
the send budget and the completeness of the audit log.

Why these bounds are enough for the questions asked. Two workers and two attempts are the
least that has duplicate jobs, a crash of one worker while the other works, and a fallback
or a resend next to an attempt in flight. Three attempts are the least in which a fallback, a
resend and late evidence meet. A route of two steps has every relation of two attempts to
each other; that a late failure of the first of three steps repeats or skips nothing is
proved, for routes of every length, and so is `NoFallbackAfterDelivery`; a run with a third step
after the delivered one is too large. `MaxSends` is less than the number of attempts in
`delivery_routing`, so the budget is met from both sides. `MaxRevision` only stops callers;
expiry and close still move the revision beyond it. `MaxEpoch = 1` allows every order of one
withdrawal and one restoration of each authority, and the comparison of epochs makes
further ones no different. Three claims let two stale ones be outstanding. Runs use
symmetry of attempts and workers except where they check liveness.

For callbacks, two attempts with two identifiers and two senders are the least in which an
identifier is ambiguous, and in which the keys of two reports can be equal; two reports are a delivery and a failure, or the same one of two
messages; two revisions let a report arrive under a later configuration than its message.

For challenges, the limit is above one budget and below two, so lockout and refusal by the
rolling limit both happen, the latter across challenges; the clock runs for two windows and
two lifetimes, so guesses leave the window and are cleaned up while others are still in it.

For admission, two sessions are the least that race, and each scenario asks one question:
repetition with the same and another code against sends and the end; attachment by two
clients against a second operation of the recipient; submissions of one code under two keys
after a rejected attachment, and a send of what was rejected; two recipients that share
limits, in Crowded. The
limits are one for a recipient and two for what is shared, so each is the one that refuses
in some behaviour. The clock passes the end of every window but the longest, and receipts
expire at the last moment; retention of operations is free to come at once.

For administration, a scenario holds commands that undo each other's effects, every one of
them repeatable and in every order, so that a lost update, a repeated effect or a revival
needs no more of them. `effects` and `answers` grow with the requests, which bounds them.

For event streams, two writers of one project are the least that could number events out of
commit order, and pages of one event make every event a page boundary, where cursors stop.
`MaxSequence` only stops writers from starting, and a project gets an event of each of its
operations then, so a cleanup can run behind, between and ahead of the client's position.
Two projects are the least with an order, and with two orders that differ; a writer and the
cleanup then do wait for each other in some behaviours, from which only an abort leads on.

For notifications, three handlers are one with the claim and two stale ones of different
attempts, and two replays put a stale one two rounds behind. The limit of attempts only
shortens a round.

Deadlock checking is on, except in `callbacks`, `administration` and `admission`, whose
behaviours end: when everything was retired and deleted, when the commands of the scenario
were executed, when the clock is at its bound.

### Fairness

`Delivery`: the deadline passes, and expiry and dispatch recovery run. Both are done by the
every-minute cleanup (`maintenance.ts`, scheduled by the queue whatever becomes of a
delivery job), so workers, callers, administrators and providers owe nothing in
`delivery_routing`. `Authorization`: in addition leases, waits and blocks end, authorization
recovery runs, a handler does not hang (its calls have timeouts and the queue aborts it),
and the queue serves each attempt's jobs now and then without a crash each time (strong
fairness of taking the job and of passing the gate). The authority owes nothing.
`Challenge`: time passes, and the sweep expires what is overdue; clients owe nothing.
`Notifications`: the queue starts waiting jobs, handlers end (the call by its timeout, the
rest by the queue's abort), and the every-minute cleanup gets to `recoverNotifications`, its
last step (`worker/run.ts`). The receiver owes nothing, and any handler may die.

## Proofs

`DeliveryProofs` proves, for all sets of attempts and workers, all routes, budgets and bounds,

- `TypeCorrect`: `TypeOK`;
- `SendsAtMostOnce`: `AtMostOneSend`;
- `NoninvocationHolds`: `NoninvocationIsTrue`;
- `ConstraintsHold`: `RowConstraints`;
- `PendingStaysCurrent`, `FallbackFollowsFailure`, `RouteGoesForward`, `BudgetHolds`:
  `PendingIsCurrent`, `FallbackOnlyAfterFailure`, `RouteMovesForward`, `SendBudget`;
- `InvalidRecipientStays`, `DeadlineIsFinal`, `DeliveryEndsFallback`: the action properties
  `InvalidRecipientIsPermanent`, `DeadlineAndTerminalAreFinal` and `NoFallbackAfterDelivery`;
- `DeliveryImplementsContract`: every behaviour is one of `SendContract` under the
  refinement mapping of `Delivery`, `ImplementsContract`.

None of the invariants after the first is inductive alone. `DispatchInv` adds, for each
attempt, how many workers are in flight for it: an attempt never reserved has none and was
not sent; one whose row says *committed* has at most one worker in flight and at most one
send, never both a reserved worker and a send; one recorded as not invoked has neither.
Workers in flight hold different attempts. The row operations (`schedule`, `terminate`,
`recovered`, `mergeLockedOutcome`, …) each have a lemma that they keep this relation, so that
the step proof has one case for each action and no row arithmetic of its own.

`RoutingInv` adds the shape of the route, `Routes`: no row belongs to a revision to come;
only the current attempt waits; it is the furthest of its revision; two attempts of one
revision are at different steps, the later one a fallback of the earlier; after a delivery
automatic work has stopped; the committed sends stay within the budget. `Aged` says what any
transaction may do to an attempt that exists, and every row operation is shown to age rows or
to add one at the front. The action properties and the refinement follow from `RoutingInv` at
both ends of a step.

`AuthorizationProofs` proves

- `TypeCorrect`: `TypeOK`;
- `AuthorityDecides`: `AuthorityIsObeyed`;
- `DenialVoidsApprovals`: `ProjectDenialVoidsApprovals`;
- `RecordedIsFinal`: `DecisionsAreFinal`.

`AuthInv` relates each worker's answer to the ledger, each row to the ledger, and each
row's generation to the block's: a voided attempt that is still pending is approved under
an older generation than the block's, which the gate refuses. That the generations stay
within their bounds needs a count: `BlockBound` says that the block was raised no more often
than project denials are on record, each of which is a decision of the authority's
(`RaiseRecords`: a raise adds one to both), and the authority's are bounded.
`GivenUpInv` is the other side of `AuthorityIsObeyed`: a required attempt that ended unsent
was decided, or its operation ended or withdrew, or its time was up. The claim and the gate
are the two that could give one up in between, and each leaves a row alone that waits.

`CallbacksProofs` proves, for all sets of attempts, identifiers, senders, revisions, batches
and environments,

- `ReportsCommute`: merging reports one after the other has one result, whatever the order;
- `TypesHold`: `TypeOK`;
- `ReportsStayOwn`: `OwnReportsOnly`;
- `ReportsCountOnce`: `CountedOnce`;
- `EvidenceHolds`: `EvidenceIsTrue`.

`CallbackInv` relates the tables to what really happened on the provider's side: a reference
leads to the attempt whose message bears it or may bear it; a stored report was
authenticated for the revisions whose sender is that of its message. Identifiers are not
unique, and the heart of the proof is `DueIsOwn`: a report that reconciliation is about to
merge belongs to the attempt its reference leads to, since another message with that
identifier has another sender and the report would not match the attempt's revision. The
other half, that nothing is forgotten, is `OwnMatches`.

`ChallengeProofs` proves, for all sets of challenges, keys and codes, all budgets, limits
and windows,

- `TypeCorrect`: `TypeOK`;
- `LifecyclesAlwaysAgree`: `LifecyclesAgree`;
- `GuessBudgetHolds`: `GuessBudget`;
- `RollingLimitHolds`: `RollingGuessLimit`;
- `KeysHaveOneAnswer`: `OneAnswerPerKey`;
- `VerifiedForOneKey`: `VerifiedOnce`;
- `DeadlinesAreStrict`: `DeadlineIsStrict`.

All but the rolling limit follow from one invariant, `ChallengeInv`, in four parts: the rows
of both sides agree (`LifeInv`); an answer that was given is the receipt's, or the receipt is
gone and the challenge takes no more codes (`AnswerInv`); success belongs to one key and is
on record (`SuccessInv`); the failed comparisons of a challenge are as many as its counter,
which is at its maximum exactly when it is locked (`GuessInv`). The proof first shows that
both ways to end a challenge, from its own side and through `DeliveryOwner`, have the same
effect on the rows, `ended`. The rolling limit needs its own strengthening, `RateInv`:
the events that cleanup removed have left the window for good, so the events counted at a
comparison are all the guesses of every window the new one will ever be in.

`AdmissionProofs` proves, for all sets of sessions, requests and recipients and all limits
and durations in their real order,

- `TypesHold`: `TypeOK`;
- `RequestsExecuteOnce`: `RequestsAreIdempotent`;
- `CodesAreErased`: `NoCodeOutlivesItsOperation`;
- `DeadlineHolds`: `NothingAfterTheDeadline`;
- `QuotasAreKept`: `QuotasHold`;
- `AdmissionImplementsContract`: every behaviour is one of `AdmissionContract` under the
  refinement mapping of `Admission`, `ImplementsContract`.

`AdmissionInv` says what remains of an executed request (`Remembered`): its receipt, with its
answer and, while the operation lives, its code; or, when the receipt was deleted, an
operation that has ended or a deadline that has passed, either of which refuses another
execution. `Sessions` adds that a session about to decide holds the lock of its request and
found no receipt, and that nobody else can have that lock, so what it found is still true
when it commits. `Linked` ties receipts and attempts to existing operations. Each row
operation has a lemma of what it keeps, `Keeps`, and that is enough for `Remembered`.

The quotas are about the log, which nothing deletes, while the code decides by quota events,
which retention deletes and a send moves. `QuotaInv` relates the two. `LogOK` and `EventsOK`
say that entries and events have an origin, so that a new operation or attempt has none yet
and an identifier has one entry of a kind. `Counted`: every entry of the last day has its
events, except that the admission of an attempt may have moved to its send, later. `Claimed`:
a session about to decide holds the locks of the limits it may use up, and unless it is
blocked each of them has room. Two kinds of step remain. `StillStep` covers those that log
nothing: they delete at most events a day old, so that no entry loses its events while a
window can hold it. `BookingStep` covers admission, a user's send and the gate's reservation:
the room the session found is still there, because everyone who adds events to a scope holds
its lock; a window that ends now holds no more entries than events (`RecentAreCounted`, an
injection), so one more entry fits (`RoomInTheWindow`); and a window that ends earlier does
not change. A user's send is held to the limits of the send without locking them: it books
an admission only, whose scope it does lock.

For the refinement, `RecordInv` adds what relates the rows, which the program decides by and
deletes, to the record, which the clerk decides by and keeps. `Recorded`: a recorded
operation is used, a recorded attempt belongs to it, a closed one has ended; the row of an
operation that is used shows what some command came to, and its recipient and deadline are
those some command admitted; an attempt of an operation is on record. `Coded`: a prepared
operation has no code and no attempt; an active one has a code, and an attempt unless its
attachment was rejected. Each row operation is `Still`
(no row is new, and a live operation keeps its state, code and current attempt) or `Grows` (what is
new is one operation or its current attempt), and the record stays true through either: one
lemma for each row operation, one for the commitment of a request (`ExecuteRecorded`), and
then a step of the clerk for each action. The quotas carry over by counting
(`RoomToAdmit`, `RoomToSend`, `LeftAlone`): what is in the log has its events, so a window
of the log never holds more than the session counted. The proof assumes that `NoAnswer` is not
an answer, nor `NoRequest` a request.

`AdministrationProofs` proves, for all projects, resources, administrators with any
permissions, identifiers and scenarios of commands, from empty tables (the provisioned tables
of the run are what commands make of them),

- `TypeCorrect`: `TypeOK`;
- `AuditIsComplete`: `AuditComplete`;
- `RequestsExecuteOnce`: `RequestsAreIdempotent`;
- `CredentialsOutliveUse`: `SecretsOutliveUse`;
- `AuthorityIsNotRevived`: `NoRevival`;
- `RouteIsStillResolved`: `AdmittedAsResolved`.

A transaction is a function of the tables, so most lemmas are about tables before and after:
each command has one for its effect, and the audit and the receipt are added to it.
`AdministrationInv` has five parts. `Tables`: rows, logs and credentials are in order; a
credential in force is of its account, not revoked and, until the account is retired, not
erased. `UseOK`: what is used or was promised can be read or was revoked. `IntentOK` and
`RouteOK` state what was captured or resolved earlier against the present tables: each
captured epoch is of something enabled or is past; a policy at the revision of the route has
its steps. `RequestsOK`: a request that took effect is known by its receipt or, when that was
dropped, by the revision it expected, which is past; two answers to one request are equal.
`Moved(s, t)` is what no transaction takes back (epochs and revisions grow, a revoked grant
stays revoked, what is enabled in the same epoch was enabled all along); every step of the
tables is shown to be `Moved`, and the parts about the past to survive any such step. That
alone gives `NoRevival`.

`EventStreamProofs` proves, for all projects, operations, transactions, cleanups, clients and
page sizes,

- `TypeCorrect`: `TypeOK`;
- `StreamHasNoGap`: `StreamIsGapless`;
- `FeedSkipsNothing`: `FeedIsComplete`;
- `ListingSkipsNothing`: `ListingIsComplete`;
- `HighWaterStaysFinal`: `HighWaterIsFinal`;
- `CirclesTakeBothKinds`: `CirclesNeedBothOrders`, for any two strict orders of the (finitely
  many) projects; how they agree is left open.

`StreamInv` joins the first four, since each needs the others, with: a stream has one holder,
and none while a client reads it (`LockInv`); what a transaction has numbered continues the
committed stream (`WriterInv`); an operation exists from a commit that numbered it (`RowInv`);
cursors stay behind the head, and the floor does not pass the start of an open window
(`CursorInv`, `ListInv`). About pages it uses that the first `Limit` numbers of a set are
those up to the last of them. For the circle, `OrderInv` says that nobody holds a stream
behind one it still has to take, in the order of its own kind (`WaitsAhead`). Of the streams
held in a circle, the holder of the last in SQL's order waits for one before it, so it is a
cleanup, and that one comes later in JavaScript's order, which gives the two projects; the
holder of the last in JavaScript's order is a publication likewise (`LastHeld`).

`NotificationsProofs` proves, for any number of handlers, attempts and replays,

- `TypeCorrect`: `TypeOK`; `ConstraintsHold`: `RowConstraints`;
- `DeliveredWasAcknowledged`: `DeliveredIsAcknowledged`;
- `ClaimsAreExclusive`: `ClaimIsExclusive`;
- `DeliveredStaysFinal`: `DeliveredIsFinal`.

`NotifyInv` adds that handlers at work hold numbers already claimed in their round, that one
handler at most has the present number, and that it is of the present round; the last is
where `noneLeft` is used.

Assumptions: those named in the modules (`NoAttempt` is not an id, the route and the budget
are positive, `Required` is a set of attempts, …); TLC evaluates them on every run.

Model-checked only: liveness, since the prover does not reason about fairness. Every safety
invariant and action property the runs check is a theorem too.

## Findings

1. **A rejected code submission is partly committed** (`delivery_attachment`).
   `attachCode` stores the code and makes the operation active before `schedule` captures
   authority; if the policy was disabled meanwhile, the rejection is committed with those
   rows. The operation then has a code and no attempt, a repeated submission reports
   success, and every explicit send is refused. `Admission` and its contract have this path
too, with what such an operation answers from then on. `docs/data-model.md:5`: "Code attachment and
   initial delivery work are atomic."
2. **An attempt without authorization is stranded by a project block**
   (`authorization_block`). The gate returns during the block without enqueueing the job
   again, and recovery looks only for operations that require authorization.
   `docs/authorization.md:25`: the denial blocks new dispatches "until its supplied retry
   time". It takes a project whose requirement was switched off while older operations
   still needed decisions.

### Divergences

Seen while modelling, without a run of their own:

- **Two orders of stream locks.** Publication takes stream rows in the order of the
  database's collation (`history/publication.ts:65`), cleanup in the order of JavaScript's
  `sort` (`history/retention.ts:21`). Project identifiers may mix case, `-` and `_`, on which
  a linguistic collation and code units disagree. A cleanup and a transaction over two
  projects, such as the expiry sweep, can then hold one stream each and wait for the other's,
  until PostgreSQL aborts one. `history/publication.ts:57` says "in project order". The run
  `event_stream` has the two orders opposed and contains this circle;
  `CirclesNeedBothOrders` says, and the theorem proves, that there is no other.
- **Registration of capabilities.** A process that registers a new fingerprint downgrades
  its exclusive lock (`config/deployment.ts:29`) before its transaction commits. In between, a
  transaction of an older process that lost its registration still reads the old fingerprint.
  `config/deployment.ts:56`: such a process "cannot keep using an obsolete capability
  contract".

## Not modelled

- **Worker and process roles, shutdown of consumers**: the wiring of handlers to queues, and
  the order in which they stop. No state outlives a process, and an interrupted worker is a
  crash in the models.
- **Configuration and capabilities**: immutable in a process; the registration is described
  under Divergences.
- **Cryptography**: pure; abstracted to equality of codes, keys and fingerprints.
- **HTTP server, client package, input schemas, diagnostics**: no state; inputs are valid.
- **Wire formats and signatures of adapters, bodies and signatures of notifications**.
- **When a snapshot differs enough to be published, and the listing of attempts**, which is
  the listing of operations over another table.
- **Evidence events and diagnostic codes**, which no decision reads.
- **Retry times that providers ask for** (`provider_restrictions`): whether a step is ready
  is a free choice in `Delivery`.
- **All lock classes together**: see Lock orders.
