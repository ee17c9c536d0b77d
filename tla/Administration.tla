--------------------------- MODULE Administration ---------------------------
(***************************************************************************)
(* Administration beside the work that depends on it: requests of          *)
(* administrators that arrive late, again and out of order; one delivery   *)
(* that resolves its route in a transaction of its own, is admitted in     *)
(* another and sends long after; and the erasure of credentials.           *)
(*                                                                         *)
(* Every transaction holds the runtime lock, shared or exclusive, so it is *)
(* one action on db, the committed tables of Resources and Projects.       *)
(***************************************************************************)
EXTENDS Projects

CONSTANTS project, policy, principal,   \* what the delivery names
          Scenario                      \* the commands explored under each key

ASSUME AdministrationAssumption ==
  /\ project \in Project /\ policy \in Policy /\ principal \in Principal
  /\ Project \intersect Resource = {}
  /\ None \notin Project
  /\ None \notin Principal \union Receipt \union ProjectReceipt
ASSUME ScenarioAssumption ==
  \A commands \in Scenario : commands \in [Key -> SUBSET (RuntimeCommand \union ProjectCommand)]

VARIABLES db,          \* the committed tables
          scenario,    \* the commands of this behaviour, for each key
          sent,        \* the requests sent so far; the network may repeat any of them
          route,       \* the delivery's route, resolved and not yet admitted
          intent,      \* the authority the delivery captured when it was admitted
          use,         \* what retained deliveries and stored reports need
          effects,     \* history: the requests that changed something
          repeated,    \* history: a request changed something twice
          answers,     \* history: the answers to each request
          promised     \* history: the callback credentials given out while in use

vars == <<db, scenario, sent, route, intent, use, effects, repeated, answers, promised>>

emptyTables ==
  [resources   |-> [id \in Resource |-> absent],
   revisions   |-> {},
   invalidated |-> {},
   versions    |-> [v \in VersionId |-> noVersion],
   current     |-> [a \in Account |-> [p \in Purpose |-> None]],
   grants      |-> [g \in GrantId |-> noGrant],
   events      |-> [id \in Resource |-> <<>>],
   receipts    |-> [k \in Key |-> None],
   projects    |-> [p \in Project |-> noProject],
   access      |-> [g \in GrantId |-> noAccess],
   adminEvents |-> [p \in Project |-> <<>>],
   adminReceipts |-> [k \in Key |-> None]]

TypeOK ==
  /\ db.resources \in [Resource -> ResourceRow]
  /\ db.revisions \subseteq [id : Versioned, revision : Nat, data : Data]
  /\ db.invalidated \subseteq [id : Versioned, revision : Nat]
  /\ db.versions \in [VersionId -> VersionRow]
  /\ db.current \in [Account -> [Purpose -> VersionId \union {None}]]
  /\ db.grants \in [GrantId -> GrantRow]
  /\ db.events \in [Resource -> Seq(AuditEvent)]
  /\ db.receipts \in [Key -> Receipt \union {None}]
  /\ db.projects \in [Project -> ProjectRow]
  /\ db.access \in [GrantId -> AccessRow]
  /\ db.adminEvents \in [Project -> Seq(AuditEvent)]
  /\ db.adminReceipts \in [Key -> ProjectReceipt \union {None}]
  /\ use.dispatching \subseteq VersionId
  /\ use.routes \union use.inbox \subseteq Account
  /\ repeated \in BOOLEAN
  /\ promised \in [Account -> SUBSET VersionId]

-----------------------------------------------------------------------------
(***************************************************************************)
(* The authority of a delivery.                                            *)
(***************************************************************************)
\* resolvePolicy: at most one route, over every step that may send now.
resolvedStep(s, i) ==
  [revision |-> s.resources[i].configurationRevision, epoch |-> s.resources[i].epoch,
   accountEpoch |-> s.resources[accountOf(s, i)].epoch, data |-> s.resources[i].data]

resolvedSteps(s) ==
  {i \in s.resources[policy].data.steps :
     /\ bothEnabled(s, i)
     /\ instanceGrants(s, project, i) # {}
     /\ revisionValid(s, i, s.resources[i].configurationRevision)}

resolvePolicy(s) ==
  {[policyRevision |-> s.resources[policy].configurationRevision,
    policyEpoch    |-> s.resources[policy].epoch,
    policyGrant    |-> g,
    steps          |-> [i \in resolvedSteps(s) |-> resolvedStep(s, i)],
    grants         |-> [i \in resolvedSteps(s) |->
                          CHOOSE h \in instanceGrants(s, project, i) : TRUE]] :
     g \in {h \in activeGrants(s, project, policy) :
              /\ enabled(s, policy)
              /\ revisionValid(s, policy, s.resources[policy].configurationRevision)
              /\ resolvedSteps(s) # {}
              /\ \A i \in resolvedSteps(s) : configured(s, accountOf(s, i))}}

\* The selector keeps some of the steps.
narrowed(r, chosen) ==
  [r EXCEPT !.steps = [i \in chosen |-> r.steps[i]], !.grants = [i \in chosen |-> r.grants[i]]]

\* Mutant: the saved steps are checked for their state, not their configuration.
revalidateRoute_stateOnly(s, r) ==
  /\ enabled(s, policy)
  /\ activeGrants(s, project, policy) = {r.policyGrant}
  /\ \A i \in DOMAIN r.steps :
       bothEnabled(s, i) /\ savedGrants(s, project, i, r.grants[i]) # {}
revalidateRoute(s, r) ==
  /\ s.resources[policy].configurationRevision = r.policyRevision
  /\ s.resources[policy].epoch = r.policyEpoch
  /\ enabled(s, policy)
  /\ activeGrants(s, project, policy) = {r.policyGrant}
  /\ revisionValid(s, policy, r.policyRevision)
  /\ \A i \in DOMAIN r.steps :
       /\ bothEnabled(s, i)
       /\ savedGrants(s, project, i, r.grants[i]) # {}
       /\ resolvedStep(s, i) = r.steps[i]
       /\ revisionValid(s, i, r.steps[i].revision)

requireAccess(s) ==
  accessGrants(s, project, principal) # {} /\ s.projects[project].state = "active"

captureAuthority(s, r) ==
  [principalGrant |-> CHOOSE g \in accessGrants(s, project, principal) : TRUE,
   projectEpoch   |-> s.projects[project].sendEpoch,
   policyGrant    |-> CHOOSE g \in activeGrants(s, project, policy) : TRUE,
   policyEpoch    |-> s.resources[policy].epoch,
   policyRevision |-> r.policyRevision,
   revisions      |-> [i \in DOMAIN r.steps |-> r.steps[i].revision],
   steps          |-> [i \in DOMAIN r.steps |->
     [epoch        |-> s.resources[i].epoch,
      accountEpoch |-> s.resources[accountOf(s, i)].epoch,
      grant        |-> CHOOSE g \in instanceGrants(s, project, i) : TRUE]]]

intentEligible(s, a) ==
  /\ s.projects[project].state = "active"
  /\ s.projects[project].sendEpoch = a.projectEpoch
  /\ ~s.access[a.principalGrant].revoked
  /\ a.policyGrant \in activeGrants(s, project, policy)
  /\ enabled(s, policy)
  /\ s.resources[policy].epoch = a.policyEpoch

\* availableProviders, as far as authority decides.
stepEligible(s, a, i) ==
  /\ revisionValid(s, policy, a.policyRevision)
  /\ bothEnabled(s, i)
  /\ savedGrants(s, project, i, a.steps[i].grant) # {}
  /\ revisionValid(s, i, a.revisions[i])
  /\ s.resources[i].epoch = a.steps[i].epoch
  /\ s.resources[accountOf(s, i)].epoch = a.steps[i].accountEpoch

mayDispatch(s, a, i) == intentEligible(s, a) /\ stepEligible(s, a, i)

-----------------------------------------------------------------------------
Init ==
  /\ db = emptyTables
  /\ scenario \in Scenario
  /\ sent = {}
  /\ route = None
  /\ intent = None
  /\ use = [dispatching |-> {}, routes |-> {}, inbox |-> {}]
  /\ effects = {}
  /\ repeated = FALSE
  /\ answers = {}
  /\ promised = [a \in Account |-> {}]

\* The callback credentials in force while retained work may still be
\* reported on; what is in use keeps them.
remember ==
  promised' = [a \in Account |->
    IF a \in use'.routes \union use'.inbox
    THEN promised[a] \union ({db'.current[a]["callback"]} \ {None}) ELSE {}]

(***************************************************************************)
(* Administrators.  A request expects the revision its author saw when it  *)
(* was sent, and may arrive at any later time, any number of times.        *)
(***************************************************************************)
revisionOf(s, id) == IF id \in Project THEN s.projects[id].revision
                     ELSE s.resources[id].revision

submit(key) ==
  /\ \E command \in scenario[key] :
       LET request == [key |-> key,
                       command |-> [command EXCEPT !.expectedRevision =
                                      revisionOf(db, command.id)]]
       IN /\ \A r \in sent : r.key = key => [r.command EXCEPT !.expectedRevision = 0] # command
          /\ sent' = sent \union {request}
  /\ UNCHANGED <<db, scenario, route, intent, use, effects, repeated, answers, promised>>

\* randomUUID never runs out.
identifiersLeft == unusedVersions(db) # {} /\ unusedGrants(db) # {} /\ unusedAccess(db) # {}

executed(s, request) ==
  IF request.command.id \in Project THEN mutateProject(s, request.key, request.command)
  ELSE mutateRuntime(s, request.key, request.command)

receiptOf(s, request) ==
  IF request.command.id \in Project THEN s.adminReceipts[request.key]
  ELSE s.receipts[request.key]

\* A request under a used key gets the saved answer, or is refused.
replies(t, request) ==
  IF receiptOf(t, request) = None THEN {}
  ELSE IF receiptOf(t, request).command # request.command THEN {}
  ELSE {receiptOf(t, request).body}

audits(s) == <<s.events, s.adminEvents>>

execute(request) ==
  LET t      == executed(db, request)
      logged == audits(t) # audits(db)
  IN /\ identifiersLeft
     /\ db' = t
     /\ effects' = IF logged THEN effects \union {request} ELSE effects
     /\ repeated' = (repeated \/ (logged /\ request \in effects))
     /\ answers' = answers \union {<<request, body>> : body \in replies(t, request)}
     /\ UNCHANGED <<scenario, sent, route, intent, use>>
     /\ remember

\* The receipt of a change to a project is dropped after seven days; that of
\* its creation, and those of runtime administration, never are.
cleanupAdminReceipts(key) ==
  /\ db.adminReceipts[key] # None
  /\ db.adminReceipts[key].command.action # "create"
  /\ db' = [db EXCEPT !.adminReceipts[key] = None]
  /\ UNCHANGED <<scenario, sent, route, intent, use, effects, repeated, answers, promised>>

(***************************************************************************)
(* The delivery: prepare, admission, dispatch of a step, its end, the      *)
(* reports of the provider, and retention.                                 *)
(***************************************************************************)
prepareRoute ==
  /\ intent = None
  /\ route = None
  /\ \E r \in resolvePolicy(db) : \E chosen \in (SUBSET DOMAIN r.steps) \ {{}} :
       route' = narrowed(r, chosen)
  /\ UNCHANGED <<db, scenario, sent, intent, use, effects, repeated, answers, promised>>

stepAccounts(r) == {r.steps[i].data.account : i \in DOMAIN r.steps}

admitOperation ==
  /\ route # None
  /\ intent = None
  /\ route' = None
  /\ IF requireAccess(db) /\ revalidateRoute(db, route)
     THEN /\ intent' = captureAuthority(db, route)
          /\ use' = [use EXCEPT !.routes = stepAccounts(route)]
     ELSE UNCHANGED <<intent, use>>
  /\ UNCHANGED <<db, scenario, sent, effects, repeated, answers>>
  /\ remember

dispatch(i) ==
  /\ intent # None
  /\ i \in DOMAIN intent.steps
  /\ mayDispatch(db, intent, i)
  /\ configured(db, accountOf(db, i))
  /\ use' = [use EXCEPT !.dispatching = @ \union {db.current[accountOf(db, i)]["send"]}]
  /\ UNCHANGED <<db, scenario, sent, route, intent, effects, repeated, answers>>
  /\ remember

\* The last dispatch under this credential ends.  One that is not the last changes
\* nothing here.
endDispatch(v) ==
  /\ v \in use.dispatching
  /\ use' = [use EXCEPT !.dispatching = @ \ {v}]
  /\ UNCHANGED <<db, scenario, sent, route, intent, effects, repeated, answers>>
  /\ remember

storeReport(a) ==
  /\ \E v \in VersionId : /\ db.versions[v].account = a
                          /\ db.versions[v].purpose = "callback"
                          /\ readable(db, v)
  /\ use' = [use EXCEPT !.inbox = @ \union {a}]
  /\ UNCHANGED <<db, scenario, sent, route, intent, effects, repeated, answers>>
  /\ remember

deleteOperation ==
  /\ use.routes # {}
  /\ use.dispatching = {}
  /\ use' = [use EXCEPT !.routes = {}]
  /\ intent' = None
  /\ UNCHANGED <<db, scenario, sent, route, effects, repeated, answers>>
  /\ remember

deleteReports(a) ==
  /\ a \in use.inbox
  /\ use' = [use EXCEPT !.inbox = @ \ {a}]
  /\ UNCHANGED <<db, scenario, sent, route, intent, effects, repeated, answers>>
  /\ remember

cleanupSecrets ==
  /\ db' = cleanupRuntimeSecrets(db, use)
  /\ db' # db
  /\ UNCHANGED <<scenario, sent, route, intent, use, effects, repeated, answers, promised>>

Next ==
  \/ \E key \in Key : submit(key) \/ cleanupAdminReceipts(key)
  \/ \E request \in sent : execute(request)
  \/ prepareRoute \/ admitOperation
  \/ \E i \in Instance : dispatch(i)
  \/ \E v \in VersionId : endDispatch(v)
  \/ deleteOperation
  \/ \E a \in Account : storeReport(a) \/ deleteReports(a)
  \/ cleanupSecrets

Spec == Init /\ [][Next]_vars

-----------------------------------------------------------------------------
(***************************************************************************)
(* Properties.                                                             *)
(***************************************************************************)
\* The authority captured for a delivery never comes back: once a project, a
\* grant, a policy, an account or an instance has been taken away, giving it
\* back does not let the queued work send (delivery/eligibility.ts).
NoRevival ==
  [][\A i \in Instance :
       /\ intent # None /\ intent' = intent
       /\ i \in DOMAIN intent.steps
       /\ mayDispatch(db', intent, i)
       => mayDispatch(db, intent, i)]_vars

\* Although the route is resolved in an earlier transaction, what is admitted
\* is what would be resolved at that moment (delivery/service.ts).
AdmittedAsResolved ==
  [][intent = None /\ intent' # None =>
       \E r \in resolvePolicy(db) :
         /\ r.policyRevision = route.policyRevision
         /\ \A i \in DOMAIN route.steps :
              i \in DOMAIN r.steps /\ r.steps[i] = route.steps[i]]_vars

\* The audit log of a resource or a project has exactly one event for each of
\* its revisions, in order, whatever was retried, repeated or refused.
numbered(log, revision) ==
  Len(log) = revision /\ \A n \in 1 .. Len(log) : log[n].revision = n
AuditComplete ==
  /\ \A id \in Resource : numbered(db.events[id], db.resources[id].revision)
  /\ \A p \in Project : numbered(db.adminEvents[p], db.projects[p].revision)

\* A request takes effect once, even when it arrives again after its receipt
\* was dropped.
ExecutedOnce == ~repeated

\* Whoever repeats a request gets the answer of its execution or none.
AnswersAgree ==
  \A a, b \in answers : a[1] = b[1] => a[2] = b[2]

\* Together: however often a request arrives, it is executed once and answered alike
\* (requests/receipts.ts, runtime/mutate.ts: identity, fingerprint and receipt).
RequestsAreIdempotent == ExecutedOnce /\ AnswersAgree

\* A credential is erased only when nothing needs it: a send credential is
\* there for every current account and every dispatch under way, a callback
\* credential for all work that was retained while it was in force, unless
\* it was revoked (runtime/retention.ts).
SecretsOutliveUse ==
  /\ \A v \in use.dispatching : db.versions[v].readable
  /\ \A a \in Account, p \in Purpose :
       /\ exists(db, a) /\ state(db, a) # "retired"
       /\ db.current[a][p] # None
       => readable(db, db.current[a][p])
  /\ \A a \in Account : \A v \in promised[a] :
       db.versions[v].revoked \/ db.versions[v].readable
=============================================================================
