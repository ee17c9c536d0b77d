------------------------ MODULE AdministrationProofs ------------------------
(***************************************************************************)
(* Theorems about Administration, for every number of resources, projects, *)
(* administrators, keys and identifiers, and every scenario of commands.   *)
(*                                                                         *)
(* A transaction is a function of the tables, so most is said of two       *)
(* tables, s before and t after.  Tables(s) is what is in order at any     *)
(* time; Moved(s, t) is what no transaction takes back: epochs and         *)
(* revisions only grow, a revoked grant stays revoked, and what is enabled *)
(* in the same epoch was enabled all along.  What a delivery captured      *)
(* earlier is stated against the present tables (Captured, Resolved) in a  *)
(* form that every Moved step preserves, so authority that was lost cannot *)
(* come back.  A request is told to have taken effect by its receipt or,   *)
(* when that was dropped, by the revision it expected, which is past.      *)
(***************************************************************************)
EXTENDS Administration, SequenceTheorems, TLAPS

\* The tables have these fields and no others.
Shape(s) ==
  s = [resources |-> s.resources, revisions |-> s.revisions, invalidated |-> s.invalidated,
       versions |-> s.versions, current |-> s.current, grants |-> s.grants,
       events |-> s.events, receipts |-> s.receipts, projects |-> s.projects,
       access |-> s.access, adminEvents |-> s.adminEvents,
       adminReceipts |-> s.adminReceipts]

\* The audit log of one resource or project.
Log(log, revision) ==
  log \in Seq(AuditEvent) /\ numbered(log, revision)

\* A resource and its audit log.  What never existed is as Init left it.
ResourceOK(s, id) ==
  LET r == s.resources[id] IN
  /\ r \in ResourceRow
  /\ Log(s.events[id], r.revision)
  /\ r.configurationRevision <= r.revision
  /\ ~r.exists => r.revision = 0 /\ r.epoch = 1 /\ r.state = "disabled"
  /\ r.exists /\ id \in Instance => r.data.account \in Account

ProjectOK(s, p) ==
  /\ s.projects[p] \in ProjectRow
  /\ Log(s.adminEvents[p], s.projects[p].revision)
  /\ s.projects[p].state = "absent" => s.projects[p].revision = 0 /\ s.projects[p].sendEpoch = 0

\* The credentials in force are those of their account and purpose, neither
\* revoked nor, before the account is retired, erased.  Once the one in force
\* was erased, no other can authenticate a report.
CurrentOK(s, a, p, v) ==
  v # None =>
    /\ s.versions[v].account = a /\ s.versions[v].purpose = p /\ ~s.versions[v].revoked
    /\ s.resources[a].state # "retired" => s.versions[v].readable
    /\ p = "callback" /\ ~s.versions[v].readable =>
         \A w \in VersionId :
           s.versions[w].account = a /\ s.versions[w].purpose = "callback" => ~readable(s, w)
Secrets(s) ==
  /\ \A v \in VersionId :
       s.versions[v].account = None => ~s.versions[v].readable /\ ~s.versions[v].revoked
  /\ \A a \in Account, p \in Purpose : CurrentOK(s, a, p, s.current[a][p])
  /\ \A a \in Account : s.resources[a].state = "enabled" => s.current[a]["send"] # None

Types(s) ==
  /\ Shape(s)
  /\ s.resources \in [Resource -> ResourceRow]
  /\ s.revisions \subseteq [id : Versioned, revision : Nat, data : Data]
  /\ s.invalidated \subseteq [id : Versioned, revision : Nat]
  /\ s.versions \in [VersionId -> VersionRow]
  /\ s.current \in [Account -> [Purpose -> VersionId \union {None}]]
  /\ s.grants \in [GrantId -> GrantRow]
  /\ s.events \in [Resource -> Seq(AuditEvent)]
  /\ s.receipts \in [Key -> Receipt \union {None}]
  /\ s.projects \in [Project -> ProjectRow]
  /\ s.access \in [GrantId -> AccessRow]
  /\ s.adminEvents \in [Project -> Seq(AuditEvent)]
  /\ s.adminReceipts \in [Key -> ProjectReceipt \union {None}]

Tables(s) ==
  /\ Types(s)
  /\ \A id \in Resource : ResourceOK(s, id)
  /\ \A p \in Project : ProjectOK(s, p)
  /\ \A g \in GrantId : s.access[g].revoked => s.access[g].project # None
  /\ Secrets(s)

\* What no transaction takes back.
RowMoved(id, r, q) ==
  /\ r.exists => q.exists /\ q.data.account = r.data.account
  /\ r.epoch <= q.epoch
  /\ r.exists /\ r.state = "enabled" /\ q.epoch = r.epoch => q.state = "enabled"
  /\ r.configurationRevision <= q.configurationRevision
  /\ r.exists /\ id \in Policy /\ q.configurationRevision = r.configurationRevision
       => q.data = r.data

GrantStep(g, h) ==
  \/ h = g
  \/ g.project = None
  \/ h.project = g.project /\ h.resource = g.resource /\ h.revoked

\* Between two changes of a project, all that its commands look at is the same.
Unmoved(s, t, p) ==
  /\ t.projects[p].state = s.projects[p].state
  /\ t.projects[p].settings = s.projects[p].settings
  /\ projectSnapshot(t, p) = projectSnapshot(s, p)
  /\ \A who : accessGrants(t, p, who) = accessGrants(s, p, who)

ProjectMoved(s, t, p) ==
  /\ s.projects[p].state # "absent" => t.projects[p].state # "absent"
  /\ s.projects[p].sendEpoch <= t.projects[p].sendEpoch
  /\ s.projects[p].state = "active" /\ t.projects[p].sendEpoch = s.projects[p].sendEpoch
       => t.projects[p].state = "active"
  /\ s.projects[p].revision <= t.projects[p].revision
  /\ s.projects[p].state # "absent" /\ t.projects[p].revision = s.projects[p].revision
       => Unmoved(s, t, p)

VersionMoved(x, y) ==
  x.account # None =>
    y.account = x.account /\ y.purpose = x.purpose /\ (x.revoked => y.revoked)

Moved(s, t) ==
  /\ \A id \in Resource : RowMoved(id, s.resources[id], t.resources[id])
  /\ s.revisions \subseteq t.revisions /\ s.invalidated \subseteq t.invalidated
  /\ \A g \in GrantId : GrantStep(s.grants[g], t.grants[g])
  /\ \A g \in GrantId : s.access[g].revoked => t.access[g].revoked
  /\ \A p \in Project : ProjectMoved(s, t, p)
  /\ \A v \in VersionId : VersionMoved(s.versions[v], t.versions[v])

\* Administrators erase nothing, and what they bring into force can be read.
NothingErased(s, t) ==
  /\ \A v \in VersionId : s.versions[v].readable => t.versions[v].readable
  /\ \A a \in Account :
       LET v == t.current[a]["callback"]
       IN v \in {None, s.current[a]["callback"]} \/ t.versions[v].readable

(***************************************************************************)
(* What the delivery, its credentials and the requests rely on.            *)
(***************************************************************************)
inUse(u) == u.routes \union u.inbox

\* Dispatches have their credential, and accounts in use can authenticate.
UsedOK(s, u) ==
  /\ u = [dispatching |-> u.dispatching, routes |-> u.routes, inbox |-> u.inbox]
  /\ u.dispatching \subseteq VersionId /\ inUse(u) \subseteq Account
  /\ \A v \in u.dispatching :
       /\ s.versions[v].account # None /\ s.versions[v].purpose = "send"
       /\ s.versions[v].readable
  /\ \A a \in inUse(u) :
       LET v == s.current[a]["callback"] IN v # None => s.versions[v].readable

PromisedOK(s, m) ==
  /\ m \in [Account -> SUBSET VersionId]
  /\ \A a \in Account : \A v \in m[a] :
       /\ s.versions[v].account = a /\ s.versions[v].purpose = "callback"
       /\ s.versions[v].revoked \/ s.versions[v].readable

UseOK ==
  /\ UsedOK(db, use) /\ PromisedOK(db, promised)
  /\ \A a \in Account : promised[a] # {} => a \in inUse(use)

\* Captured epochs: the authority stands, or its epoch is past.
EpochOK(s, id, epoch) ==
  /\ id \in Resource /\ exists(s, id)
  /\ epoch \in Nat /\ epoch <= s.resources[id].epoch
  /\ epoch = s.resources[id].epoch => state(s, id) = "enabled"
GivenGrant(s, g) == g \in GrantId /\ s.grants[g].project = project
Published(s, id, revision) == \E row \in s.revisions : row.id = id /\ row.revision = revision

Captured(s, a) ==
  /\ s.projects[project].state # "absent"
  /\ a.projectEpoch \in Nat /\ a.projectEpoch <= s.projects[project].sendEpoch
  /\ a.projectEpoch = s.projects[project].sendEpoch => s.projects[project].state = "active"
  /\ a.principalGrant \in GrantId
  /\ GivenGrant(s, a.policyGrant)
  /\ EpochOK(s, policy, a.policyEpoch)
  /\ Published(s, policy, a.policyRevision)
  /\ \A i \in DOMAIN a.steps :
       /\ i \in Instance
       /\ EpochOK(s, i, a.steps[i].epoch)
       /\ EpochOK(s, accountOf(s, i), a.steps[i].accountEpoch)
       /\ GivenGrant(s, a.steps[i].grant)
       /\ Published(s, i, a.revisions[i])
IntentOK == intent # None => Captured(db, intent)

\* The policy of a resolved route is unchanged, or its revision shows the change.
Resolved(s, r) ==
  /\ exists(s, policy)
  /\ DOMAIN r.steps # {} /\ DOMAIN r.steps \subseteq Instance
  /\ r.policyRevision \in Nat /\ r.policyRevision <= s.resources[policy].configurationRevision
  /\ r.policyRevision = s.resources[policy].configurationRevision =>
       DOMAIN r.steps \subseteq s.resources[policy].data.steps
RouteOK == route # None => Resolved(db, route)

(***************************************************************************)
(* Requests.  The answer to a change of a project is that of the present   *)
(* snapshot or the revision it expected is past; other receipts are kept.  *)
(***************************************************************************)
Request == [key : Key, command : RuntimeCommand \union ProjectCommand]
receiptKept(q) == q.command.id \notin Project \/ q.command.action = "create"

Final(s, c, body) ==
  /\ s.projects[c.id].state # "absent"
  /\ c.expectedRevision <= s.projects[c.id].revision
  /\ c.expectedRevision = s.projects[c.id].revision =>
       body = projectSnapshot(s, c.id) /\ ~changesProject(s, c)

ReceiptsFinal(s) ==
  \A k \in Key :
    s.adminReceipts[k] # None /\ s.adminReceipts[k].command.action # "create" =>
      Final(s, s.adminReceipts[k].command, s.adminReceipts[k].body)

EffectIn(s, q) ==
  IF receiptKept(q) THEN receiptOf(s, q) # None /\ receiptOf(s, q).command = q.command
  ELSE q.command.expectedRevision < s.projects[q.command.id].revision

AnswerIn(s, q, body) ==
  IF receiptKept(q)
  THEN /\ receiptOf(s, q) # None
       /\ receiptOf(s, q).command = q.command /\ receiptOf(s, q).body = body
  ELSE /\ Final(s, q.command, body)
       /\ receiptOf(s, q) # None /\ receiptOf(s, q).command = q.command =>
            receiptOf(s, q).body = body

RequestsOK ==
  /\ scenario \in Scenario
  /\ sent \subseteq Request
  /\ repeated = FALSE
  /\ ReceiptsFinal(db)
  /\ effects \subseteq Request
  /\ \A q \in effects : EffectIn(db, q)
  /\ \A x \in answers : /\ x = <<x[1], x[2]>> /\ x[1] \in Request
                        /\ AnswerIn(db, x[1], x[2])
  /\ AnswersAgree

AdministrationInv == Tables(db) /\ UseOK /\ IntentOK /\ RouteOK /\ RequestsOK

(***************************************************************************)
(* Effects, before they are audited.                                       *)
(***************************************************************************)
SameAdmin(e, s) ==
  /\ e.receipts = s.receipts /\ e.projects = s.projects /\ e.access = s.access
  /\ e.adminEvents = s.adminEvents /\ e.adminReceipts = s.adminReceipts

\* The row of a resource, before and after.
RowStep(id, r, q) ==
  /\ q.exists = r.exists /\ q.revision = r.revision /\ q.data.account = r.data.account
  /\ \/ q = r
     \/ /\ q.state = r.state /\ q.epoch = r.epoch
        /\ q.configurationRevision = IF id \in Versioned THEN r.revision + 1
                                     ELSE r.configurationRevision
     \/ /\ q.configurationRevision = r.configurationRevision /\ q.data = r.data
        /\ q.epoch = IF q.state = "enabled" THEN r.epoch ELSE r.epoch + 1

\* The tables e after an effect on the resource id, before the audit.
EffectOK(id, s, e) ==
  /\ Shape(e)
  /\ SameAdmin(e, s)
  /\ e.events = s.events
  /\ e.resources \in [Resource -> ResourceRow]
  /\ \A j \in Resource \ {id} : e.resources[j] = s.resources[j]
  /\ RowStep(id, s.resources[id], e.resources[id])
  /\ s.revisions \subseteq e.revisions
  /\ e.revisions \subseteq [id : Versioned, revision : Nat, data : Data]
  /\ s.invalidated \subseteq e.invalidated
  /\ e.invalidated \subseteq [id : Versioned, revision : Nat]
  /\ e.versions \in [VersionId -> VersionRow]
  /\ e.current \in [Account -> [Purpose -> VersionId \union {None}]]
  /\ e.grants \in [GrantId -> GrantRow]
  /\ \A g \in GrantId : GrantStep(s.grants[g], e.grants[g])

\* An update is a new configuration revision of the resource and nothing else.
LEMMA UpdateEffect ==
  ASSUME NEW s, Types(s), NEW c \in Update
  PROVE  /\ EffectOK(c.id, s, effect(s, c))
         /\ effect(s, c).versions = s.versions /\ effect(s, c).current = s.current
         /\ effect(s, c).resources[c.id].state = s.resources[c.id].state
<1> DEFINE r == s.resources[c.id]
           next == r.revision + 1
           data == [r.data EXCEPT !.steps = c.steps, !.ms = c.ms]
           conf == IF c.id \in Versioned THEN next ELSE r.configurationRevision
           q == [r EXCEPT !.data = data, !.configurationRevision = conf]
           new == IF c.id \in Versioned THEN {[id |-> c.id, revision |-> next, data |-> data]}
                  ELSE {}
           e == effect(s, c)
<1>1. e = updateResource(s, c)
  BY DEF effect, Update
<1>2. c.id \in Resource
  BY DEF Update, Versioned, Resource
<1>3. updateResource(s, c) =
        [s EXCEPT !.resources[c.id] = q, !.revisions = s.revisions \union new]
  BY DEF updateResource
<1>4. r \in ResourceRow
  BY <1>2 DEF Types
<1>5. data \in Data /\ data.account = r.data.account
  BY <1>4 DEF ResourceRow, Data, Update
<1>6. conf \in Nat
  BY <1>4 DEF ResourceRow
<1>7. new \subseteq [id : Versioned, revision : Nat, data : Data]
  BY <1>4, <1>5 DEF ResourceRow
<1>8. conf = IF c.id \in Versioned THEN r.revision + 1 ELSE r.configurationRevision
  OBVIOUS
<1> HIDE DEF data, r, conf, new
<1>9. q \in ResourceRow /\ q.data = data /\ q.revision = r.revision /\ q.exists = r.exists
      /\ q.state = r.state /\ q.epoch = r.epoch /\ q.configurationRevision = conf
  BY <1>4, <1>5, <1>6 DEF ResourceRow
<1> HIDE DEF q
<1>10. RowStep(c.id, r, q)
  BY <1>5, <1>8, <1>9 DEF RowStep
<1>11. e = [s EXCEPT !.resources = [s.resources EXCEPT ![c.id] = q],
                     !.revisions = s.revisions \union new]
  BY <1>1, <1>3 DEF Types, Shape
<1>12. /\ Shape(e) /\ SameAdmin(e, s) /\ e.events = s.events
       /\ e.resources = [s.resources EXCEPT ![c.id] = q]
       /\ e.revisions = s.revisions \union new
       /\ e.invalidated = s.invalidated /\ e.versions = s.versions /\ e.current = s.current
       /\ e.grants = s.grants
  BY <1>11 DEF Types, Shape, SameAdmin
<1>13. /\ e.resources \in [Resource -> ResourceRow]
       /\ e.resources[c.id] = q
       /\ \A j \in Resource \ {c.id} : e.resources[j] = s.resources[j]
  BY <1>2, <1>9, <1>12 DEF Types
<1> HIDE DEF e
<1>14. EffectOK(c.id, s, e)
  BY <1>7, <1>10, <1>12, <1>13 DEF EffectOK, Types, GrantStep, r
<1> QED
  BY <1>9, <1>12, <1>13, <1>14 DEF e, r

\* A transition moves the state, and the epoch unless it enables.
LEMMA TransitionEffect ==
  ASSUME NEW s, Types(s), NEW c \in Transition
  PROVE  /\ EffectOK(c.id, s, effect(s, c))
         /\ effect(s, c).versions = s.versions /\ effect(s, c).current = s.current
         /\ effect(s, c).resources[c.id].state = c.state
<1> DEFINE r == s.resources[c.id]
           epoch == IF c.state = "enabled" THEN r.epoch ELSE r.epoch + 1
           q == [r EXCEPT !.state = c.state, !.epoch = epoch]
           e == effect(s, c)
<1>1. e = transitionResource(s, c)
  BY DEF effect, Transition
<1>2. c.id \in Resource /\ c.state \in ResourceState
  BY DEF Transition, Lifecycle, Resource
<1>3. transitionResource(s, c) = [s EXCEPT !.resources[c.id] = q]
  BY DEF transitionResource
<1>4. r \in ResourceRow
  BY <1>2 DEF Types
<1>5. epoch \in Nat /\ epoch = IF c.state = "enabled" THEN r.epoch ELSE r.epoch + 1
  BY <1>4 DEF ResourceRow
<1> HIDE DEF r, epoch
<1>6. q \in ResourceRow /\ q.data = r.data /\ q.revision = r.revision /\ q.exists = r.exists
      /\ q.state = c.state /\ q.epoch = epoch
      /\ q.configurationRevision = r.configurationRevision
  BY <1>2, <1>4, <1>5 DEF ResourceRow
<1> HIDE DEF q
<1>7. RowStep(c.id, r, q)
  BY <1>5, <1>6 DEF RowStep
<1>8. e = [s EXCEPT !.resources = [s.resources EXCEPT ![c.id] = q]]
  BY <1>1, <1>3 DEF Types, Shape
<1>9. /\ Shape(e) /\ SameAdmin(e, s) /\ e.events = s.events
      /\ e.resources = [s.resources EXCEPT ![c.id] = q]
      /\ e.revisions = s.revisions /\ e.invalidated = s.invalidated
      /\ e.versions = s.versions /\ e.current = s.current /\ e.grants = s.grants
  BY <1>8 DEF Types, Shape, SameAdmin
<1>10. /\ e.resources \in [Resource -> ResourceRow]
       /\ e.resources[c.id] = q
       /\ \A j \in Resource \ {c.id} : e.resources[j] = s.resources[j]
  BY <1>2, <1>6, <1>9 DEF Types
<1> HIDE DEF e
<1>11. EffectOK(c.id, s, e)
  BY <1>7, <1>9, <1>10 DEF EffectOK, Types, GrantStep, r
<1> QED
  BY <1>6, <1>9, <1>10, <1>11 DEF e

\* A rotation gives an unused version to the account and puts it in force.
LEMMA RotateEffect ==
  ASSUME NEW s, Types(s), NEW c \in Rotation, unusedVersions(s) # {}
  PROVE  LET e == effect(s, c) IN
         /\ EffectOK(c.id, s, e)
         /\ e.resources = s.resources
         /\ \E v \in VersionId :
              /\ s.versions[v].account = None
              /\ e.versions = [s.versions EXCEPT ![v] =
                   [account |-> c.id, purpose |-> c.purpose, revoked |-> FALSE,
                    readable |-> TRUE]]
              /\ e.current = [s.current EXCEPT ![c.id] =
                                [s.current[c.id] EXCEPT ![c.purpose] = v]]
<1> DEFINE v == CHOOSE x \in unusedVersions(s) : TRUE
           row == [account |-> c.id, purpose |-> c.purpose, revoked |-> FALSE, readable |-> TRUE]
           e == effect(s, c)
<1>1. e = rotateSecret(s, c)
  BY DEF effect, Rotation
<1>2. v \in VersionId /\ s.versions[v].account = None
  BY DEF unusedVersions
<1>3. c.id \in Account /\ c.purpose \in Purpose /\ row \in VersionRow
  BY DEF Rotation, VersionRow
<1>4. rotateSecret(s, c) = [s EXCEPT !.versions[v] = row, !.current[c.id][c.purpose] = v]
  BY DEF rotateSecret
<1> HIDE DEF v, row
<1>5. e = [s EXCEPT !.versions = [s.versions EXCEPT ![v] = row],
                    !.current = [s.current EXCEPT ![c.id] =
                                   [s.current[c.id] EXCEPT ![c.purpose] = v]]]
  BY <1>1, <1>4 DEF Types, Shape
<1>6. /\ Shape(e) /\ SameAdmin(e, s) /\ e.events = s.events /\ e.resources = s.resources
      /\ e.revisions = s.revisions /\ e.invalidated = s.invalidated /\ e.grants = s.grants
      /\ e.versions = [s.versions EXCEPT ![v] = row]
      /\ e.current = [s.current EXCEPT ![c.id] = [s.current[c.id] EXCEPT ![c.purpose] = v]]
  BY <1>5 DEF Types, Shape, SameAdmin
<1>7. /\ e.versions \in [VersionId -> VersionRow]
      /\ e.current \in [Account -> [Purpose -> VersionId \union {None}]]
  BY <1>2, <1>3, <1>6 DEF Types
<1> HIDE DEF e
<1>8. EffectOK(c.id, s, e)
  BY <1>6, <1>7 DEF EffectOK, Types, GrantStep, RowStep
<1> QED
  BY <1>2, <1>6, <1>8 DEF e, row

\* A revoked callback credential stays revoked and is in force no more.
LEMMA RevokeSecretEffect ==
  ASSUME NEW s, Types(s), NEW c \in Revocation, changes(s, c)
  PROVE  LET e == effect(s, c) IN
         /\ EffectOK(c.id, s, e)
         /\ e.resources = s.resources
         /\ c.version \in VersionId /\ s.versions[c.version].purpose = "callback"
         /\ s.versions[c.version].account = c.id
         /\ e.versions = [s.versions EXCEPT ![c.version] =
                            [s.versions[c.version] EXCEPT !.revoked = TRUE]]
         /\ e.current = [s.current EXCEPT ![c.id] =
              [s.current[c.id] EXCEPT !["callback"] =
                 IF s.current[c.id]["callback"] = c.version THEN None
                 ELSE s.current[c.id]["callback"]]]
<1> DEFINE v == c.version
           row == [s.versions[v] EXCEPT !.revoked = TRUE]
           after == IF s.current[c.id]["callback"] = v THEN None ELSE s.current[c.id]["callback"]
           e == effect(s, c)
<1>1. e = revokeSecret(s, c)
  BY DEF effect, Revocation
<1>2. /\ v \in VersionId /\ s.versions[v].purpose = "callback" /\ s.versions[v].account = c.id
      /\ c.id \in Account
  BY DEF changes, Revocation
<1>3. row \in VersionRow
  <2>1. s.versions[v] \in VersionRow
    BY <1>2 DEF Types
  <2> QED
    BY <2>1 DEF VersionRow
<1>4. after \in VersionId \union {None}
  BY <1>2 DEF Types, Purpose
<1>5. e = [s EXCEPT !.versions = [s.versions EXCEPT ![v] = row],
                    !.current = [s.current EXCEPT ![c.id] =
                                   [s.current[c.id] EXCEPT !["callback"] = after]]]
  BY <1>1, <1>2 DEF revokeSecret, Types, Shape
<1> HIDE DEF row, after
<1>6. /\ Shape(e) /\ SameAdmin(e, s) /\ e.events = s.events /\ e.resources = s.resources
      /\ e.revisions = s.revisions /\ e.invalidated = s.invalidated /\ e.grants = s.grants
      /\ e.versions = [s.versions EXCEPT ![v] = row]
      /\ e.current = [s.current EXCEPT ![c.id] = [s.current[c.id] EXCEPT !["callback"] = after]]
  BY <1>5 DEF Types, Shape, SameAdmin
<1>7. /\ e.versions \in [VersionId -> VersionRow]
      /\ e.current \in [Account -> [Purpose -> VersionId \union {None}]]
  <2>1. s.current[c.id] \in [Purpose -> VersionId \union {None}]
    BY <1>2 DEF Types
  <2>2. [s.current[c.id] EXCEPT !["callback"] = after] \in [Purpose -> VersionId \union {None}]
    BY <1>4, <2>1
  <2> QED
    BY <1>2, <1>3, <1>6, <2>2 DEF Types
<1> HIDE DEF e
<1>8. EffectOK(c.id, s, e)
  BY <1>6, <1>7 DEF EffectOK, Types, GrantStep, RowStep
<1> QED
  BY <1>2, <1>6, <1>8 DEF e, row, after

\* An invalidation adds to the invalidated revisions.
LEMMA InvalidateEffect ==
  ASSUME NEW s, Types(s), NEW c \in Invalidation
  PROVE  LET e == effect(s, c) IN
         /\ EffectOK(c.id, s, e)
         /\ e.resources = s.resources /\ e.versions = s.versions /\ e.current = s.current
<1> DEFINE pair == [id |-> c.id, revision |-> c.revision]
           e == effect(s, c)
<1>1. e = invalidateRevision(s, c)
  BY DEF effect, Invalidation
<1>2. pair \in [id : Versioned, revision : Nat]
  BY DEF Invalidation
<1>3. invalidateRevision(s, c) = [s EXCEPT !.invalidated = s.invalidated \union {pair}]
  BY DEF invalidateRevision, Types, Shape
<1> HIDE DEF pair
<1>4. /\ Shape(e) /\ SameAdmin(e, s) /\ e.events = s.events /\ e.resources = s.resources
      /\ e.revisions = s.revisions /\ e.invalidated = s.invalidated \union {pair}
      /\ e.versions = s.versions /\ e.current = s.current /\ e.grants = s.grants
  BY <1>1, <1>3 DEF Types, Shape, SameAdmin
<1> HIDE DEF e
<1>5. EffectOK(c.id, s, e)
  BY <1>2, <1>4 DEF EffectOK, Types, GrantStep, RowStep
<1> QED
  BY <1>4, <1>5 DEF e

\* A grant takes an unused identifier; a revocation touches active grants only.
LEMMA AssignEffect ==
  ASSUME NEW s, Types(s), NEW c \in Assignment, unusedGrants(s) # {}
  PROVE  LET e == effect(s, c) IN
         /\ EffectOK(c.id, s, e)
         /\ e.resources = s.resources /\ e.versions = s.versions /\ e.current = s.current
<1> DEFINE g == CHOOSE x \in unusedGrants(s) : TRUE
           new == [project |-> c.project, resource |-> c.id, revoked |-> FALSE]
           given == [s.grants EXCEPT ![g] = new]
           taken == [h \in GrantId |->
                       IF h \in activeGrants(s, c.project, c.id)
                       THEN [s.grants[h] EXCEPT !.revoked = TRUE] ELSE s.grants[h]]
           e == effect(s, c)
<1>1. /\ c.action = "grant" => e = addAssignment(s, c)
      /\ c.action = "revoke" => e = revokeAssignment(s, c)
  BY DEF effect, Assignment
<1>2. c.id \in Resource /\ c.project \in Project /\ c.action \in {"grant", "revoke"}
  BY DEF Assignment, Lifecycle, Resource
<1>3. /\ given \in [GrantId -> GrantRow]
      /\ \A h \in GrantId : GrantStep(s.grants[h], given[h])
  <2>1. g \in GrantId /\ s.grants[g].project = None
    BY DEF unusedGrants
  <2>2. new \in GrantRow
    BY <1>2 DEF GrantRow
  <2> HIDE DEF g, new
  <2> QED
    BY <2>1, <2>2 DEF Types, GrantStep
<1>4. /\ taken \in [GrantId -> GrantRow]
      /\ \A h \in GrantId : GrantStep(s.grants[h], taken[h])
  <2>1. ASSUME NEW h \in GrantId
        PROVE  taken[h] \in GrantRow /\ GrantStep(s.grants[h], taken[h])
    BY DEF Types, GrantRow, GrantStep
  <2>2. taken = [h \in GrantId |-> taken[h]]
    OBVIOUS
  <2> HIDE DEF taken
  <2> QED
    BY <2>1, <2>2
<1>5. /\ c.action = "grant" => e = [s EXCEPT !.grants = given]
      /\ c.action = "revoke" => e = [s EXCEPT !.grants = taken]
  BY <1>1 DEF addAssignment, revokeAssignment, Types, Shape
<1>6. ASSUME NEW grants \in [GrantId -> GrantRow],
             \A h \in GrantId : GrantStep(s.grants[h], grants[h]),
             e = [s EXCEPT !.grants = grants]
      PROVE  /\ EffectOK(c.id, s, e)
             /\ e.resources = s.resources /\ e.versions = s.versions /\ e.current = s.current
  <2>1. /\ Shape(e) /\ SameAdmin(e, s) /\ e.events = s.events /\ e.resources = s.resources
        /\ e.revisions = s.revisions /\ e.invalidated = s.invalidated
        /\ e.versions = s.versions /\ e.current = s.current /\ e.grants = grants
    BY <1>6 DEF Types, Shape, SameAdmin
  <2> HIDE DEF e
  <2> QED
    BY <1>6, <2>1 DEF EffectOK, Types, RowStep
<1> HIDE DEF given, taken, e
<1> QED
  BY <1>2, <1>3, <1>4, <1>5, <1>6 DEF e

(***************************************************************************)
(* The audited change.                                                     *)
(***************************************************************************)
LEMMA LogAppend ==
  ASSUME NEW log, NEW n \in Nat, Log(log, n),
         NEW event \in AuditEvent, event.revision = n + 1
  PROVE  Log(Append(log, event), n + 1) /\ Append(log, event) # log
<1>1. log \in Seq(AuditEvent) /\ Len(log) = n /\ \A m \in 1 .. n : log[m].revision = m
  BY DEF Log, numbered
<1>2. /\ Append(log, event) \in Seq(AuditEvent) /\ Len(Append(log, event)) = n + 1
      /\ \A m \in 1 .. n : Append(log, event)[m] = log[m]
      /\ Append(log, event)[n + 1] = event
  BY <1>1
<1> QED
  BY <1>1, <1>2 DEF Log, numbered

\* What a runtime command leaves of projects, and of all audit logs but one.
SameProjects(t, s) ==
  /\ t.projects = s.projects /\ t.access = s.access
  /\ t.adminEvents = s.adminEvents /\ t.adminReceipts = s.adminReceipts

\* The tables t after the effect e on the resource id was audited.
AuditedOK(id, s, e, t) ==
  /\ Types(t) /\ SameProjects(t, s) /\ t.receipts = s.receipts
  /\ \A j \in Resource : ResourceOK(t, j)
  /\ \A j \in Resource : RowMoved(j, s.resources[j], t.resources[j])
  /\ \A j \in Resource : t.resources[j].state = e.resources[j].state
  /\ t.revisions = e.revisions /\ t.invalidated = e.invalidated
  /\ t.versions = e.versions /\ t.current = e.current /\ t.grants = e.grants
  /\ t.events # s.events

\* The audit adds the next revision to the row and to its log.
LEMMA AuditedForm ==
  ASSUME NEW s, Tables(s), NEW id \in Resource, exists(s, id), NEW e, EffectOK(id, s, e),
         NEW actor \in Actor, NEW c, c.id = id, c.action \in RuntimeAction
  PROVE  AuditedOK(id, s, e, audited(e, actor, c))
<1> DEFINE r == s.resources[id]
           row == e.resources[id]
           next == row.revision + 1
           q == [row EXCEPT !.revision = next]
           event == [revision |-> next, actor |-> actor, action |-> c.action]
           log == Append(s.events[id], event)
           t == audited(e, actor, c)
<1>1. /\ r \in ResourceRow /\ Log(s.events[id], r.revision)
      /\ r.configurationRevision <= r.revision /\ r.exists
      /\ id \in Instance => r.data.account \in Account
  BY DEF Tables, ResourceOK, exists
<1>2. row \in ResourceRow /\ RowStep(id, r, row) /\ e.events = s.events
  BY DEF EffectOK
<1>3. row.revision = r.revision /\ row.revision \in Nat /\ next \in Nat
      /\ event \in AuditEvent /\ event.revision = r.revision + 1 /\ r.revision \in Nat
  BY <1>1, <1>2 DEF RowStep, ResourceRow, AuditEvent
<1>4. Log(log, r.revision + 1) /\ log # s.events[id]
  BY <1>1, <1>3, LogAppend
<1>5. t = [e EXCEPT !.resources = [e.resources EXCEPT ![id] = q],
                    !.events = [s.events EXCEPT ![id] = log]]
  BY <1>2 DEF audited, EffectOK, Shape
<1>6. next = r.revision + 1
  BY <1>3
<1> HIDE DEF next, event, log, row, r
<1>7. /\ q \in ResourceRow /\ q.exists = row.exists /\ q.revision = next
      /\ q.configurationRevision = row.configurationRevision /\ q.epoch = row.epoch
      /\ q.state = row.state /\ q.data = row.data
  BY <1>2, <1>3 DEF ResourceRow
<1> HIDE DEF q
<1>8. /\ Shape(t) /\ SameProjects(t, s) /\ t.receipts = s.receipts
      /\ t.resources = [e.resources EXCEPT ![id] = q]
      /\ t.events = [s.events EXCEPT ![id] = log]
      /\ t.revisions = e.revisions /\ t.invalidated = e.invalidated
      /\ t.versions = e.versions /\ t.current = e.current /\ t.grants = e.grants
  BY <1>5 DEF EffectOK, Shape, SameAdmin, SameProjects
<1> HIDE DEF t
<1>9. /\ t.resources \in [Resource -> ResourceRow] /\ t.resources[id] = q
      /\ \A j \in Resource \ {id} : t.resources[j] = s.resources[j]
  BY <1>7, <1>8 DEF EffectOK
<1>10. /\ t.events \in [Resource -> Seq(AuditEvent)] /\ t.events[id] = log
       /\ \A j \in Resource \ {id} : t.events[j] = s.events[j]
       /\ t.events # s.events
  BY <1>4, <1>8 DEF Tables, Types, Log
<1>11. Types(t)
  BY <1>8, <1>9, <1>10 DEF Types, Tables, EffectOK, SameProjects
<1>12. ASSUME NEW j \in Resource PROVE ResourceOK(t, j)
  <2>1. CASE j = id
    <3>1. q.configurationRevision <= q.revision
      BY <1>1, <1>2, <1>3, <1>6, <1>7 DEF RowStep, ResourceRow
    <3>2. q.exists /\ (j \in Instance => q.data.account \in Account)
      BY <1>1, <1>2, <1>7, <2>1 DEF RowStep
    <3> QED
      BY <1>4, <1>6, <1>7, <1>9, <1>10, <2>1, <3>1, <3>2 DEF ResourceOK
  <2>2. CASE j # id
    BY <1>9, <1>10, <2>2 DEF Tables, ResourceOK
  <2> QED
    BY <2>1, <2>2
<1>13. ASSUME NEW j \in Resource PROVE RowMoved(j, s.resources[j], t.resources[j])
  <2>1. CASE j = id
    <3>1. RowMoved(id, r, q)
      BY <1>1, <1>2, <1>3, <1>6, <1>7 DEF RowStep, ResourceRow, RowMoved, Versioned
    <3> QED
      BY <1>9, <2>1, <3>1 DEF r
  <2>2. CASE j # id
    <3>1. s.resources[j] \in ResourceRow
      BY DEF Tables, Types
    <3> QED
      BY <1>9, <2>2, <3>1 DEF RowMoved, ResourceRow
  <2> QED
    BY <2>1, <2>2
<1>14. \A j \in Resource : t.resources[j].state = e.resources[j].state
  BY <1>7, <1>9 DEF EffectOK, row
<1> QED
  BY <1>8, <1>10, <1>11, <1>12, <1>13, <1>14 DEF AuditedOK, t

(***************************************************************************)
(* Credentials.                                                            *)
(***************************************************************************)
\* What a command does to the states of accounts.
StatesMove(s, t) ==
  \A a \in Account :
    /\ s.resources[a].state = "retired" => t.resources[a].state = "retired"
    /\ t.resources[a].state = "enabled" =>
         s.resources[a].state = "enabled" \/ s.current[a]["send"] # None

\* A step of administrators, as far as credentials are concerned.
SecretStep(s, t) ==
  /\ Secrets(t)
  /\ \A v \in VersionId : VersionMoved(s.versions[v], t.versions[v])
  /\ NothingErased(s, t)

\* What leaves the credentials alone, and enables no account without one, keeps
\* them in order.
LEMMA SecretsKept ==
  ASSUME NEW s, Secrets(s), NEW t, StatesMove(s, t),
         t.versions = s.versions, t.current = s.current
  PROVE  SecretStep(s, t)
<1>1. \A a \in Account, p \in Purpose : CurrentOK(t, a, p, t.current[a][p])
  BY DEF Secrets, StatesMove, CurrentOK, readable
<1>2. \A a \in Account : t.resources[a].state = "enabled" => t.current[a]["send"] # None
  BY DEF Secrets, StatesMove
<1>3. /\ \A v \in VersionId : VersionMoved(s.versions[v], t.versions[v])
      /\ NothingErased(s, t)
  BY DEF VersionMoved, NothingErased
<1> QED
  BY <1>1, <1>2, <1>3 DEF Secrets, SecretStep

\* A rotation brings a readable credential into force.
LEMMA SecretsRotated ==
  ASSUME NEW s, Types(s), Secrets(s), NEW t,
         \A a \in Account : t.resources[a].state = s.resources[a].state,
         NEW b \in Account, NEW purpose \in Purpose, s.resources[b].state # "retired",
         NEW v \in VersionId, s.versions[v].account = None,
         t.versions = [s.versions EXCEPT ![v] =
           [account |-> b, purpose |-> purpose, revoked |-> FALSE, readable |-> TRUE]],
         t.current = [s.current EXCEPT ![b] = [s.current[b] EXCEPT ![purpose] = v]]
  PROVE  SecretStep(s, t)
<1>1. v # None /\ b # None
  BY ResourcesAssumption
<1>2. /\ \A w \in VersionId \ {v} : t.versions[w] = s.versions[w]
      /\ t.versions[v].account = b /\ t.versions[v].purpose = purpose
      /\ ~t.versions[v].revoked /\ t.versions[v].readable
  BY DEF Types
<1>3. \A a \in Account, p \in Purpose :
        t.current[a][p] = IF a = b /\ p = purpose THEN v ELSE s.current[a][p]
  BY DEF Types
<1>4. \A x \in VersionId : VersionMoved(s.versions[x], t.versions[x])
  BY <1>2 DEF VersionMoved
<1>5. NothingErased(s, t)
  <2>1. \A a \in Account :
          \/ t.current[a]["callback"] = v
          \/ t.current[a]["callback"] = s.current[a]["callback"]
    BY <1>3 DEF Purpose
  <2> QED
    BY <1>2, <2>1 DEF NothingErased
<1>6. ASSUME NEW a \in Account, NEW p \in Purpose PROVE CurrentOK(t, a, p, t.current[a][p])
  <2>1. CASE a = b /\ p = purpose
    BY <1>2, <1>3, <2>1 DEF CurrentOK
  <2>2. CASE ~(a = b /\ p = purpose)
    <3> DEFINE x == s.current[a][p]
    <3>1. t.current[a][p] = x /\ CurrentOK(s, a, p, x) /\ x \in VersionId \union {None}
      BY <1>3, <2>2 DEF Secrets, Types
    <3> HIDE DEF x
    <3>2. SUFFICES ASSUME x # None PROVE CurrentOK(t, a, p, x)
      BY <3>1 DEF CurrentOK
    <3>3. x # v
      BY <1>1, <3>1, <3>2, ResourcesAssumption DEF CurrentOK
    <3>4. t.versions[x] = s.versions[x]
      BY <1>2, <3>1, <3>2, <3>3
    <3>5. ~s.versions[x].readable => a # b
      BY <3>1, <3>2 DEF CurrentOK
    <3> QED
      BY <1>2, <3>1, <3>2, <3>4, <3>5 DEF CurrentOK, readable
  <2> QED
    BY <2>1, <2>2
<1>7. ASSUME NEW a \in Account, t.resources[a].state = "enabled"
      PROVE  t.current[a]["send"] # None
  BY <1>1, <1>3, <1>7 DEF Secrets, Purpose
<1>8. ASSUME NEW x \in VersionId, t.versions[x].account = None
      PROVE  ~t.versions[x].readable /\ ~t.versions[x].revoked
  BY <1>1, <1>2, <1>8 DEF Secrets
<1> QED
  BY <1>4, <1>5, <1>6, <1>7, <1>8 DEF SecretStep, Secrets

\* A revocation leaves no revoked credential in force.
LEMMA SecretsRevoked ==
  ASSUME NEW s, Types(s), Secrets(s), NEW t,
         \A a \in Account : t.resources[a].state = s.resources[a].state,
         NEW b \in Account,
         NEW v \in VersionId, s.versions[v].account = b, s.versions[v].purpose = "callback",
         t.versions = [s.versions EXCEPT ![v] = [s.versions[v] EXCEPT !.revoked = TRUE]],
         t.current = [s.current EXCEPT ![b] = [s.current[b] EXCEPT !["callback"] =
           IF s.current[b]["callback"] = v THEN None ELSE s.current[b]["callback"]]]
  PROVE  SecretStep(s, t)
<1>1. v # None /\ b # None
  BY ResourcesAssumption
<1>2. /\ \A w \in VersionId \ {v} : t.versions[w] = s.versions[w]
      /\ t.versions[v].account = b /\ t.versions[v].purpose = "callback"
      /\ t.versions[v].revoked /\ t.versions[v].readable = s.versions[v].readable
  <2>1. s.versions[v] \in VersionRow
    BY DEF Types
  <2> QED
    BY <2>1 DEF Types, VersionRow
<1>3. \A a \in Account, p \in Purpose :
        t.current[a][p] = IF a = b /\ p = "callback" /\ s.current[b]["callback"] = v THEN None
                          ELSE s.current[a][p]
  <2>1. s.current[b] \in [Purpose -> VersionId \union {None}] /\ "callback" \in Purpose
    BY DEF Types, Purpose
  <2> QED
    BY <2>1 DEF Types
<1>4. \A x \in VersionId : VersionMoved(s.versions[x], t.versions[x])
  BY <1>2 DEF VersionMoved
<1>5. NothingErased(s, t)
  <2>1. \A x \in VersionId : s.versions[x].readable => t.versions[x].readable
    BY <1>2
  <2>2. \A a \in Account : t.current[a]["callback"] \in {None, s.current[a]["callback"]}
    BY <1>3 DEF Purpose
  <2> QED
    BY <2>1, <2>2 DEF NothingErased
<1>6. ASSUME NEW a \in Account, NEW p \in Purpose PROVE CurrentOK(t, a, p, t.current[a][p])
  <2> DEFINE x == s.current[a][p]
  <2>1. CurrentOK(s, a, p, x) /\ x \in VersionId \union {None}
    BY DEF Secrets, Types
  <2>2. t.current[a][p] \in {None, x} /\ (x = v => t.current[a][p] = None)
    BY <1>1, <1>3, <2>1 DEF CurrentOK
  <2> HIDE DEF x
  <2>3. SUFFICES ASSUME x # None, x # v PROVE CurrentOK(t, a, p, x)
    BY <2>2 DEF CurrentOK
  <2>4. t.versions[x] = s.versions[x]
    BY <1>2, <2>1, <2>3
  <2> QED
    BY <1>2, <2>1, <2>3, <2>4 DEF CurrentOK, readable
<1>7. ASSUME NEW a \in Account, t.resources[a].state = "enabled"
      PROVE  t.current[a]["send"] # None
  BY <1>3, <1>7 DEF Secrets, Purpose
<1>8. ASSUME NEW x \in VersionId, t.versions[x].account = None
      PROVE  ~t.versions[x].readable /\ ~t.versions[x].revoked
  BY <1>1, <1>2, <1>8 DEF Secrets
<1> QED
  BY <1>4, <1>5, <1>6, <1>7, <1>8 DEF SecretStep, Secrets

(***************************************************************************)
(* The whole change.                                                       *)
(***************************************************************************)
\* A step of runtime administration.
RuntimeStep(s, t) ==
  /\ Tables(t) /\ SameProjects(t, s)
  /\ Moved(s, t) /\ NothingErased(s, t)

\* A project is as it was when its row and its access are.
LEMMA StaysUnmoved ==
  ASSUME NEW s, NEW t, NEW p \in Project, t.projects[p] = s.projects[p],
         \A g \in GrantId : \/ t.access[g] = s.access[g]
                            \/ s.access[g].project # p /\ t.access[g].project # p
  PROVE  Unmoved(s, t, p)
<1>1. {g \in GrantId : t.access[g].project = p /\ ~t.access[g].revoked}
        = {g \in GrantId : s.access[g].project = p /\ ~s.access[g].revoked}
  OBVIOUS
<1>2. ASSUME NEW who PROVE accessGrants(t, p, who) = accessGrants(s, p, who)
  BY DEF accessGrants
<1> QED
  BY <1>1, <1>2 DEF Unmoved, projectSnapshot

\* Runtime administration moves no project.
LEMMA ProjectsStand ==
  ASSUME NEW s, Tables(s), NEW t, SameProjects(t, s)
  PROVE  /\ \A p \in Project : ProjectOK(t, p)
         /\ \A p \in Project : ProjectMoved(s, t, p)
         /\ \A g \in GrantId : t.access[g].revoked => t.access[g].project # None
         /\ \A g \in GrantId : s.access[g].revoked => t.access[g].revoked
<1>1. \A p \in Project : ProjectOK(t, p)
  BY DEF Tables, SameProjects, ProjectOK
<1>2. ASSUME NEW p \in Project PROVE ProjectMoved(s, t, p)
  <2>1. t.projects[p] = s.projects[p] /\ t.access = s.access /\ s.projects[p] \in ProjectRow
    BY DEF Tables, Types, SameProjects
  <2>2. Unmoved(s, t, p)
    BY <2>1, StaysUnmoved
  <2> QED
    BY <2>1, <2>2 DEF ProjectMoved, ProjectRow
<1> QED
  BY <1>1, <1>2 DEF Tables, SameProjects

\* A change of a resource keeps the tables in order and moves them forward.
LEMMA ChangeIsStep ==
  ASSUME NEW s, Tables(s), NEW id \in Resource, NEW e, EffectOK(id, s, e),
         NEW t, AuditedOK(id, s, e, t), SecretStep(s, t)
  PROVE  RuntimeStep(s, t)
<1>1. SameProjects(t, s)
  BY DEF AuditedOK
<1>2. Tables(t)
  BY <1>1, ProjectsStand DEF Tables, AuditedOK, SecretStep
<1>3. Moved(s, t)
  BY <1>1, ProjectsStand DEF Moved, AuditedOK, EffectOK, SecretStep
<1> QED
  BY <1>1, <1>2, <1>3 DEF RuntimeStep, SecretStep

\* The kind of a command follows from its action.
LEMMA CommandShape ==
  ASSUME NEW c \in RuntimeCommand
  PROVE  /\ c.id \in Resource /\ c.action \in RuntimeAction /\ c.expectedRevision \in Nat
         /\ c.action = "create" => c \in Creation
         /\ c.action # "create" =>
              \/ c \in Update \/ c \in Transition \/ c \in Rotation \/ c \in Revocation
              \/ c \in Invalidation \/ c \in Assignment
<1> DEFINE Common == c.id \in Resource /\ c.expectedRevision \in Nat
           Is(action) == c.action = action
<1>1. \/ c \in Creation \/ c \in Update \/ c \in Transition \/ c \in Rotation
      \/ c \in Revocation \/ c \in Invalidation \/ c \in Assignment
  BY DEF RuntimeCommand
<1>2. c \in Creation => Common /\ Is("create")
  BY DEF Creation
<1>3. c \in Update => Common /\ Is("update")
  BY DEF Update, Versioned, Resource
<1>4. c \in Transition => Common /\ Is("lifecycle")
  BY DEF Transition, Lifecycle, Resource
<1>5. c \in Rotation => Common /\ Is("rotate")
  BY DEF Rotation, Resource
<1>6. c \in Revocation => Common /\ Is("revoke-secret")
  BY DEF Revocation, Resource
<1>7. c \in Invalidation => Common /\ Is("invalidate")
  BY DEF Invalidation, Versioned, Resource
<1>8. c \in Assignment => Common /\ (Is("grant") \/ Is("revoke"))
  BY DEF Assignment, Lifecycle, Resource
<1> QED
  BY <1>1, <1>2, <1>3, <1>4, <1>5, <1>6, <1>7, <1>8 DEF RuntimeAction

\* Every accepted command of runtime administration is such a change.
LEMMA ChangeStep ==
  ASSUME NEW s, Tables(s), NEW c \in RuntimeCommand, c.action # "create",
         mayChange(s, c), changes(s, c), unusedVersions(s) # {}, unusedGrants(s) # {},
         NEW actor \in Actor
  PROVE  LET t == audited(effect(s, c), actor, c)
         IN RuntimeStep(s, t) /\ t.receipts = s.receipts /\ t.events # s.events
<1> DEFINE e == effect(s, c)
           t == audited(e, actor, c)
           Same == e.versions = s.versions /\ e.current = s.current
<1>1. /\ c \in Update \/ c \in Transition \/ c \in Rotation \/ c \in Revocation
           \/ c \in Invalidation \/ c \in Assignment
      /\ c.id \in Resource /\ c.action \in RuntimeAction
  BY CommandShape
<1>2. exists(s, c.id) /\ Types(s) /\ Secrets(s)
  BY DEF mayChange, Tables
<1> HIDE DEF e, t
<1>3. ASSUME EffectOK(c.id, s, e) PROVE AuditedOK(c.id, s, e, t)
  BY <1>1, <1>2, <1>3, AuditedForm DEF t
<1>4. Account \subseteq Resource
  BY DEF Resource
<1>5. ASSUME EffectOK(c.id, s, e), Same, e.resources[c.id].state = s.resources[c.id].state
      PROVE  SecretStep(s, t)
  <2>1. StatesMove(s, t)
    BY <1>3, <1>4, <1>5 DEF AuditedOK, EffectOK, StatesMove
  <2> QED
    BY <1>2, <1>3, <1>5, <2>1, SecretsKept DEF AuditedOK
<1>6. EffectOK(c.id, s, e) /\ SecretStep(s, t)
  <2>1. CASE c \in Update
    BY <1>2, <1>5, <2>1, UpdateEffect DEF e
  <2>2. CASE c \in Transition
    <3>1. EffectOK(c.id, s, e) /\ Same /\ e.resources[c.id].state = c.state
      BY <1>2, <2>2, TransitionEffect DEF e
    <3>2. c.id \notin Scope /\ c.action = "lifecycle"
      BY <2>2, ResourcesAssumption DEF Transition, Lifecycle
    <3>3. /\ s.resources[c.id].state # "retired"
          /\ c.state = "enabled" /\ c.id \in Account => s.current[c.id]["send"] # None
      BY <3>2 DEF mayChange, permits, changes, state, validateEnable
    <3>4. StatesMove(s, t)
      BY <1>3, <1>4, <3>1, <3>3 DEF AuditedOK, EffectOK, StatesMove
    <3> QED
      BY <1>2, <1>3, <3>1, <3>4, SecretsKept DEF AuditedOK
  <2>3. CASE c \in Rotation
    <3>1. EffectOK(c.id, s, e) /\ e.resources = s.resources
      BY <1>2, <2>3, RotateEffect DEF e
    <3>2. PICK v \in VersionId :
            /\ s.versions[v].account = None
            /\ e.versions = [s.versions EXCEPT ![v] =
                 [account |-> c.id, purpose |-> c.purpose, revoked |-> FALSE,
                  readable |-> TRUE]]
            /\ e.current = [s.current EXCEPT ![c.id] =
                              [s.current[c.id] EXCEPT ![c.purpose] = v]]
      BY <1>2, <2>3, RotateEffect DEF e
    <3>3. /\ c.id \in Account /\ c.purpose \in Purpose /\ c.action = "rotate"
          /\ c.id \notin Scope
      BY <2>3, ResourcesAssumption DEF Rotation
    <3>4. s.resources[c.id].state # "retired"
      BY <3>3 DEF mayChange, permits, state
    <3>5. /\ \A a \in Account : t.resources[a].state = s.resources[a].state
          /\ t.versions = e.versions /\ t.current = e.current
      BY <1>3, <1>4, <3>1 DEF AuditedOK
    <3> QED
      BY <1>2, <3>1, <3>2, <3>3, <3>4, <3>5, SecretsRotated
  <2>4. CASE c \in Revocation
    <3>1. /\ EffectOK(c.id, s, e) /\ e.resources = s.resources
          /\ c.version \in VersionId /\ s.versions[c.version].purpose = "callback"
          /\ s.versions[c.version].account = c.id
          /\ e.versions = [s.versions EXCEPT ![c.version] =
                             [s.versions[c.version] EXCEPT !.revoked = TRUE]]
          /\ e.current = [s.current EXCEPT ![c.id] =
               [s.current[c.id] EXCEPT !["callback"] =
                  IF s.current[c.id]["callback"] = c.version THEN None
                  ELSE s.current[c.id]["callback"]]]
      BY <1>2, <2>4, RevokeSecretEffect DEF e
    <3>2. c.id \in Account
      BY <2>4 DEF Revocation
    <3>3. /\ \A a \in Account : t.resources[a].state = s.resources[a].state
          /\ t.versions = e.versions /\ t.current = e.current
      BY <1>3, <1>4, <3>1 DEF AuditedOK
    <3> QED
      BY <1>2, <3>1, <3>2, <3>3, SecretsRevoked
  <2>5. CASE c \in Invalidation
    BY <1>2, <1>5, <2>5, InvalidateEffect DEF e
  <2>6. CASE c \in Assignment
    BY <1>2, <1>5, <2>6, AssignEffect DEF e
  <2> QED
    BY <1>1, <2>1, <2>2, <2>3, <2>4, <2>5, <2>6
<1>7. RuntimeStep(s, t)
  BY <1>1, <1>3, <1>6, ChangeIsStep
<1> QED
  BY <1>3, <1>6, <1>7 DEF AuditedOK, e, t

(***************************************************************************)
(* Steps compose.                                                          *)
(***************************************************************************)
LEMMA MovedAgain ==
  ASSUME NEW s, Types(s), NEW t, Types(t), NEW u, Types(u),
         Moved(s, t), NothingErased(s, t), Moved(t, u), NothingErased(t, u)
  PROVE  Moved(s, u) /\ NothingErased(s, u)
<1>1. ASSUME NEW id \in Resource PROVE RowMoved(id, s.resources[id], u.resources[id])
  <2>1. /\ s.resources[id] \in ResourceRow /\ t.resources[id] \in ResourceRow
        /\ u.resources[id] \in ResourceRow
        /\ RowMoved(id, s.resources[id], t.resources[id])
        /\ RowMoved(id, t.resources[id], u.resources[id])
    BY DEF Types, Moved
  <2> QED
    BY <2>1 DEF RowMoved, ResourceRow
<1>2. \A g \in GrantId : GrantStep(s.grants[g], u.grants[g])
  BY DEF Moved, GrantStep
<1>3. \A v \in VersionId : VersionMoved(s.versions[v], u.versions[v])
  BY DEF Moved, VersionMoved
<1>4. ASSUME NEW p \in Project PROVE ProjectMoved(s, u, p)
  <2>1. /\ s.projects[p] \in ProjectRow /\ t.projects[p] \in ProjectRow
        /\ u.projects[p] \in ProjectRow
        /\ ProjectMoved(s, t, p) /\ ProjectMoved(t, u, p)
    BY DEF Types, Moved
  <2> QED
    BY <2>1 DEF ProjectMoved, Unmoved, ProjectRow
<1>5. Moved(s, u)
  BY <1>1, <1>2, <1>3, <1>4 DEF Moved
<1>6. ASSUME NEW a \in Account
      PROVE  \/ u.current[a]["callback"] \in {None, s.current[a]["callback"]}
             \/ u.versions[u.current[a]["callback"]].readable
  <2>1. t.current[a]["callback"] \in VersionId \union {None}
    BY DEF Types, Purpose
  <2> QED
    BY <2>1 DEF NothingErased
<1> QED
  BY <1>5, <1>6 DEF NothingErased

(***************************************************************************)
(* Creations.                                                              *)
(***************************************************************************)
\* A resource that was not there is there, at revision 1.
InsertOK(id, s, t) ==
  /\ RuntimeStep(s, t)
  /\ t.receipts = s.receipts
  /\ t.events[id] # s.events[id]
  /\ \A j \in Resource \ {id} :
       t.resources[j] = s.resources[j] /\ t.events[j] = s.events[j]

\* A new resource starts with revision 1 and its event.
LEMMA InsertStep ==
  ASSUME NEW s, Tables(s), NEW id \in Resource, ~exists(s, id),
         NEW data \in Data, id \in Instance => data.account \in Account, NEW actor \in Actor
  PROVE  InsertOK(id, s, insertResource(s, actor, id, data))
<1> DEFINE q == [exists |-> TRUE, revision |-> 1, configurationRevision |-> 1, epoch |-> 1,
                 state |-> "disabled", data |-> data]
           new == IF id \in Versioned THEN {[id |-> id, revision |-> 1, data |-> data]} ELSE {}
           event == [revision |-> 1, actor |-> actor, action |-> "create"]
           log == Append(s.events[id], event)
           t == insertResource(s, actor, id, data)
           r == s.resources[id]
<1>1. /\ Types(s) /\ Secrets(s) /\ r \in ResourceRow /\ Log(s.events[id], r.revision)
      /\ r.revision = 0 /\ r.epoch = 1 /\ r.state = "disabled" /\ ~r.exists
      /\ r.configurationRevision <= r.revision
  BY DEF Tables, ResourceOK, exists
<1>2. event \in AuditEvent
  BY DEF AuditEvent, RuntimeAction
<1>3. Log(log, 1) /\ log # s.events[id]
  BY <1>1, <1>2, LogAppend
<1>4. /\ q \in ResourceRow /\ q.revision = 1 /\ q.configurationRevision = 1 /\ q.exists
      /\ q.epoch = 1 /\ q.state = "disabled" /\ q.data = data
  BY DEF ResourceRow, ResourceState
<1>5. new \subseteq [id : Versioned, revision : Nat, data : Data]
  OBVIOUS
<1>6. t = [s EXCEPT !.resources = [s.resources EXCEPT ![id] = q],
                    !.revisions = s.revisions \union new,
                    !.events = [s.events EXCEPT ![id] = log]]
  BY <1>1 DEF insertResource, Types, Shape
<1>7. RowMoved(id, r, q)
  BY <1>1, <1>4 DEF RowMoved, ResourceRow
<1> HIDE DEF q, new, event, log, r
<1>8. /\ Shape(t) /\ SameProjects(t, s) /\ t.receipts = s.receipts
      /\ t.resources = [s.resources EXCEPT ![id] = q]
      /\ t.events = [s.events EXCEPT ![id] = log]
      /\ t.revisions = s.revisions \union new /\ t.invalidated = s.invalidated
      /\ t.versions = s.versions /\ t.current = s.current /\ t.grants = s.grants
  BY <1>1, <1>6 DEF Types, Shape, SameProjects
<1> HIDE DEF t
<1>9. /\ t.resources \in [Resource -> ResourceRow] /\ t.resources[id] = q
      /\ t.events \in [Resource -> Seq(AuditEvent)] /\ t.events[id] = log
      /\ \A j \in Resource \ {id} :
           t.resources[j] = s.resources[j] /\ t.events[j] = s.events[j]
  BY <1>1, <1>3, <1>4, <1>8 DEF Types, Log
<1>10. Types(t)
  BY <1>1, <1>5, <1>8, <1>9 DEF Types, SameProjects
<1>11. ASSUME NEW j \in Resource
       PROVE  ResourceOK(t, j) /\ RowMoved(j, s.resources[j], t.resources[j])
  <2>1. CASE j = id
    BY <1>3, <1>4, <1>7, <1>9, <2>1 DEF ResourceOK, r
  <2>2. CASE j # id
    BY <1>9, <2>2 DEF Tables, ResourceOK, RowMoved, ResourceRow
  <2> QED
    BY <2>1, <2>2
<1>12. StatesMove(s, t)
  BY <1>1, <1>4, <1>9 DEF StatesMove, Resource, r
<1>13. SecretStep(s, t)
  BY <1>1, <1>8, <1>12, SecretsKept
<1>14. Tables(t)
  BY <1>8, <1>10, <1>11, <1>13, ProjectsStand DEF Tables, SecretStep
<1>15. Moved(s, t)
  BY <1>8, <1>11, <1>13, ProjectsStand DEF Moved, SecretStep, GrantStep
<1> QED
  BY <1>3, <1>8, <1>9, <1>13, <1>14, <1>15 DEF RuntimeStep, SecretStep, InsertOK, t

\* A creation inserts the resource and the first instance of an account.
LEMMA CreateStep ==
  ASSUME NEW s, Tables(s), NEW c \in Creation, mayCreate(s, c), NEW actor \in Actor
  PROVE  LET t == createResource(s, actor, c)
         IN RuntimeStep(s, t) /\ t.receipts = s.receipts /\ t.events # s.events
<1> DEFINE t == insertResource(s, actor, c.id, c.data)
           first == CHOOSE x \in c.first : TRUE
           u == insertResource(t, actor, first.id, firstData(c, first))
<1>1. /\ c.id \in Resource /\ c.data \in Data /\ c.first \subseteq First
      /\ (c.id \in Instance) <=> (c.data.account # None)
      /\ c.first # {} => c.id \in Account
  BY DEF Creation
<1>2. c.id \in Instance => c.data.account \in Account
  BY <1>1 DEF Data
<1>3. ~exists(s, c.id)
  BY DEF mayCreate
<1>4. /\ RuntimeStep(s, t) /\ t.receipts = s.receipts /\ t.events[c.id] # s.events[c.id]
      /\ \A j \in Resource \ {c.id} :
           t.resources[j] = s.resources[j] /\ t.events[j] = s.events[j]
  <2>1. InsertOK(c.id, s, t)
    BY <1>1, <1>2, <1>3, InsertStep
  <2> QED
    BY <2>1 DEF InsertOK
<1>5. createResource(s, actor, c) = IF c.first = {} THEN t ELSE u
  BY DEF createResource
<1> HIDE DEF t, u
<1>6. ASSUME c.first # {}
      PROVE  RuntimeStep(s, u) /\ u.receipts = s.receipts /\ u.events[c.id] # s.events[c.id]
  <2>1. first \in c.first /\ first \in First /\ c.id \in Account
    BY <1>1, <1>6
  <2> HIDE DEF first
  <2>2. first.id \in Instance /\ first.id \in Resource /\ first.id # c.id
    BY <2>1, ResourcesAssumption DEF First, Resource
  <2>3. /\ firstData(c, first) \in Data /\ firstData(c, first).account = c.id
    BY <2>1 DEF firstData, Data, First
  <2>4. ~exists(s, first.id)
    BY <2>1 DEF mayCreate
  <2>5. ~exists(t, first.id)
    BY <1>4, <2>2, <2>4 DEF exists
  <2>6. Tables(t)
    BY <1>4 DEF RuntimeStep
  <2>7. /\ RuntimeStep(t, u) /\ u.receipts = t.receipts
        /\ \A j \in Resource \ {first.id} : u.events[j] = t.events[j]
    <3>1. InsertOK(first.id, t, u)
      BY <2>1, <2>2, <2>3, <2>5, <2>6, InsertStep DEF u, first
    <3> QED
      BY <3>1 DEF InsertOK
  <2>8. u.events[c.id] = t.events[c.id]
    BY <1>1, <2>2, <2>7
  <2>9. SameProjects(u, s)
    BY <1>4, <2>7 DEF RuntimeStep, SameProjects
  <2>10. Moved(s, u) /\ NothingErased(s, u)
    BY <1>4, <2>6, <2>7, MovedAgain DEF RuntimeStep, Tables
  <2> QED
    BY <1>4, <2>7, <2>8, <2>9, <2>10 DEF RuntimeStep
<1> QED
  BY <1>4, <1>5, <1>6

(***************************************************************************)
(* The transaction of runtime administration, whatever comes of it.        *)
(***************************************************************************)
LEMMA NothingMoved ==
  ASSUME NEW s, Tables(s)
  PROVE  Moved(s, s) /\ NothingErased(s, s)
<1>1. ASSUME NEW id \in Resource PROVE RowMoved(id, s.resources[id], s.resources[id])
  BY DEF Tables, ResourceOK, RowMoved, ResourceRow
<1>2. ASSUME NEW p \in Project PROVE ProjectMoved(s, s, p)
  BY DEF Tables, ProjectOK, ProjectMoved, Unmoved, ProjectRow
<1> QED
  BY <1>1, <1>2 DEF Moved, NothingErased, GrantStep, VersionMoved

\* The receipt is of no concern to the other tables.
Receipted(t, u, key, receipt) == u = [t EXCEPT !.receipts[key] = receipt]

\* Saving the receipt disturbs nothing else.
LEMMA WithReceipt ==
  ASSUME NEW s, NEW t, RuntimeStep(s, t), NEW key \in Key, NEW receipt \in Receipt,
         NEW u, Receipted(t, u, key, receipt)
  PROVE  /\ RuntimeStep(s, u) /\ u.events = t.events
         /\ u.receipts = [t.receipts EXCEPT ![key] = receipt]
<1>1. Tables(t) /\ Types(t)
  BY DEF RuntimeStep, Tables
<1>2. /\ Shape(u)
      /\ u.resources = t.resources /\ u.revisions = t.revisions
      /\ u.invalidated = t.invalidated /\ u.versions = t.versions /\ u.current = t.current
      /\ u.grants = t.grants /\ u.events = t.events /\ SameProjects(u, t)
      /\ u.receipts = [t.receipts EXCEPT ![key] = receipt]
  BY <1>1 DEF Receipted, Types, Shape, SameProjects
<1>3. u.receipts \in [Key -> Receipt \union {None}]
  BY <1>1, <1>2 DEF Types
<1>4. Types(u)
  BY <1>1, <1>2, <1>3 DEF Types, SameProjects
<1>5. Secrets(u)
  BY <1>1, <1>2 DEF Tables, Secrets, CurrentOK, readable
<1>6. Tables(u)
  BY <1>1, <1>2, <1>4, <1>5 DEF Tables, ResourceOK, ProjectOK, SameProjects
<1>7. \A p \in Project : Unmoved(t, u, p)
  BY <1>2, StaysUnmoved DEF SameProjects
<1>8. \A p \in Project : ProjectMoved(s, u, p)
  BY <1>2, <1>7 DEF RuntimeStep, Moved, ProjectMoved, Unmoved, SameProjects
<1>9. Moved(s, u) /\ NothingErased(s, u)
  BY <1>2, <1>8 DEF RuntimeStep, Moved, NothingErased, SameProjects
<1> QED
  BY <1>2, <1>6, <1>9 DEF RuntimeStep, SameProjects

\* The outcome of a request: refused, or executed with its receipt.
RuntimeMutation(s, t, key, c) ==
  /\ RuntimeStep(s, t)
  /\ \/ t = s
     \/ /\ s.receipts[key] = None
        /\ \E body : /\ [command |-> c, body |-> body] \in Receipt
                     /\ t.receipts = [s.receipts EXCEPT ![key] = [command |-> c, body |-> body]]

\* The whole transaction of runtime administration.
LEMMA MutateRuntimeStep ==
  ASSUME NEW s, Tables(s), NEW key \in Key, NEW c \in RuntimeCommand,
         unusedVersions(s) # {}, unusedGrants(s) # {}
  PROVE  RuntimeMutation(s, mutateRuntime(s, key, c), key, c)
<1> DEFINE actor == actorOf[key]
           t == IF c.action = "create" THEN createResource(s, actor, c)
                ELSE changeResource(s, actor, c)
           body == publicResource(t, c.id)
           receipt == [command |-> c, body |-> body]
           u == [t EXCEPT !.receipts[key] = receipt]
           m == mutateRuntime(s, key, c)
<1>1. actor \in Actor /\ c.id \in Resource
  BY ResourcesAssumption, CommandShape
<1>2. RuntimeStep(s, s)
  BY NothingMoved DEF RuntimeStep, SameProjects
<1>3. \/ m = s
      \/ /\ m = u /\ s.receipts[key] = None
         /\ IF c.action = "create" THEN mayCreate(s, c) ELSE mayChange(s, c)
  BY DEF mutateRuntime
<1> HIDE DEF m
<1>4. CASE m = s
  BY <1>2, <1>4 DEF RuntimeMutation, m
<1>5. CASE /\ m = u /\ s.receipts[key] = None
           /\ IF c.action = "create" THEN mayCreate(s, c) ELSE mayChange(s, c)
  <2>1. RuntimeStep(s, t) /\ t.receipts = s.receipts
    <3>1. CASE c.action = "create"
      BY <1>1, <1>5, <3>1, CommandShape, CreateStep
    <3>2. CASE c.action # "create" /\ changes(s, c)
      <4>1. t = audited(effect(s, c), actor, c)
        BY <3>2 DEF changeResource
      <4> QED
        BY <1>1, <1>5, <3>2, <4>1, ChangeStep
    <3>3. CASE c.action # "create" /\ ~changes(s, c)
      BY <1>2, <3>3 DEF changeResource
    <3> QED
      BY <3>1, <3>2, <3>3
  <2> HIDE DEF t
  <2>2. Types(t)
    BY <2>1 DEF RuntimeStep, Tables
  <2>3. body \in PublicResource
    <3>1. t.resources[c.id] \in ResourceRow
      BY <1>1, <2>2 DEF Types
    <3>2. (IF c.id \in Account THEN t.current[c.id] ELSE [p \in Purpose |-> None])
             \in [Purpose -> VersionId \union {None}]
      BY <2>2 DEF Types
    <3> QED
      BY <3>1, <3>2 DEF publicResource, PublicResource
  <2> HIDE DEF body
  <2>4. receipt \in Receipt
    BY <2>3 DEF Receipt
  <2> HIDE DEF receipt
  <2>5. RuntimeStep(s, u) /\ u.receipts = [t.receipts EXCEPT ![key] = receipt]
    <3>1. Receipted(t, u, key, receipt)
      BY DEF Receipted
    <3> HIDE DEF u
    <3> QED
      BY <2>1, <2>4, <3>1, WithReceipt
  <2> QED
    BY <1>5, <2>1, <2>4, <2>5 DEF RuntimeMutation, receipt, m
<1> QED
  BY <1>3, <1>4, <1>5

(***************************************************************************)
(* Projects.  The new revision comes with the change.                      *)
(***************************************************************************)
\* What a project command leaves alone.
SameRuntime(t, s) ==
  /\ t.resources = s.resources /\ t.revisions = s.revisions
  /\ t.invalidated = s.invalidated /\ t.versions = s.versions /\ t.current = s.current
  /\ t.grants = s.grants /\ t.events = s.events /\ t.receipts = s.receipts

\* Grants of access: given once, to the project p, and revoked for good.
AccessStep(p, s, access) ==
  /\ access \in [GrantId -> AccessRow]
  /\ \A g \in GrantId :
       /\ s.access[g].revoked => access[g].revoked
       /\ access[g].revoked => access[g].project # None
       /\ \/ access[g] = s.access[g]
          \/ s.access[g].project \in {None, p} /\ access[g].project = p

\* The row of a project over a change or its creation.
ProjectRowStep(r, q) ==
  /\ q \in ProjectRow
  /\ q.state # "absent" /\ q.revision = r.revision + 1
  /\ r.sendEpoch <= q.sendEpoch
  /\ r.state = "active" /\ q.sendEpoch = r.sendEpoch => q.state = "active"

\* The tables e after a change of the project p, before it is logged.
ProjectEffect(p, s, e) ==
  /\ Shape(e) /\ SameRuntime(e, s)
  /\ e.adminEvents = s.adminEvents /\ e.adminReceipts = s.adminReceipts
  /\ e.projects \in [Project -> ProjectRow]
  /\ \A q \in Project \ {p} : e.projects[q] = s.projects[q]
  /\ ProjectRowStep(s.projects[p], e.projects[p])
  /\ AccessStep(p, s, e.access)

\* A step of project administration.
ProjectStep(s, t) ==
  /\ Tables(t) /\ SameRuntime(t, s) /\ Moved(s, t) /\ NothingErased(s, t)

\* Access that is left alone.
LEMMA AccessKept ==
  ASSUME NEW s, Tables(s), NEW p \in Project
  PROVE  AccessStep(p, s, s.access)
  BY DEF Tables, Types, AccessStep

\* Access that is granted takes an unused identifier.
LEMMA AccessGiven ==
  ASSUME NEW s, Tables(s), NEW p \in Project, NEW who \in Principal,
         NEW g \in GrantId, s.access[g].project = None
  PROVE  AccessStep(p, s, [s.access EXCEPT ![g] =
           [project |-> p, principal |-> who, revoked |-> FALSE]])
<1> DEFINE new == [project |-> p, principal |-> who, revoked |-> FALSE]
           access == [s.access EXCEPT ![g] = new]
<1>1. new \in AccessRow /\ new.project = p /\ ~new.revoked
  BY DEF AccessRow
<1>2. ~s.access[g].revoked /\ p # None /\ None \notin Project
  BY AdministrationAssumption DEF Tables
<1> HIDE DEF new
<1>3. /\ access \in [GrantId -> AccessRow] /\ access[g] = new
      /\ \A h \in GrantId \ {g} : access[h] = s.access[h]
  BY <1>1 DEF Tables, Types
<1> HIDE DEF access
<1>4. AccessStep(p, s, access)
  BY <1>1, <1>2, <1>3 DEF Tables, Types, AccessStep
<1> QED
  BY <1>4 DEF access, new

\* Access that is revoked stays revoked.
LEMMA AccessTaken ==
  ASSUME NEW s, Tables(s), NEW p \in Project, NEW who,
         NEW access, access = [g \in GrantId |->
           IF g \in accessGrants(s, p, who) THEN [s.access[g] EXCEPT !.revoked = TRUE]
           ELSE s.access[g]]
  PROVE  AccessStep(p, s, access)
<1>1. ASSUME NEW g \in GrantId
      PROVE  /\ access[g] \in AccessRow
             /\ \/ access[g] = s.access[g]
                \/ /\ s.access[g].project = p /\ ~s.access[g].revoked
                   /\ access[g].project = p /\ access[g].revoked
  <2>1. s.access[g] \in AccessRow
    BY DEF Tables, Types
  <2> QED
    BY <2>1 DEF AccessRow, accessGrants
<1>2. access \in [GrantId -> AccessRow]
  BY <1>1
<1>3. p # None
  BY AdministrationAssumption
<1>4. ASSUME NEW g \in GrantId
      PROVE  /\ s.access[g].revoked => access[g].revoked
             /\ access[g].revoked => access[g].project # None
             /\ \/ access[g] = s.access[g]
                \/ s.access[g].project \in {None, p} /\ access[g].project = p
  <2>1. CASE access[g] = s.access[g]
    BY <2>1 DEF Tables
  <2>2. CASE /\ s.access[g].project = p /\ ~s.access[g].revoked
             /\ access[g].project = p /\ access[g].revoked
    BY <1>3, <2>2
  <2> QED
    BY <1>1, <2>1, <2>2
<1> QED
  BY <1>2, <1>4 DEF AccessStep

\* A change of the row or of the grants, with its revision.
LEMMA ChangedProject ==
  ASSUME NEW s, Tables(s), NEW p \in Project,
         NEW row, row \in ProjectRow, NEW access, AccessStep(p, s, access),
         ProjectRowStep(s.projects[p], row),
         NEW e, e = [s EXCEPT !.projects = [s.projects EXCEPT ![p] = row], !.access = access]
  PROVE  ProjectEffect(p, s, e)
<1>1. /\ Shape(e) /\ SameRuntime(e, s)
      /\ e.adminEvents = s.adminEvents /\ e.adminReceipts = s.adminReceipts
      /\ e.projects = [s.projects EXCEPT ![p] = row] /\ e.access = access
  BY DEF Tables, Types, Shape, SameRuntime
<1>2. /\ e.projects \in [Project -> ProjectRow] /\ e.projects[p] = row
      /\ \A q \in Project \ {p} : e.projects[q] = s.projects[q]
  BY <1>1 DEF Tables, Types
<1> QED
  BY <1>1, <1>2 DEF ProjectEffect

\* The kind of a project command follows from its action.
LEMMA ProjectCommandShape ==
  ASSUME NEW c \in ProjectCommand
  PROVE  /\ c.id \in Project /\ c.action \in AdminAction /\ c.expectedRevision \in Nat
         /\ c.action = "create" => c \in ProjectCreation
         /\ c.action = "update" => c \in ProjectUpdate
         /\ c.action \in {"grant", "revoke"} => c \in ProjectAccess
         /\ c.action \in {"create", "update", "grant", "revoke"} \union ProjectTransition
<1> DEFINE Common == c.id \in Project /\ c.expectedRevision \in Nat
<1>1. \/ c \in ProjectCreation \/ c \in ProjectUpdate \/ c \in ProjectAccess
      \/ c \in ProjectLife
  BY DEF ProjectCommand
<1>2. c \in ProjectCreation => Common /\ c.action = "create"
  BY DEF ProjectCreation
<1>3. c \in ProjectUpdate => Common /\ c.action = "update"
  BY DEF ProjectUpdate
<1>4. c \in ProjectAccess => Common /\ c.action \in {"grant", "revoke"}
  BY DEF ProjectAccess
<1>5. c \in ProjectLife => Common /\ c.action \in ProjectTransition
  BY DEF ProjectLife
<1> QED
  BY <1>1, <1>2, <1>3, <1>4, <1>5 DEF AdminAction, ProjectTransition

\* A change of a project is one revision, and a new epoch when it stops sending.
LEMMA ChangeProjectEffect ==
  ASSUME NEW s, Tables(s), NEW c \in ProjectCommand, c.action # "create",
         projectExists(s, c.id), unusedAccess(s) # {}
  PROVE  ProjectEffect(c.id, s, [effectProject(s, c) EXCEPT !.projects[c.id].revision = @ + 1])
<1> DEFINE p == c.id
           r == s.projects[p]
           f == effectProject(s, c)
           e == [f EXCEPT !.projects[p].revision = @ + 1]
           Half(half) ==
             /\ half \in ProjectRow /\ half.revision = r.revision /\ half.state # "absent"
             /\ r.sendEpoch <= half.sendEpoch
             /\ r.state = "active" /\ half.sendEpoch = r.sendEpoch => half.state = "active"
<1> SUFFICES ProjectEffect(p, s, e)
  OBVIOUS
<1>1. /\ p \in Project /\ r \in ProjectRow /\ r.revision + 1 \in Nat /\ r.state # "absent"
      /\ Shape(s) /\ s.projects \in [Project -> ProjectRow]
  BY ProjectCommandShape DEF Tables, Types, ProjectRow, projectExists
<1>2. AccessStep(p, s, s.access)
  BY <1>1, AccessKept
<1>3. Half(r)
  BY <1>1 DEF ProjectRow
<1> HIDE DEF f, p, r
<1>4. ASSUME NEW half, Half(half), NEW access, AccessStep(p, s, access),
             f = [s EXCEPT !.projects = [s.projects EXCEPT ![p] = half], !.access = access]
      PROVE  ProjectEffect(p, s, e)
  <2> DEFINE row == [half EXCEPT !.revision = r.revision + 1]
  <2>1. /\ f.projects = [s.projects EXCEPT ![p] = half] /\ f.projects[p] = half
        /\ half.revision = r.revision
    BY <1>1, <1>4 DEF Shape
  <2>2. e = [f EXCEPT !.projects = [f.projects EXCEPT ![p] = row]]
    BY <2>1
  <2>3. [f.projects EXCEPT ![p] = row] = [s.projects EXCEPT ![p] = row]
    BY <1>1, <2>1
  <2>4. row \in ProjectRow /\ ProjectRowStep(r, row)
    BY <1>1, <1>4 DEF ProjectRow, ProjectRowStep
  <2> HIDE DEF row, Half
  <2>5. e = [s EXCEPT !.projects = [s.projects EXCEPT ![p] = row], !.access = access]
    <3> DEFINE projects == [s.projects EXCEPT ![p] = row]
    <3>1. e = [f EXCEPT !.projects = projects]
      BY <2>2, <2>3
    <3> HIDE DEF projects, e
    <3>2. e = [s EXCEPT !.projects = projects, !.access = access]
      BY <1>1, <1>4, <3>1 DEF Shape
    <3> QED
      BY <3>2 DEF projects
  <2> HIDE DEF e
  <2> QED
    BY <1>1, <1>4, <2>4, <2>5, ChangedProject DEF r
<1> HIDE DEF e
<1>5. CASE c.action = "update"
  <2> DEFINE half == [r EXCEPT !.settings = c.settings]
  <2>1. c.settings \in Settings
    BY <1>5, ProjectCommandShape DEF ProjectUpdate
  <2>2. Half(half)
    <3> HIDE DEF Half
    <3>1. /\ half \in ProjectRow /\ half.state = r.state /\ half.revision = r.revision
          /\ half.sendEpoch = r.sendEpoch
      BY <1>1, <2>1 DEF ProjectRow
    <3> HIDE DEF half
    <3> QED
      BY <1>3, <3>1 DEF Half
  <2>3. f = [s EXCEPT !.projects[c.id].settings = c.settings]
    BY <1>5 DEF effectProject, f, ProjectTransition
  <2>4. f = [s EXCEPT !.projects = [s.projects EXCEPT ![p] = half]]
    BY <2>3 DEF p, r
  <2> HIDE DEF half, Half
  <2>5. f = [s EXCEPT !.projects = [s.projects EXCEPT ![p] = half], !.access = s.access]
    BY <1>1, <2>4 DEF Shape
  <2> QED
    BY <1>2, <1>4, <2>2, <2>5
<1>6. CASE c.action = "grant" \/ c.action = "revoke"
  <2> DEFINE who == thePrincipal(c)
             g == CHOOSE x \in unusedAccess(s) : TRUE
             new == [project |-> p, principal |-> who, revoked |-> FALSE]
             given == [s.access EXCEPT ![g] = new]
             taken == [h \in GrantId |->
                         IF h \in accessGrants(s, p, who) THEN [s.access[h] EXCEPT !.revoked = TRUE]
                         ELSE s.access[h]]
             access == IF c.action = "grant" THEN given ELSE taken
  <2>1. who \in Principal
    <3>1. \E x \in Principal : c.principals = {x}
      BY <1>6, ProjectCommandShape DEF ProjectAccess
    <3> QED
      BY <3>1 DEF thePrincipal
  <2>2. g \in GrantId /\ s.access[g].project = None
    BY DEF unusedAccess
  <2>3. /\ c.action = "grant" => f = addGrant(s, c.id, thePrincipal(c))
        /\ c.action = "revoke" => f = revokeGrant(s, c.id, thePrincipal(c))
    BY DEF effectProject, f, ProjectTransition
  <2>4. f = [s EXCEPT !.access = access]
    BY <1>6, <2>3 DEF addGrant, revokeGrant, p
  <2> HIDE DEF who, g
  <2>5. AccessStep(p, s, given)
    BY <1>1, <2>1, <2>2, AccessGiven
  <2>6. AccessStep(p, s, taken)
    BY <1>1, AccessTaken
  <2>7. AccessStep(p, s, access)
    BY <2>5, <2>6
  <2> HIDE DEF access, Half
  <2>8. s.projects = [s.projects EXCEPT ![p] = r]
    BY <1>1 DEF r
  <2>9. f = [s EXCEPT !.projects = [s.projects EXCEPT ![p] = r], !.access = access]
    BY <1>1, <2>4, <2>8 DEF Shape
  <2> QED
    BY <1>3, <1>4, <2>7, <2>9
<1>7. CASE c.action \in ProjectTransition
  <2> DEFINE epoch == IF c.action = "reactivate" THEN r.sendEpoch ELSE r.sendEpoch + 1
             to == nextState(c)
             half == [r EXCEPT !.state = to, !.sendEpoch = epoch]
  <2>1. /\ to \in {"active", "suspended", "retired"}
        /\ to = "active" <=> c.action = "reactivate"
    BY <1>7 DEF nextState, ProjectTransition
  <2>2. epoch \in Nat /\ r.sendEpoch <= epoch /\ (epoch = r.sendEpoch <=> to = "active")
    BY <1>1, <2>1 DEF ProjectRow
  <2>3. f = transitionProject(s, c)
    BY <1>7 DEF effectProject, f, ProjectTransition
  <2>4. f = [s EXCEPT !.projects = [s.projects EXCEPT ![p] = half]]
    BY <2>3 DEF transitionProject, p, r
  <2> HIDE DEF epoch, to
  <2>5. Half(half)
    <3> HIDE DEF Half
    <3>1. /\ half \in ProjectRow /\ half.state = to /\ half.revision = r.revision
          /\ half.sendEpoch = epoch
      BY <1>1, <2>1, <2>2 DEF ProjectRow, ProjectState
    <3> HIDE DEF half
    <3> QED
      BY <2>1, <2>2, <3>1 DEF Half
  <2> HIDE DEF half, Half
  <2>6. f = [s EXCEPT !.projects = [s.projects EXCEPT ![p] = half], !.access = s.access]
    BY <1>1, <2>4 DEF Shape
  <2> QED
    BY <1>2, <1>4, <2>5, <2>6
<1> QED
  BY <1>5, <1>6, <1>7, ProjectCommandShape

\* A new project starts active at revision 1.
LEMMA CreateProjectEffect ==
  ASSUME NEW s, Tables(s), NEW c \in ProjectCreation, ~projectExists(s, c.id),
         unusedAccess(s) # {}
  PROVE  ProjectEffect(c.id, s, createProject(s, c))
<1> DEFINE p == c.id
           r == s.projects[p]
           row == [state |-> "active", revision |-> 1, sendEpoch |-> 1, settings |-> c.settings]
           created == [s EXCEPT !.projects = [s.projects EXCEPT ![p] = row]]
           who == thePrincipal(c)
           g == CHOOSE x \in unusedAccess(created) : TRUE
           new == [project |-> p, principal |-> who, revoked |-> FALSE]
           given == [s.access EXCEPT ![g] = new]
           access == IF c.principals = {} THEN s.access ELSE given
           e == createProject(s, c)
<1> SUFFICES ProjectEffect(p, s, e)
  OBVIOUS
<1>1. /\ p \in Project /\ r \in ProjectRow /\ r.revision = 0 /\ r.sendEpoch = 0
      /\ r.state = "absent" /\ Shape(s) /\ c.settings \in Settings
      /\ c.principals = {} \/ \E x \in Principal : c.principals = {x}
  BY DEF Tables, Types, ProjectOK, projectExists, ProjectCreation
<1>2. row \in ProjectRow /\ ProjectRowStep(r, row)
  BY <1>1 DEF ProjectRow, ProjectState, ProjectRowStep
<1>3. e = IF c.principals = {} THEN created ELSE addGrant(created, p, who)
  BY DEF createProject
<1> HIDE DEF row
<1>4. Shape(created) /\ created.access = s.access
  BY <1>1 DEF Shape
<1>5. AccessStep(p, s, access)
  <2>1. CASE c.principals = {}
    BY <1>1, <2>1, AccessKept
  <2>2. CASE c.principals # {}
    <3>1. who \in Principal
      BY <1>1, <2>2 DEF thePrincipal
    <3>2. g \in GrantId /\ s.access[g].project = None
      BY <1>4 DEF unusedAccess
    <3> HIDE DEF who, g, p
    <3> QED
      BY <1>1, <2>2, <3>1, <3>2, AccessGiven
  <2> QED
    BY <2>1, <2>2
<1>6. e = [created EXCEPT !.access = access]
  <2>1. CASE c.principals = {}
    BY <1>3, <1>4, <2>1 DEF Shape
  <2>2. CASE c.principals # {}
    BY <1>3, <1>4, <2>2 DEF addGrant
  <2> QED
    BY <2>1, <2>2
<1> HIDE DEF access, e
<1>7. e = [s EXCEPT !.projects = [s.projects EXCEPT ![p] = row], !.access = access]
  BY <1>1, <1>6 DEF Shape
<1> HIDE DEF p
<1> QED
  BY <1>1, <1>2, <1>5, <1>7, ChangedProject DEF r

\* The tables t after a change of the project p was logged.
LoggedOK(p, s, t) ==
  /\ ProjectStep(s, t)
  /\ t.adminReceipts = s.adminReceipts
  /\ t.projects[p].revision = s.projects[p].revision + 1
  /\ t.projects[p].state # "absent"

\* The log of a project grows with its revision.
LEMMA LoggedProject ==
  ASSUME NEW s, Tables(s), NEW p \in Project, NEW e, ProjectEffect(p, s, e),
         NEW actor \in Actor, NEW c, c.id = p, c.action \in AdminAction
  PROVE  LoggedOK(p, s, adminEvent(e, actor, c))
<1> DEFINE r == s.projects[p]
           q == e.projects[p]
           event == [revision |-> q.revision, actor |-> actor, action |-> c.action]
           log == Append(s.adminEvents[p], event)
           t == adminEvent(e, actor, c)
<1>1. /\ r \in ProjectRow /\ Log(s.adminEvents[p], r.revision) /\ Types(s) /\ Secrets(s)
      /\ ProjectRowStep(r, q)
  BY DEF Tables, ProjectOK, ProjectEffect
<1>2. r.revision \in Nat /\ q.revision = r.revision + 1 /\ event \in AuditEvent
      /\ q \in ProjectRow /\ q.state # "absent"
  BY <1>1 DEF ProjectRow, ProjectRowStep, AuditEvent
<1>3. Log(log, q.revision)
  BY <1>1, <1>2, LogAppend
<1>4. t = [e EXCEPT !.adminEvents = [s.adminEvents EXCEPT ![p] = log]]
  BY DEF adminEvent, ProjectEffect
<1> HIDE DEF event, log, t
<1>5. /\ Shape(t) /\ SameRuntime(t, s) /\ t.projects = e.projects /\ t.access = e.access
      /\ t.adminReceipts = s.adminReceipts
      /\ t.adminEvents = [s.adminEvents EXCEPT ![p] = log]
  BY <1>4 DEF ProjectEffect, Shape, SameRuntime
<1>6. /\ t.adminEvents \in [Project -> Seq(AuditEvent)] /\ t.adminEvents[p] = log
      /\ \A x \in Project \ {p} : t.adminEvents[x] = s.adminEvents[x]
  BY <1>1, <1>3, <1>5 DEF Types, Log
<1>7. Types(t)
  BY <1>1, <1>5, <1>6 DEF Types, SameRuntime, ProjectEffect, AccessStep
<1>8. ASSUME NEW x \in Project PROVE ProjectOK(t, x) /\ ProjectMoved(s, t, x)
  <2>1. CASE x = p
    BY <1>1, <1>2, <1>3, <1>5, <1>6, <2>1 DEF ProjectOK, ProjectMoved, ProjectRowStep, ProjectRow
  <2>2. CASE x # p
    <3>1. /\ t.projects[x] = s.projects[x] /\ t.adminEvents[x] = s.adminEvents[x]
          /\ s.projects[x] \in ProjectRow
      BY <1>1, <1>5, <1>6, <2>2 DEF ProjectEffect, Types
    <3>2. Unmoved(s, t, x)
      <4>1. x # None
        BY AdministrationAssumption
      <4>2. \A g \in GrantId : \/ t.access[g] = s.access[g]
                               \/ s.access[g].project # x /\ t.access[g].project # x
        BY <1>5, <2>2, <4>1 DEF ProjectEffect, AccessStep
      <4> QED
        BY <3>1, <4>2, StaysUnmoved
    <3> QED
      BY <3>1, <3>2 DEF Tables, ProjectOK, ProjectMoved, ProjectRow
  <2> QED
    BY <2>1, <2>2
<1>9. Secrets(t)
  BY <1>1, <1>5 DEF SameRuntime, Secrets, CurrentOK, readable
<1>10. \A id \in Resource : ResourceOK(t, id)
  BY <1>5 DEF Tables, ResourceOK, SameRuntime
<1>11. /\ \A g \in GrantId : t.access[g].revoked => t.access[g].project # None
       /\ \A g \in GrantId : s.access[g].revoked => t.access[g].revoked
  BY <1>5 DEF ProjectEffect, AccessStep
<1>12. Tables(t)
  BY <1>7, <1>8, <1>9, <1>10, <1>11 DEF Tables
<1>13. Moved(s, t) /\ NothingErased(s, t)
  BY <1>5, <1>8, <1>11, NothingMoved DEF Moved, NothingErased, SameRuntime
<1> QED
  BY <1>2, <1>5, <1>12, <1>13 DEF LoggedOK, ProjectStep, t

ProjectReceipted(t, u, key, receipt) == u = [t EXCEPT !.adminReceipts[key] = receipt]

\* Saving the receipt of a project disturbs nothing else.
LEMMA WithProjectReceipt ==
  ASSUME NEW s, NEW t, ProjectStep(s, t), NEW key \in Key, NEW receipt \in ProjectReceipt,
         NEW u, ProjectReceipted(t, u, key, receipt)
  PROVE  /\ ProjectStep(s, u) /\ u.adminEvents = t.adminEvents /\ u.projects = t.projects
         /\ \A p \in Project : projectSnapshot(u, p) = projectSnapshot(t, p)
         /\ u.adminReceipts = [t.adminReceipts EXCEPT ![key] = receipt]
<1>1. Tables(t) /\ Types(t)
  BY DEF ProjectStep, Tables
<1>2. /\ Shape(u) /\ SameRuntime(u, t)
      /\ u.projects = t.projects /\ u.access = t.access /\ u.adminEvents = t.adminEvents
      /\ u.adminReceipts = [t.adminReceipts EXCEPT ![key] = receipt]
  BY <1>1 DEF ProjectReceipted, Types, Shape, SameRuntime
<1>3. u.adminReceipts \in [Key -> ProjectReceipt \union {None}]
  BY <1>1, <1>2 DEF Types
<1>4. Types(u)
  BY <1>1, <1>2, <1>3 DEF Types, SameRuntime
<1>5. Secrets(u)
  BY <1>1, <1>2 DEF Tables, Secrets, CurrentOK, readable, SameRuntime
<1>6. Tables(u)
  BY <1>1, <1>2, <1>4, <1>5 DEF Tables, ResourceOK, ProjectOK, SameRuntime
<1>7. \A p \in Project : Unmoved(t, u, p)
  BY <1>2, StaysUnmoved
<1>8. \A p \in Project : ProjectMoved(s, u, p)
  BY <1>2, <1>7 DEF ProjectStep, Moved, ProjectMoved, Unmoved
<1>9. Moved(s, u) /\ NothingErased(s, u)
  BY <1>2, <1>8 DEF ProjectStep, Moved, NothingErased, SameRuntime
<1> QED
  BY <1>2, <1>6, <1>7, <1>9 DEF ProjectStep, SameRuntime, Unmoved

\* The outcome of a request: refused, executed without effect, or one revision on.
ProjectMutation(s, t, key, c) ==
  /\ ProjectStep(s, t)
  /\ \/ t = s
     \/ /\ s.adminReceipts[key] = None
        /\ \E receipt \in ProjectReceipt :
             /\ receipt.command = c /\ receipt.body = projectSnapshot(t, c.id)
             /\ t.adminReceipts = [s.adminReceipts EXCEPT ![key] = receipt]
        /\ t.projects[c.id].state # "absent"
        /\ c.action # "create" => s.projects[c.id].revision = c.expectedRevision
        /\ \/ /\ t.adminEvents = s.adminEvents /\ t.projects = s.projects
              /\ c.action # "create" /\ ~changesProject(s, c)
           \/ /\ t.projects[c.id].revision = s.projects[c.id].revision + 1
              /\ c.action = "create" \/ changesProject(s, c)

\* The whole transaction of project administration.
LEMMA MutateProjectStep ==
  ASSUME NEW s, Tables(s), NEW key \in Key, NEW c \in ProjectCommand, unusedAccess(s) # {}
  PROVE  ProjectMutation(s, mutateProject(s, key, c), key, c)
<1> DEFINE p == c.id
           actor == actorOf[key]
           accepted == IF c.action = "create" THEN ~projectExists(s, p)
                       ELSE mayChangeProject(s, Administrators[actor], c)
           t == IF c.action = "create" THEN adminEvent(createProject(s, c), actor, c)
                ELSE changeProject(s, actor, c)
           receipt == [command |-> c, body |-> projectSnapshot(t, p)]
           u == [t EXCEPT !.adminReceipts[key] = receipt]
           m == mutateProject(s, key, c)
<1>1. /\ actor \in Actor /\ p \in Project /\ c.action \in AdminAction
      /\ c.action = "create" => c \in ProjectCreation
  BY ResourcesAssumption, ProjectCommandShape
<1>2. ProjectStep(s, s)
  BY NothingMoved DEF ProjectStep, SameRuntime
<1>3. \/ m = s
      \/ m = u /\ s.adminReceipts[key] = None /\ accepted
  BY DEF mutateProject
<1> SUFFICES ProjectMutation(s, m, key, c)
  OBVIOUS
<1> HIDE DEF m, p, actor
<1>4. CASE m = s
  BY <1>2, <1>4 DEF ProjectMutation
<1>5. CASE m = u /\ s.adminReceipts[key] = None /\ accepted
  <2>1. /\ ProjectStep(s, t) /\ t.adminReceipts = s.adminReceipts
        /\ t.projects[p].state # "absent"
        /\ \/ /\ t.adminEvents = s.adminEvents /\ t.projects = s.projects
              /\ c.action # "create" /\ ~changesProject(s, c)
           \/ /\ t.projects[p].revision = s.projects[p].revision + 1
              /\ c.action = "create" \/ changesProject(s, c)
    <3>1. CASE c.action = "create"
      <4>1. ProjectEffect(p, s, createProject(s, c))
        BY <1>1, <1>5, <3>1, CreateProjectEffect DEF p
      <4>2. LoggedOK(p, s, adminEvent(createProject(s, c), actor, c))
        BY <1>1, <4>1, LoggedProject DEF p
      <4> QED
        BY <3>1, <4>2 DEF LoggedOK
    <3>2. CASE c.action # "create" /\ changesProject(s, c)
      <4> DEFINE e == [effectProject(s, c) EXCEPT !.projects[c.id].revision = @ + 1]
      <4>1. projectExists(s, p)
        BY <1>5, <3>2 DEF mayChangeProject, p
      <4>2. ProjectEffect(p, s, e)
        BY <3>2, <4>1, ChangeProjectEffect DEF p
      <4>3. t = adminEvent(e, actor, c)
        BY <3>2 DEF changeProject
      <4> HIDE DEF e, t
      <4>4. LoggedOK(p, s, adminEvent(e, actor, c))
        BY <1>1, <4>2, LoggedProject DEF p
      <4> QED
        BY <3>2, <4>3, <4>4 DEF LoggedOK
    <3>3. CASE c.action # "create" /\ ~changesProject(s, c)
      <4>1. t = s
        BY <3>3 DEF changeProject
      <4>2. projectExists(s, p)
        BY <1>5, <3>3 DEF mayChangeProject, p
      <4> QED
        BY <1>2, <3>3, <4>1, <4>2 DEF projectExists
    <3> QED
      BY <3>1, <3>2, <3>3
  <2>2. c.action # "create" => s.projects[p].revision = c.expectedRevision
    BY <1>5 DEF mayChangeProject, p
  <2> HIDE DEF t, accepted
  <2>3. projectSnapshot(t, p) \in ProjectSnapshot
    <3>1. t.projects[p] \in ProjectRow
      BY <1>1, <2>1 DEF ProjectStep, Tables, Types
    <3> QED
      BY <3>1 DEF projectSnapshot, ProjectSnapshot, ProjectRow
  <2>4. receipt \in ProjectReceipt /\ receipt.command = c
        /\ receipt.body = projectSnapshot(t, p)
    BY <2>3 DEF ProjectReceipt
  <2>5. ProjectReceipted(t, u, key, receipt)
    BY DEF ProjectReceipted
  <2> HIDE DEF receipt, u
  <2>6. /\ ProjectStep(s, u) /\ u.adminEvents = t.adminEvents /\ u.projects = t.projects
        /\ projectSnapshot(u, p) = projectSnapshot(t, p)
        /\ u.adminReceipts = [t.adminReceipts EXCEPT ![key] = receipt]
    BY <1>1, <2>1, <2>4, <2>5, WithProjectReceipt
  <2> QED
    BY <1>5, <2>1, <2>2, <2>4, <2>6 DEF ProjectMutation, p
<1> QED
  BY <1>3, <1>4, <1>5

(***************************************************************************)
(* Any request, and retention.                                             *)
(***************************************************************************)
LEMMA RequestShape ==
  ASSUME NEW q \in Request
  PROVE  /\ q = [key |-> q.key, command |-> q.command] /\ q.key \in Key
         /\ q.command.expectedRevision \in Nat
         /\ q.command.id \in Project => q.command \in ProjectCommand
         /\ q.command.id \notin Project => q.command \in RuntimeCommand
<1>1. /\ q = [key |-> q.key, command |-> q.command] /\ q.key \in Key
      /\ q.command \in RuntimeCommand \/ q.command \in ProjectCommand
  BY DEF Request
<1>2. q.command \in RuntimeCommand =>
        q.command.id \in Resource /\ q.command.expectedRevision \in Nat
  BY CommandShape
<1>3. q.command \in ProjectCommand =>
        q.command.id \in Project /\ q.command.expectedRevision \in Nat
  BY ProjectCommandShape
<1> QED
  BY <1>1, <1>2, <1>3, AdministrationAssumption

\* Every kind of identifier is left (identifiersLeft).
Left(s) == unusedVersions(s) # {} /\ unusedGrants(s) # {} /\ unusedAccess(s) # {}

\* A request, executed or refused, keeps the tables in order.
LEMMA ExecutedStep ==
  ASSUME NEW s, Tables(s), Left(s), NEW q \in Request
  PROVE  LET t == executed(s, q) IN
         /\ Tables(t) /\ Moved(s, t) /\ NothingErased(s, t)
         /\ IF q.command.id \in Project THEN ProjectMutation(s, t, q.key, q.command)
            ELSE RuntimeMutation(s, t, q.key, q.command)
<1> DEFINE t == executed(s, q)
<1>1. CASE q.command.id \in Project
  <2>1. t = mutateProject(s, q.key, q.command)
    BY <1>1 DEF executed
  <2>2. ProjectMutation(s, t, q.key, q.command)
    BY <1>1, <2>1, RequestShape, MutateProjectStep DEF Left
  <2> HIDE DEF t
  <2>3. Tables(t) /\ Moved(s, t) /\ NothingErased(s, t)
    BY <2>2 DEF ProjectMutation, ProjectStep
  <2> QED
    BY <1>1, <2>2, <2>3 DEF t
<1>2. CASE q.command.id \notin Project
  <2>1. t = mutateRuntime(s, q.key, q.command)
    BY <1>2 DEF executed
  <2>2. RuntimeMutation(s, t, q.key, q.command)
    BY <1>2, <2>1, RequestShape, MutateRuntimeStep DEF Left
  <2> HIDE DEF t
  <2>3. Tables(t) /\ Moved(s, t) /\ NothingErased(s, t)
    BY <2>2 DEF RuntimeMutation, RuntimeStep
  <2> QED
    BY <1>2, <2>2, <2>3 DEF t
<1> QED
  BY <1>1, <1>2

\* Dropping a receipt disturbs nothing else.
LEMMA ReceiptDropped ==
  ASSUME NEW s, Tables(s), NEW key \in Key, NEW t, t = [s EXCEPT !.adminReceipts[key] = None]
  PROVE  /\ Tables(t) /\ Moved(s, t) /\ SameRuntime(t, s)
         /\ t.projects = s.projects
         /\ \A p \in Project : Unmoved(s, t, p)
         /\ t.adminReceipts = [s.adminReceipts EXCEPT ![key] = None]
<1>1. /\ Shape(t) /\ SameRuntime(t, s)
      /\ t.projects = s.projects /\ t.access = s.access /\ t.adminEvents = s.adminEvents
      /\ t.adminReceipts = [s.adminReceipts EXCEPT ![key] = None]
  BY DEF Tables, Types, Shape, SameRuntime
<1>2. t.adminReceipts \in [Key -> ProjectReceipt \union {None}]
  BY <1>1 DEF Tables, Types
<1>3. Types(t)
  BY <1>1, <1>2 DEF Tables, Types, SameRuntime
<1>4. Secrets(t)
  BY <1>1 DEF Tables, Secrets, CurrentOK, readable, SameRuntime
<1>5. Tables(t)
  BY <1>1, <1>3, <1>4 DEF Tables, ResourceOK, ProjectOK, SameRuntime
<1>6. \A p \in Project : Unmoved(s, t, p)
  BY <1>1, StaysUnmoved
<1>7. Moved(s, t)
  BY <1>1, <1>6, NothingMoved DEF Moved, ProjectMoved, SameRuntime
<1> QED
  BY <1>1, <1>5, <1>6, <1>7

\* What cleanup changes of the tables.
ErasureOK(s, t, u) ==
  /\ Tables(t) /\ Moved(s, t)
  /\ t.projects = s.projects /\ t.access = s.access
  /\ t.receipts = s.receipts /\ t.adminReceipts = s.adminReceipts
  /\ t.current = s.current
  /\ \A v \in VersionId :
       /\ t.versions[v].account = s.versions[v].account
       /\ t.versions[v].purpose = s.versions[v].purpose
       /\ t.versions[v].revoked = s.versions[v].revoked
       /\ t.versions[v].readable <=> s.versions[v].readable /\ ~superfluous(s, v, u)

\* Cleanup erases what is superfluous and nothing else.
LEMMA ErasureStep ==
  ASSUME NEW s, Tables(s), NEW u
  PROVE  ErasureOK(s, cleanupRuntimeSecrets(s, u), u)
<1> DEFINE t == cleanupRuntimeSecrets(s, u)
           row(v) == [s.versions[v] EXCEPT !.readable =
                        s.versions[v].readable /\ ~superfluous(s, v, u)]
           versions == [v \in VersionId |-> row(v)]
<1>1. t = [s EXCEPT !.versions = versions]
  BY DEF cleanupRuntimeSecrets
<1>2. ASSUME NEW v \in VersionId
      PROVE  /\ row(v) \in VersionRow
             /\ row(v).account = s.versions[v].account
             /\ row(v).purpose = s.versions[v].purpose
             /\ row(v).revoked = s.versions[v].revoked
             /\ row(v).readable <=> s.versions[v].readable /\ ~superfluous(s, v, u)
  <2> DEFINE left == s.versions[v].readable /\ ~superfluous(s, v, u)
  <2>1. s.versions[v] \in VersionRow
    BY DEF Tables, Types
  <2>2. left \in BOOLEAN /\ (left <=> s.versions[v].readable /\ ~superfluous(s, v, u))
    BY <2>1 DEF VersionRow
  <2>3. row(v) = [s.versions[v] EXCEPT !.readable = left]
    OBVIOUS
  <2> HIDE DEF left, row
  <2>4. /\ row(v) \in VersionRow /\ row(v).account = s.versions[v].account
        /\ row(v).purpose = s.versions[v].purpose /\ row(v).revoked = s.versions[v].revoked
        /\ row(v).readable = left
    BY <2>1, <2>2, <2>3 DEF VersionRow
  <2> QED
    BY <2>2, <2>4
<1> HIDE DEF row
<1>3. versions \in [VersionId -> VersionRow] /\ \A v \in VersionId : versions[v] = row(v)
  BY <1>2
<1> HIDE DEF versions
<1>4. /\ Shape(t) /\ t.versions = versions
      /\ t.resources = s.resources /\ t.revisions = s.revisions
      /\ t.invalidated = s.invalidated /\ t.current = s.current /\ t.grants = s.grants
      /\ t.events = s.events /\ t.receipts = s.receipts /\ t.projects = s.projects
      /\ t.access = s.access /\ t.adminEvents = s.adminEvents
      /\ t.adminReceipts = s.adminReceipts
  BY <1>1 DEF Tables, Types, Shape
<1> HIDE DEF t
<1>5. Types(t)
  BY <1>3, <1>4 DEF Tables, Types
<1>6. \A v \in VersionId :
        /\ t.versions[v].account = s.versions[v].account
        /\ t.versions[v].purpose = s.versions[v].purpose
        /\ t.versions[v].revoked = s.versions[v].revoked
        /\ t.versions[v].readable <=> s.versions[v].readable /\ ~superfluous(s, v, u)
  BY <1>2, <1>3, <1>4
<1>7. ASSUME NEW a \in Account, NEW p \in Purpose PROVE CurrentOK(t, a, p, t.current[a][p])
  <2> DEFINE x == s.current[a][p]
  <2>1. /\ CurrentOK(s, a, p, x) /\ x \in VersionId \union {None} /\ t.current[a][p] = x
        /\ s.current[a][p] = x
    BY <1>4 DEF Tables, Secrets, Types
  <2> HIDE DEF x
  <2>2. SUFFICES ASSUME x # None PROVE CurrentOK(t, a, p, x)
    BY <2>1 DEF CurrentOK
  <2>3. /\ x \in VersionId /\ s.versions[x].account = a /\ s.versions[x].purpose = p
        /\ ~s.versions[x].revoked
    BY <2>1, <2>2 DEF CurrentOK
  <2>4. superfluous(s, x, u) =>
          /\ s.resources[a].state = "retired"
          /\ p = "callback" => a \notin u.routes \union u.inbox
    BY <2>1, <2>3 DEF superfluous, state, Purpose
  <2>5. ASSUME p = "callback", superfluous(s, x, u), NEW w \in VersionId,
               s.versions[w].account = a, s.versions[w].purpose = "callback"
        PROVE  ~t.versions[w].readable
    BY <1>6, <2>4, <2>5 DEF superfluous, state
  <2>6. t.resources[a].state # "retired" => t.versions[x].readable
    BY <1>4, <1>6, <2>1, <2>2, <2>3, <2>4 DEF CurrentOK
  <2>7. ASSUME p = "callback", ~t.versions[x].readable, NEW w \in VersionId,
               t.versions[w].account = a, t.versions[w].purpose = "callback"
        PROVE  ~readable(t, w)
    <3>1. CASE superfluous(s, x, u)
      BY <1>6, <2>5, <2>7, <3>1 DEF readable
    <3>2. CASE ~s.versions[x].readable
      BY <1>6, <2>1, <2>2, <2>7, <3>2 DEF CurrentOK, readable
    <3> QED
      BY <1>6, <2>3, <2>7, <3>1, <3>2
  <2> QED
    BY <1>6, <2>3, <2>6, <2>7 DEF CurrentOK
<1>8. Secrets(t)
  BY <1>4, <1>6, <1>7 DEF Tables, Secrets
<1>9. Tables(t)
  BY <1>4, <1>5, <1>8 DEF Tables, ResourceOK, ProjectOK
<1>10. Moved(s, t)
  <2>1. \A p \in Project : Unmoved(s, t, p)
    BY <1>4, StaysUnmoved
  <2>2. \A v \in VersionId : VersionMoved(s.versions[v], t.versions[v])
    BY <1>6 DEF VersionMoved
  <2> QED
    BY <1>4, <2>1, <2>2, NothingMoved DEF Moved, ProjectMoved
<1> QED
  BY <1>4, <1>6, <1>9, <1>10 DEF ErasureOK, t

(***************************************************************************)
(* What relies on the tables survives their steps.                         *)
(***************************************************************************)
LEMMA EpochMoves ==
  ASSUME NEW s, Tables(s), NEW t, Tables(t), Moved(s, t),
         NEW id, NEW epoch, EpochOK(s, id, epoch)
  PROVE  EpochOK(t, id, epoch)
<1>1. /\ id \in Resource /\ s.resources[id] \in ResourceRow /\ t.resources[id] \in ResourceRow
      /\ RowMoved(id, s.resources[id], t.resources[id])
  BY DEF EpochOK, Tables, Types, Moved
<1> QED
  BY <1>1 DEF EpochOK, RowMoved, ResourceRow, exists, state

\* Captured authority still stands or is past for good.
LEMMA CapturedMoves ==
  ASSUME NEW s, Tables(s), NEW t, Tables(t), Moved(s, t), NEW a, Captured(s, a)
  PROVE  Captured(t, a)
<1>1. project \in Project /\ None \notin Project
  BY AdministrationAssumption
<1>2. ASSUME NEW g, GivenGrant(s, g) PROVE GivenGrant(t, g)
  BY <1>1, <1>2 DEF GivenGrant, Moved, GrantStep
<1>3. ASSUME NEW id, NEW revision, Published(s, id, revision) PROVE Published(t, id, revision)
  BY <1>3 DEF Published, Moved
<1>4. /\ t.projects[project].state # "absent"
      /\ a.projectEpoch \in Nat /\ a.projectEpoch <= t.projects[project].sendEpoch
      /\ a.projectEpoch = t.projects[project].sendEpoch => t.projects[project].state = "active"
  <2>1. /\ s.projects[project] \in ProjectRow /\ t.projects[project] \in ProjectRow
        /\ ProjectMoved(s, t, project)
    BY <1>1 DEF Tables, Types, Moved
  <2> QED
    BY <2>1 DEF Captured, ProjectMoved, ProjectRow
<1>5. ASSUME NEW i \in DOMAIN a.steps
      PROVE  /\ i \in Instance
             /\ EpochOK(t, i, a.steps[i].epoch)
             /\ EpochOK(t, accountOf(t, i), a.steps[i].accountEpoch)
             /\ GivenGrant(t, a.steps[i].grant)
             /\ Published(t, i, a.revisions[i])
  <2>1. /\ i \in Instance
        /\ EpochOK(s, i, a.steps[i].epoch)
        /\ EpochOK(s, accountOf(s, i), a.steps[i].accountEpoch)
        /\ GivenGrant(s, a.steps[i].grant)
        /\ Published(s, i, a.revisions[i])
    BY DEF Captured
  <2>2. accountOf(t, i) = accountOf(s, i)
    BY <2>1 DEF EpochOK, exists, accountOf, Moved, RowMoved
  <2> QED
    BY <1>2, <1>3, <2>1, <2>2, EpochMoves
<1>6. /\ GivenGrant(t, a.policyGrant) /\ EpochOK(t, policy, a.policyEpoch)
      /\ Published(t, policy, a.policyRevision)
  BY <1>2, <1>3, EpochMoves DEF Captured
<1> QED
  BY <1>4, <1>5, <1>6 DEF Captured

\* A resolved route still matches its policy, or a newer revision shows.
LEMMA ResolvedMoves ==
  ASSUME NEW s, Tables(s), NEW t, Tables(t), Moved(s, t), NEW r, Resolved(s, r)
  PROVE  Resolved(t, r)
<1>1. /\ policy \in Policy /\ policy \in Resource
      /\ s.resources[policy] \in ResourceRow /\ t.resources[policy] \in ResourceRow
      /\ RowMoved(policy, s.resources[policy], t.resources[policy])
  BY AdministrationAssumption DEF Resource, Tables, Types, Moved
<1> QED
  BY <1>1 DEF Resolved, RowMoved, ResourceRow, exists

\* An answer that was final stays final.
LEMMA FinalMoves ==
  ASSUME NEW s, Tables(s), NEW t, Tables(t), Moved(s, t),
         NEW c, c.id \in Project, c.expectedRevision \in Nat, NEW body, Final(s, c, body)
  PROVE  Final(t, c, body)
<1>1. /\ s.projects[c.id] \in ProjectRow /\ t.projects[c.id] \in ProjectRow
      /\ ProjectMoved(s, t, c.id)
  BY DEF Tables, Types, Moved
<1>2. Unmoved(s, t, c.id) => (changesProject(t, c) <=> changesProject(s, c))
  BY DEF Unmoved, changesProject
<1> QED
  BY <1>1, <1>2 DEF Final, ProjectMoved, Unmoved, ProjectRow

\* Administrators leave promised credentials readable or revoked.
LEMMA PromisedMoves ==
  ASSUME NEW s, Tables(s), NEW t, Tables(t), Moved(s, t), NothingErased(s, t),
         NEW m, PromisedOK(s, m)
  PROVE  PromisedOK(t, m)
<1>1. ASSUME NEW a \in Account, NEW v \in m[a]
      PROVE  /\ t.versions[v].account = a /\ t.versions[v].purpose = "callback"
             /\ t.versions[v].revoked \/ t.versions[v].readable
  <2>1. /\ v \in VersionId /\ s.versions[v].account = a /\ s.versions[v].purpose = "callback"
        /\ s.versions[v].revoked \/ s.versions[v].readable
        /\ a # None
    BY ResourcesAssumption DEF PromisedOK
  <2> QED
    BY <2>1 DEF Moved, VersionMoved, NothingErased
<1> QED
  BY <1>1 DEF PromisedOK

\* Administrators leave used credentials readable.
LEMMA UsedMoves ==
  ASSUME NEW s, Tables(s), NEW t, Tables(t), Moved(s, t), NothingErased(s, t),
         NEW u, UsedOK(s, u)
  PROVE  UsedOK(t, u)
<1>1. ASSUME NEW v \in u.dispatching
      PROVE  /\ t.versions[v].account # None /\ t.versions[v].purpose = "send"
             /\ t.versions[v].readable
  BY DEF UsedOK, Moved, VersionMoved, NothingErased
<1>2. ASSUME NEW a \in inUse(u), t.current[a]["callback"] # None
      PROVE  t.versions[t.current[a]["callback"]].readable
  <2> DEFINE v == t.current[a]["callback"]
  <2>1. a \in Account /\ "callback" \in Purpose
    BY DEF UsedOK, Purpose
  <2>2. v \in VersionId
    BY <1>2, <2>1 DEF Tables, Types
  <2>3. v = s.current[a]["callback"] \/ t.versions[v].readable
    BY <1>2, <2>1 DEF NothingErased
  <2> QED
    BY <1>2, <2>2, <2>3 DEF UsedOK, NothingErased
<1> QED
  BY <1>1, <1>2 DEF UsedOK

\* What is in force while an account is in use.
LEMMA Remembered ==
  ASSUME NEW s, Tables(s), NEW u, UsedOK(s, u), NEW m, PromisedOK(s, m),
         NEW after, after = [a \in Account |->
           IF a \in inUse(u) THEN m[a] \union ({s.current[a]["callback"]} \ {None}) ELSE {}]
  PROVE  /\ PromisedOK(s, after)
         /\ \A a \in Account : after[a] # {} => a \in inUse(u)
<1>1. ASSUME NEW a \in Account, NEW v \in after[a]
      PROVE  /\ v \in VersionId
             /\ s.versions[v].account = a /\ s.versions[v].purpose = "callback"
             /\ s.versions[v].revoked \/ s.versions[v].readable
  <2>1. a \in inUse(u) /\ (v \in m[a] \/ (v = s.current[a]["callback"] /\ v # None))
    BY <1>1
  <2>2. CASE v \in m[a]
    BY <2>2 DEF PromisedOK
  <2>3. CASE v = s.current[a]["callback"] /\ v # None
    <3>1. CurrentOK(s, a, "callback", v) /\ v \in VersionId
      BY <2>3 DEF Tables, Secrets, Types, Purpose
    <3>2. s.versions[v].readable
      BY <2>1, <2>3 DEF UsedOK
    <3> QED
      BY <2>3, <3>1, <3>2 DEF CurrentOK
  <2> QED
    BY <2>1, <2>2, <2>3
<1> QED
  BY <1>1 DEF PromisedOK

(***************************************************************************)
(* Requests.                                                               *)
(***************************************************************************)
\* A receipt that appears bears the answer of an execution under its revision.
Fresh(s, t, receipt) ==
  receipt.command.action # "create" =>
    /\ s.projects[receipt.command.id].revision = receipt.command.expectedRevision
    /\ Final(t, receipt.command, receipt.body)
    /\ receipt.body = projectSnapshot(t, receipt.command.id)
    /\ ~changesProject(s, receipt.command) => t.projects = s.projects

ReceiptsMove(s, t) ==
  /\ \A k \in Key : s.receipts[k] # None => t.receipts[k] = s.receipts[k]
  /\ \A k \in Key :
       \/ t.adminReceipts[k] = s.adminReceipts[k]
       \/ /\ t.adminReceipts[k] = None
          /\ s.adminReceipts[k].command.action # "create"
       \/ s.adminReceipts[k] = None /\ Fresh(s, t, t.adminReceipts[k])

\* Saved answers of projects are final at every step.
LEMMA ReceiptsStayFinal ==
  ASSUME NEW s, Tables(s), NEW t, Tables(t), Moved(s, t), ReceiptsMove(s, t), ReceiptsFinal(s)
  PROVE  ReceiptsFinal(t)
<1> SUFFICES ASSUME NEW k \in Key, t.adminReceipts[k] # None,
                    t.adminReceipts[k].command.action # "create"
             PROVE  Final(t, t.adminReceipts[k].command, t.adminReceipts[k].body)
  BY DEF ReceiptsFinal
<1>1. CASE t.adminReceipts[k] = s.adminReceipts[k]
  <2> DEFINE receipt == s.adminReceipts[k]
  <2>1. receipt \in ProjectReceipt
    BY <1>1 DEF Tables, Types
  <2>2. receipt.command \in ProjectCommand
    BY <2>1 DEF ProjectReceipt
  <2>3. receipt.command.id \in Project /\ receipt.command.expectedRevision \in Nat
    BY <2>2, ProjectCommandShape
  <2>4. Final(s, receipt.command, receipt.body)
    BY <1>1 DEF ReceiptsFinal
  <2> QED
    BY <1>1, <2>3, <2>4, FinalMoves
<1>2. CASE s.adminReceipts[k] = None /\ Fresh(s, t, t.adminReceipts[k])
  BY <1>2 DEF Fresh
<1> QED
  BY <1>1, <1>2 DEF ReceiptsMove

\* A request that took effect stays marked by its receipt or its revision.
LEMMA EffectMoves ==
  ASSUME NEW s, Tables(s), NEW t, Tables(t), Moved(s, t), ReceiptsMove(s, t),
         NEW q \in Request, EffectIn(s, q)
  PROVE  EffectIn(t, q)
<1>1. q.key \in Key
  BY RequestShape
<1>2. CASE receiptKept(q)
  <2>1. receiptOf(s, q) # None /\ receiptOf(s, q).command = q.command
    BY <1>2 DEF EffectIn
  <2>2. receiptOf(t, q) = receiptOf(s, q)
    BY <1>1, <1>2, <2>1 DEF receiptOf, receiptKept, ReceiptsMove
  <2> QED
    BY <1>2, <2>1, <2>2 DEF EffectIn
<1>3. CASE ~receiptKept(q)
  <2> DEFINE p == q.command.id
  <2>1. p \in Project /\ q.command.expectedRevision \in Nat
    BY <1>3, RequestShape DEF receiptKept
  <2>2. /\ s.projects[p] \in ProjectRow /\ t.projects[p] \in ProjectRow /\ ProjectMoved(s, t, p)
    BY <2>1 DEF Tables, Types, Moved
  <2> QED
    BY <1>3, <2>1, <2>2 DEF EffectIn, ProjectMoved, ProjectRow
<1> QED
  BY <1>2, <1>3

\* An answer that was given stays the only one.
LEMMA AnswerMoves ==
  ASSUME NEW s, Tables(s), NEW t, Tables(t), Moved(s, t), ReceiptsMove(s, t),
         NEW q \in Request, NEW body, AnswerIn(s, q, body)
  PROVE  AnswerIn(t, q, body)
<1>1. q.key \in Key
  BY RequestShape
<1>2. CASE receiptKept(q)
  <2>1. /\ receiptOf(s, q) # None /\ receiptOf(s, q).command = q.command
        /\ receiptOf(s, q).body = body
    BY <1>2 DEF AnswerIn
  <2>2. receiptOf(t, q) = receiptOf(s, q)
    BY <1>1, <1>2, <2>1 DEF receiptOf, receiptKept, ReceiptsMove
  <2> QED
    BY <1>2, <2>1, <2>2 DEF AnswerIn
<1>3. CASE ~receiptKept(q)
  <2> DEFINE c == q.command
             receipt == t.adminReceipts[q.key]
  <2>1. c.id \in Project /\ c.expectedRevision \in Nat /\ c.action # "create"
    BY <1>3, RequestShape DEF receiptKept
  <2>2. Final(s, c, body)
    BY <1>3 DEF AnswerIn
  <2>3. Final(t, c, body)
    BY <2>1, <2>2, FinalMoves
  <2>4. ASSUME receipt # None, receipt.command = c PROVE receipt.body = body
    <3>1. CASE receipt = s.adminReceipts[q.key]
      BY <1>3, <2>1, <2>4, <3>1 DEF AnswerIn, receiptOf
    <3>2. CASE s.adminReceipts[q.key] = None /\ Fresh(s, t, receipt)
      <4>1. /\ s.projects[c.id].revision = c.expectedRevision
            /\ receipt.body = projectSnapshot(t, c.id)
            /\ ~changesProject(s, c) => t.projects = s.projects
        BY <2>1, <2>4, <3>2 DEF Fresh
      <4>2. ~changesProject(s, c)
        BY <2>2, <4>1 DEF Final
      <4>3. t.projects[c.id].revision = c.expectedRevision
        BY <4>1, <4>2
      <4> QED
        BY <2>3, <4>1, <4>3 DEF Final
    <3> QED
      BY <1>1, <2>4, <3>1, <3>2 DEF ReceiptsMove
  <2> QED
    BY <1>3, <2>1, <2>3, <2>4 DEF AnswerIn, receiptOf
<1> QED
  BY <1>2, <1>3

\* What a receipt answers is the answer of its execution.
LEMMA RepliesAreIn ==
  ASSUME NEW t, ReceiptsFinal(t), NEW q \in Request, NEW body \in replies(t, q)
  PROVE  AnswerIn(t, q, body)
<1>1. /\ receiptOf(t, q) # None /\ receiptOf(t, q).command = q.command
      /\ receiptOf(t, q).body = body
  BY DEF replies
<1>2. CASE receiptKept(q)
  BY <1>1, <1>2 DEF AnswerIn
<1>3. CASE ~receiptKept(q)
  <2>1. q.key \in Key
    BY RequestShape
  <2>2. receiptOf(t, q) = t.adminReceipts[q.key] /\ q.command.action # "create"
    BY <1>3 DEF receiptOf, receiptKept
  <2>3. Final(t, q.command, body)
    BY <1>1, <2>1, <2>2 DEF ReceiptsFinal
  <2> QED
    BY <1>1, <1>3, <2>3 DEF AnswerIn
<1> QED
  BY <1>2, <1>3

\* A request that is logged had not taken effect and has now.
LEMMA ExecutionIsOnce ==
  ASSUME NEW s, Tables(s), Left(s), NEW q \in Request, NEW t, t = executed(s, q)
  PROVE  /\ ReceiptsMove(s, t)
         /\ audits(t) # audits(s) => ~EffectIn(s, q) /\ EffectIn(t, q)
<1> DEFINE c == q.command
           key == q.key
<1>1. /\ Tables(t) /\ Moved(s, t)
      /\ IF c.id \in Project THEN ProjectMutation(s, t, key, c)
         ELSE RuntimeMutation(s, t, key, c)
  BY ExecutedStep
<1>2. key \in Key
  BY RequestShape
<1>3. CASE t = s
  BY <1>3 DEF ReceiptsMove, audits
<1>4. CASE t # s /\ c.id \notin Project
  <2>1. RuntimeStep(s, t) /\ s.receipts[key] = None
    BY <1>1, <1>4 DEF RuntimeMutation
  <2>2. PICK body : /\ [command |-> c, body |-> body] \in Receipt
                    /\ t.receipts = [s.receipts EXCEPT ![key] = [command |-> c, body |-> body]]
    BY <1>1, <1>4 DEF RuntimeMutation
  <2>3. t.adminReceipts = s.adminReceipts
    BY <2>1 DEF RuntimeStep, SameProjects
  <2>4. /\ t.receipts[key] # None /\ t.receipts[key].command = c
        /\ \A k \in Key \ {key} : t.receipts[k] = s.receipts[k]
    BY <1>2, <2>2, AdministrationAssumption DEF Tables, Types
  <2>5. ReceiptsMove(s, t)
    BY <2>1, <2>3, <2>4 DEF ReceiptsMove
  <2>6. ~EffectIn(s, q) /\ EffectIn(t, q)
    BY <1>4, <2>1, <2>4 DEF EffectIn, receiptKept, receiptOf
  <2> QED
    BY <2>5, <2>6
<1>5. CASE t # s /\ c.id \in Project
  <2>1. /\ ProjectStep(s, t) /\ s.adminReceipts[key] = None
        /\ t.projects[c.id].state # "absent"
        /\ c.action # "create" => s.projects[c.id].revision = c.expectedRevision
        /\ \/ /\ t.adminEvents = s.adminEvents /\ t.projects = s.projects
              /\ c.action # "create" /\ ~changesProject(s, c)
           \/ /\ t.projects[c.id].revision = s.projects[c.id].revision + 1
              /\ c.action = "create" \/ changesProject(s, c)
    BY <1>1, <1>5 DEF ProjectMutation
  <2>2. PICK receipt \in ProjectReceipt :
          /\ receipt.command = c /\ receipt.body = projectSnapshot(t, c.id)
          /\ t.adminReceipts = [s.adminReceipts EXCEPT ![key] = receipt]
    BY <1>1, <1>5 DEF ProjectMutation
  <2>3. /\ t.adminReceipts[key] = receipt /\ receipt # None
        /\ \A k \in Key \ {key} : t.adminReceipts[k] = s.adminReceipts[k]
    BY <1>2, <2>2, AdministrationAssumption DEF Tables, Types
  <2>4. t.receipts = s.receipts /\ t.events = s.events
    BY <2>1 DEF ProjectStep, SameRuntime
  <2>5. s.projects[c.id].revision \in Nat /\ t.projects[c.id].revision \in Nat
        /\ c.expectedRevision \in Nat
    BY <1>1, <1>5, RequestShape DEF Tables, Types, ProjectRow
  <2>6. ASSUME c.action # "create" PROVE Final(t, c, receipt.body)
    <3>1. CASE t.projects = s.projects /\ ~changesProject(s, c)
      <4>1. s.projects[c.id].state # "absent" /\ ProjectMoved(s, t, c.id)
        BY <1>1, <1>5, <2>1, <3>1 DEF Moved
      <4>2. Unmoved(s, t, c.id)
        BY <3>1, <4>1 DEF ProjectMoved
      <4>3. ~changesProject(t, c)
        BY <3>1, <4>2 DEF Unmoved, changesProject
      <4> QED
        BY <2>1, <2>2, <2>5, <2>6, <3>1, <4>3 DEF Final
    <3>2. CASE t.projects[c.id].revision = s.projects[c.id].revision + 1
      BY <2>1, <2>5, <2>6, <3>2 DEF Final
    <3> QED
      BY <2>1, <2>6, <3>1, <3>2
  <2>7. Fresh(s, t, receipt)
    BY <2>1, <2>2, <2>6 DEF Fresh
  <2>8. ReceiptsMove(s, t)
    BY <2>1, <2>3, <2>4, <2>7 DEF ReceiptsMove
  <2>9. ASSUME audits(t) # audits(s) PROVE ~EffectIn(s, q) /\ EffectIn(t, q)
    <3>1. t.projects[c.id].revision = s.projects[c.id].revision + 1
      BY <2>1, <2>4, <2>9 DEF audits
    <3>2. CASE c.action = "create"
      BY <1>5, <2>1, <2>2, <2>3, <3>2 DEF EffectIn, receiptKept, receiptOf
    <3>3. CASE c.action # "create"
      BY <1>5, <2>1, <2>5, <3>1, <3>3 DEF EffectIn, receiptKept
    <3> QED
      BY <3>2, <3>3
  <2> QED
    BY <2>8, <2>9
<1> QED
  BY <1>3, <1>4, <1>5

(***************************************************************************)
(* The invariant: at the beginning, and over every action.                 *)
(***************************************************************************)
LEMMA EmptyTables == Tables(emptyTables)
<1> DEFINE s == emptyTables
<1>1. Shape(s)
  BY DEF emptyTables, Shape
<1>2. noData \in Data
  BY DEF noData, Data
<1>3. absent \in ResourceRow
  BY <1>2 DEF absent, ResourceRow, ResourceState
<1>4. noVersion \in VersionRow /\ noGrant \in GrantRow /\ noAccess \in AccessRow
  BY DEF noVersion, VersionRow, Purpose, noGrant, GrantRow, noAccess, AccessRow
<1>5. noProject \in ProjectRow
  BY DEF noProject, ProjectRow, ProjectState, noSettings, Settings
<1>6. <<>> \in Seq(AuditEvent) /\ Log(<<>>, 0)
  BY DEF Log, numbered
<1>7. Types(s)
  BY <1>1, <1>3, <1>4, <1>5, <1>6 DEF Types, emptyTables, Versioned
<1>8. \A id \in Resource : ResourceOK(s, id)
  BY <1>3, <1>6 DEF ResourceOK, emptyTables, absent
<1>9. \A p \in Project : ProjectOK(s, p)
  BY <1>5, <1>6 DEF ProjectOK, emptyTables, noProject
<1>10. Secrets(s)
  BY DEF Secrets, CurrentOK, emptyTables, noVersion, absent, Resource
<1>11. \A g \in GrantId : ~s.access[g].revoked
  BY DEF emptyTables, noAccess
<1> QED
  BY <1>7, <1>8, <1>9, <1>10, <1>11 DEF Tables

\* The invariant holds of the empty tables.
LEMMA AdministrationStarts == Init => AdministrationInv
<1> SUFFICES ASSUME Init PROVE AdministrationInv
  OBVIOUS
<1>1. Tables(db)
  BY EmptyTables DEF Init
<1>2. UseOK
  BY DEF Init, UseOK, UsedOK, PromisedOK, inUse
<1>3. ReceiptsFinal(db)
  BY DEF Init, ReceiptsFinal, emptyTables
<1>4. IntentOK /\ RouteOK /\ RequestsOK
  BY <1>3 DEF Init, IntentOK, RouteOK, RequestsOK, AnswersAgree
<1> QED
  BY <1>1, <1>2, <1>4 DEF AdministrationInv

\* Whatever revision its author saw, a command is a command.
LEMMA ExpectedRevision ==
  ASSUME NEW c \in RuntimeCommand \union ProjectCommand, NEW n \in Nat
  PROVE  [c EXCEPT !.expectedRevision = n] \in RuntimeCommand \union ProjectCommand
<1>1. CASE c \in Creation
  BY <1>1 DEF RuntimeCommand, Creation
<1>2. CASE c \in Update
  BY <1>2 DEF RuntimeCommand, Update
<1>3. CASE c \in Transition
  BY <1>3 DEF RuntimeCommand, Transition
<1>4. CASE c \in Rotation
  BY <1>4 DEF RuntimeCommand, Rotation
<1>5. CASE c \in Revocation
  BY <1>5 DEF RuntimeCommand, Revocation
<1>6. CASE c \in Invalidation
  BY <1>6 DEF RuntimeCommand, Invalidation
<1>7. CASE c \in Assignment
  BY <1>7 DEF RuntimeCommand, Assignment
<1>8. CASE c \in ProjectCreation
  BY <1>8 DEF ProjectCommand, ProjectCreation
<1>9. CASE c \in ProjectUpdate
  BY <1>9 DEF ProjectCommand, ProjectUpdate
<1>10. CASE c \in ProjectAccess
  BY <1>10 DEF ProjectCommand, ProjectAccess
<1>11. CASE c \in ProjectLife
  BY <1>11 DEF ProjectCommand, ProjectLife
<1> QED
  BY <1>1, <1>2, <1>3, <1>4, <1>5, <1>6, <1>7, <1>8, <1>9, <1>10, <1>11
  DEF RuntimeCommand, ProjectCommand

\* Sending a request.
LEMMA SubmitKeeps ==
  ASSUME AdministrationInv, NEW key \in Key, submit(key)
  PROVE  AdministrationInv'
<1>1. PICK c \in scenario[key] :
        sent' = sent \union
          {[key |-> key, command |-> [c EXCEPT !.expectedRevision = revisionOf(db, c.id)]]}
  BY DEF submit
<1>2. c \in RuntimeCommand \union ProjectCommand
  BY ScenarioAssumption DEF AdministrationInv, RequestsOK
<1>3. c.id \in Project \/ c.id \in Resource
  BY <1>2, CommandShape, ProjectCommandShape
<1>4. revisionOf(db, c.id) \in Nat
  BY <1>3 DEF revisionOf, AdministrationInv, Tables, Types, ResourceRow, ProjectRow
<1>5. [c EXCEPT !.expectedRevision = revisionOf(db, c.id)] \in RuntimeCommand \union ProjectCommand
  BY <1>2, <1>4, ExpectedRevision
<1>6. sent' \subseteq Request
  BY <1>1, <1>5 DEF Request, AdministrationInv, RequestsOK
<1>7. UNCHANGED <<db, scenario, route, intent, use, effects, repeated, answers, promised>>
  BY DEF submit
<1> QED
  BY <1>6, <1>7 DEF AdministrationInv, UseOK, IntentOK, RouteOK, RequestsOK, AnswersAgree

\* The route and the captured authority live with every step of the tables.
LEMMA AuthorityHolds ==
  ASSUME AdministrationInv, Tables(db)', Moved(db, db'), UNCHANGED <<intent, route>>
  PROVE  IntentOK' /\ RouteOK'
<1>1. Tables(db) /\ Tables(db')
  BY DEF AdministrationInv
<1>2. intent # None => Captured(db', intent)
  BY <1>1, CapturedMoves DEF AdministrationInv, IntentOK
<1>3. route # None => Resolved(db', route)
  BY <1>1, ResolvedMoves DEF AdministrationInv, RouteOK
<1> QED
  BY <1>2, <1>3 DEF IntentOK, RouteOK

\* What is in use and remembered, once the tables serve what is used.
LEMMA UseHolds ==
  ASSUME Tables(db'), UsedOK(db', use'), PromisedOK(db', promised), remember
  PROVE  UseOK'
<1>1. promised' = [a \in Account |->
        IF a \in inUse(use') THEN promised[a] \union ({db'.current[a]["callback"]} \ {None})
        ELSE {}]
  BY DEF remember, inUse
<1>2. /\ PromisedOK(db', promised')
      /\ \A a \in Account : promised'[a] # {} => a \in inUse(use')
  BY <1>1, Remembered
<1> QED
  BY <1>2 DEF UseOK

\* A request arrives, for the first time or again.
LEMMA ExecuteKeeps ==
  ASSUME AdministrationInv, NEW request \in sent, execute(request)
  PROVE  AdministrationInv'
<1> DEFINE t == executed(db, request)
<1>1. /\ Left(db)
      /\ db' = t
      /\ effects' = IF audits(t) # audits(db) THEN effects \union {request} ELSE effects
      /\ repeated' = (repeated \/ (audits(t) # audits(db) /\ request \in effects))
      /\ answers' = answers \union {<<request, body>> : body \in replies(t, request)}
      /\ UNCHANGED <<scenario, sent, route, intent, use>>
      /\ remember
  BY DEF execute, identifiersLeft, Left
<1>2. request \in Request /\ Tables(db)
  BY DEF AdministrationInv, RequestsOK
<1>3. Tables(t) /\ Moved(db, t) /\ NothingErased(db, t)
  BY <1>1, <1>2, ExecutedStep
<1>4. /\ ReceiptsMove(db, t)
      /\ audits(t) # audits(db) => ~EffectIn(db, request) /\ EffectIn(t, request)
  BY <1>1, <1>2, ExecutionIsOnce
<1> HIDE DEF t
<1>5. IntentOK' /\ RouteOK'
  BY <1>1, <1>3, AuthorityHolds
<1>6. UseOK'
  <2>1. UsedOK(db', use') /\ PromisedOK(db', promised)
    BY <1>1, <1>2, <1>3, UsedMoves, PromisedMoves DEF AdministrationInv, UseOK
  <2> QED
    BY <1>1, <1>3, <2>1, UseHolds
<1>7. RequestsOK'
  <2>1. ReceiptsFinal(t)
    BY <1>2, <1>3, <1>4, ReceiptsStayFinal DEF AdministrationInv, RequestsOK
  <2>2. repeated' = FALSE
    BY <1>1, <1>4 DEF AdministrationInv, RequestsOK
  <2>3. effects' \subseteq Request /\ \A q \in effects' : EffectIn(t, q)
    <3>1. \A q \in effects : q \in Request /\ EffectIn(t, q)
      BY <1>2, <1>3, <1>4, EffectMoves DEF AdministrationInv, RequestsOK
    <3> QED
      BY <1>1, <1>2, <1>4, <3>1
  <2>4. ASSUME NEW x \in answers'
        PROVE  x = <<x[1], x[2]>> /\ x[1] \in Request /\ AnswerIn(t, x[1], x[2])
    <3>1. CASE x \in answers
      BY <1>2, <1>3, <1>4, <3>1, AnswerMoves DEF AdministrationInv, RequestsOK
    <3>2. CASE x \notin answers
      <4>1. PICK body \in replies(t, request) : x = <<request, body>>
        BY <1>1, <3>2
      <4>2. AnswerIn(t, request, body)
        BY <1>2, <2>1, RepliesAreIn
      <4> QED
        BY <1>2, <4>1, <4>2
    <3> QED
      BY <3>1, <3>2
  <2>5. ASSUME NEW x \in answers', NEW y \in answers', x[1] = y[1] PROVE x[2] = y[2]
    <3>1. ASSUME NEW z \in answers'
          PROVE  \/ z \in answers
                 \/ /\ z[1] = request /\ receiptOf(t, request) # None
                    /\ receiptOf(t, request).command = request.command
                    /\ z[2] = receiptOf(t, request).body
      BY <1>1 DEF replies
    <3>2. CASE x \in answers /\ y \in answers
      BY <2>5, <3>2 DEF AdministrationInv, RequestsOK, AnswersAgree
    <3>3. CASE ~(x \in answers /\ y \in answers)
      BY <2>4, <2>5, <3>1, <3>3 DEF AnswerIn
    <3> QED
      BY <3>2, <3>3
  <2>6. AnswersAgree'
    BY <2>5 DEF AnswersAgree
  <2> QED
    BY <1>1, <2>1, <2>2, <2>3, <2>4, <2>6 DEF RequestsOK, AdministrationInv
<1> QED
  BY <1>1, <1>3, <1>5, <1>6, <1>7 DEF AdministrationInv

\* An old receipt of a project is dropped.
LEMMA CleanupReceiptsKeeps ==
  ASSUME AdministrationInv, NEW key \in Key, cleanupAdminReceipts(key)
  PROVE  AdministrationInv'
<1>1. /\ db.adminReceipts[key] # None
      /\ db.adminReceipts[key].command.action # "create"
      /\ db' = [db EXCEPT !.adminReceipts[key] = None]
      /\ UNCHANGED <<scenario, sent, route, intent, use, effects, repeated, answers, promised>>
  BY DEF cleanupAdminReceipts
<1>2. Tables(db)
  BY DEF AdministrationInv
<1>3. /\ Tables(db') /\ Moved(db, db') /\ SameRuntime(db', db)
      /\ db'.adminReceipts = [db.adminReceipts EXCEPT ![key] = None]
  BY <1>1, <1>2, ReceiptDropped
<1>4. ReceiptsMove(db, db')
  <2>1. db'.receipts = db.receipts
    BY <1>3 DEF SameRuntime
  <2>2. \A k \in Key \ {key} : db'.adminReceipts[k] = db.adminReceipts[k]
    BY <1>2, <1>3 DEF Tables, Types
  <2>3. db'.adminReceipts[key] = None
    BY <1>2, <1>3 DEF Tables, Types
  <2> QED
    BY <1>1, <2>1, <2>2, <2>3 DEF ReceiptsMove
<1>5. IntentOK' /\ RouteOK'
  BY <1>1, <1>3, AuthorityHolds
<1>6. UseOK'
  BY <1>1, <1>3 DEF AdministrationInv, UseOK, UsedOK, PromisedOK, SameRuntime
<1>7. RequestsOK'
  <2>1. ReceiptsFinal(db')
    BY <1>2, <1>3, <1>4, ReceiptsStayFinal DEF AdministrationInv, RequestsOK
  <2>2. \A q \in effects : EffectIn(db', q)
    BY <1>2, <1>3, <1>4, EffectMoves DEF AdministrationInv, RequestsOK
  <2>3. \A x \in answers : AnswerIn(db', x[1], x[2])
    BY <1>2, <1>3, <1>4, AnswerMoves DEF AdministrationInv, RequestsOK
  <2> QED
    BY <1>1, <2>1, <2>2, <2>3 DEF RequestsOK, AdministrationInv, AnswersAgree
<1> QED
  BY <1>3, <1>5, <1>6, <1>7 DEF AdministrationInv

\* A step of the delivery leaves the requests alone.
LEMMA RequestsHold ==
  ASSUME AdministrationInv, UNCHANGED <<db, scenario, sent, effects, repeated, answers>>
  PROVE  RequestsOK'
BY DEF AdministrationInv, RequestsOK, AnswersAgree

\* Every instance that is there belongs to an account that is there.
LEMMA InstanceAccount ==
  ASSUME NEW s, Tables(s), NEW i \in Instance, exists(s, i)
  PROVE  accountOf(s, i) \in Account /\ accountOf(s, i) \in Resource /\ i \in Resource
BY DEF Tables, ResourceOK, Resource, exists, accountOf

\* Before the account is retired the credential in force can be read.
LEMMA LiveCallback ==
  ASSUME NEW s, Tables(s), NEW a \in Account, s.resources[a].state # "retired",
         s.current[a]["callback"] # None
  PROVE  s.versions[s.current[a]["callback"]].readable
<1>1. CurrentOK(s, a, "callback", s.current[a]["callback"])
  BY DEF Tables, Secrets, Purpose
<1> QED
  BY <1>1 DEF CurrentOK

\* A resolved and narrowed route.
LEMMA PrepareKeeps ==
  ASSUME AdministrationInv, prepareRoute
  PROVE  AdministrationInv'
<1>1. PICK r \in resolvePolicy(db) : \E chosen \in (SUBSET DOMAIN r.steps) \ {{}} :
        route' = narrowed(r, chosen)
  BY DEF prepareRoute
<1>2. PICK chosen : /\ chosen # {} /\ chosen \subseteq DOMAIN r.steps
                    /\ route' = narrowed(r, chosen)
  BY <1>1
<1>3. /\ r = [policyRevision |-> r.policyRevision, policyEpoch |-> r.policyEpoch,
              policyGrant |-> r.policyGrant, steps |-> r.steps, grants |-> r.grants]
      /\ r.policyRevision = db.resources[policy].configurationRevision
      /\ DOMAIN r.steps = resolvedSteps(db)
      /\ enabled(db, policy)
  BY DEF resolvePolicy
<1>4. /\ route'.policyRevision = r.policyRevision
      /\ DOMAIN route'.steps = chosen
  BY <1>2, <1>3 DEF narrowed
<1>5. policy \in Resource /\ db.resources[policy] \in ResourceRow
  BY AdministrationAssumption DEF AdministrationInv, Tables, Types, Resource
<1>6. /\ chosen # {} /\ chosen \subseteq db.resources[policy].data.steps
      /\ chosen \subseteq Instance
  <2>1. chosen # {} /\ chosen \subseteq resolvedSteps(db)
    BY <1>2, <1>3
  <2>2. resolvedSteps(db) \subseteq db.resources[policy].data.steps
    BY DEF resolvedSteps
  <2>3. db.resources[policy].data.steps \subseteq Instance
    BY <1>5 DEF ResourceRow, Data
  <2> QED
    BY <2>1, <2>2, <2>3
<1>7. Resolved(db, route')
  BY <1>3, <1>4, <1>5, <1>6 DEF Resolved, enabled, ResourceRow
<1>8. UNCHANGED <<db, scenario, sent, intent, use, effects, repeated, answers, promised>>
  BY DEF prepareRoute
<1>9. RequestsOK'
  BY <1>8, RequestsHold
<1> QED
  BY <1>7, <1>8, <1>9 DEF AdministrationInv, UseOK, IntentOK, RouteOK

\* What holds of a route that is revalidated.
RevalidatedOK(s, r) ==
  \A i \in DOMAIN r.steps :
    /\ i \in Instance /\ bothEnabled(s, i)
    /\ accountOf(s, i) \in Account /\ r.steps[i].data.account = accountOf(s, i)
    /\ Published(s, i, r.steps[i].revision)
    /\ instanceGrants(s, project, i) # {}

\* What revalidation establishes of every step of a route.
LEMMA RouteRevalidated ==
  ASSUME NEW s, Tables(s), NEW r, Resolved(s, r), revalidateRoute(s, r)
  PROVE  RevalidatedOK(s, r)
<1> SUFFICES ASSUME NEW i \in DOMAIN r.steps
             PROVE  /\ i \in Instance /\ bothEnabled(s, i)
                    /\ accountOf(s, i) \in Account
                    /\ r.steps[i].data.account = accountOf(s, i)
                    /\ Published(s, i, r.steps[i].revision)
                    /\ instanceGrants(s, project, i) # {}
  BY DEF RevalidatedOK
<1>1. /\ bothEnabled(s, i)
      /\ savedGrants(s, project, i, r.grants[i]) # {}
      /\ resolvedStep(s, i) = r.steps[i]
      /\ revisionValid(s, i, r.steps[i].revision)
  BY DEF revalidateRoute
<1>2. i \in Instance
  BY DEF Resolved
<1>3. accountOf(s, i) \in Account
  BY <1>1, <1>2, InstanceAccount DEF bothEnabled, enabled
<1>4. r.steps[i].data.account = accountOf(s, i)
  BY <1>1 DEF resolvedStep, accountOf
<1>5. Published(s, i, r.steps[i].revision)
  BY <1>1 DEF revisionValid, Published
<1>6. instanceGrants(s, project, i) # {}
  BY <1>1 DEF savedGrants, instanceGrants
<1> QED
  BY <1>1, <1>2, <1>3, <1>4, <1>5, <1>6

\* The present epoch of what is enabled.
LEMMA EnabledEpoch ==
  ASSUME NEW s, Tables(s), NEW id \in Resource, enabled(s, id)
  PROVE  EpochOK(s, id, s.resources[id].epoch)
BY DEF Tables, Types, ResourceRow, EpochOK, enabled

\* Captured authority stands at the moment it is captured.
LEMMA AuthorityCaptured ==
  ASSUME NEW s, Tables(s), NEW r, Resolved(s, r), requireAccess(s), revalidateRoute(s, r)
  PROVE  Captured(s, captureAuthority(s, r))
<1> DEFINE a == captureAuthority(s, r)
<1>1. /\ policy \in Resource /\ project \in Project
      /\ s.projects[project] \in ProjectRow
  BY AdministrationAssumption DEF Tables, Types, Resource
<1>2. /\ a.principalGrant = CHOOSE g \in accessGrants(s, project, principal) : TRUE
      /\ a.projectEpoch = s.projects[project].sendEpoch
      /\ a.policyGrant = CHOOSE g \in activeGrants(s, project, policy) : TRUE
      /\ a.policyEpoch = s.resources[policy].epoch
      /\ a.policyRevision = r.policyRevision
      /\ DOMAIN a.steps = DOMAIN r.steps
      /\ \A i \in DOMAIN r.steps :
           /\ a.revisions[i] = r.steps[i].revision
           /\ a.steps[i].epoch = s.resources[i].epoch
           /\ a.steps[i].accountEpoch = s.resources[accountOf(s, i)].epoch
           /\ a.steps[i].grant = CHOOSE g \in instanceGrants(s, project, i) : TRUE
  BY DEF captureAuthority
<1> HIDE DEF a
<1>3. /\ s.projects[project].state # "absent"
      /\ a.projectEpoch \in Nat /\ a.projectEpoch <= s.projects[project].sendEpoch
      /\ a.projectEpoch = s.projects[project].sendEpoch => s.projects[project].state = "active"
  BY <1>1, <1>2 DEF requireAccess, ProjectRow
<1>4. a.principalGrant \in GrantId
  BY <1>2 DEF requireAccess, accessGrants
<1>5. GivenGrant(s, a.policyGrant)
  BY <1>2 DEF revalidateRoute, activeGrants, GivenGrant
<1>6. EpochOK(s, policy, a.policyEpoch) /\ Published(s, policy, a.policyRevision)
  BY <1>1, <1>2, EnabledEpoch DEF revalidateRoute, revisionValid, Published
<1>7. RevalidatedOK(s, r)
  BY RouteRevalidated
<1>8. ASSUME NEW i \in DOMAIN a.steps
      PROVE  /\ i \in Instance
             /\ EpochOK(s, i, a.steps[i].epoch)
             /\ EpochOK(s, accountOf(s, i), a.steps[i].accountEpoch)
             /\ GivenGrant(s, a.steps[i].grant)
             /\ Published(s, i, a.revisions[i])
  <2>1. /\ i \in Instance /\ bothEnabled(s, i) /\ accountOf(s, i) \in Account
        /\ Published(s, i, r.steps[i].revision) /\ instanceGrants(s, project, i) # {}
    BY <1>2, <1>7 DEF RevalidatedOK
  <2>2. i \in Resource /\ accountOf(s, i) \in Resource
    BY <2>1 DEF Resource
  <2>3. EpochOK(s, i, s.resources[i].epoch)
        /\ EpochOK(s, accountOf(s, i), s.resources[accountOf(s, i)].epoch)
    BY <2>1, <2>2, EnabledEpoch DEF bothEnabled
  <2>4. a.steps[i].grant \in instanceGrants(s, project, i)
    BY <1>2, <2>1
  <2>5. GivenGrant(s, a.steps[i].grant)
    BY <2>4 DEF instanceGrants, activeGrants, GivenGrant
  <2> QED
    BY <1>2, <2>1, <2>3, <2>5
<1> QED
  BY <1>3, <1>4, <1>5, <1>6, <1>8 DEF Captured, a

\* Admission, or a route that was refused.
LEMMA AdmitKeeps ==
  ASSUME AdministrationInv, admitOperation
  PROVE  AdministrationInv'
<1>1. /\ route # None /\ route' = None
      /\ UNCHANGED <<db, scenario, sent, effects, repeated, answers>>
      /\ remember
  BY DEF admitOperation
<1>2. RequestsOK' /\ RouteOK' /\ Tables(db)'
  BY <1>1, RequestsHold DEF RouteOK, AdministrationInv
<1>3. Tables(db) /\ UsedOK(db, use) /\ PromisedOK(db, promised) /\ Resolved(db, route)
  BY <1>1 DEF AdministrationInv, UseOK, RouteOK
<1>4. CASE requireAccess(db) /\ revalidateRoute(db, route)
  <2>1. /\ intent' = captureAuthority(db, route)
        /\ use' = [use EXCEPT !.routes = stepAccounts(route)]
    BY <1>4 DEF admitOperation
  <2>2. IntentOK'
    BY <1>1, <1>3, <1>4, <2>1, AuthorityCaptured DEF IntentOK
  <2>3. RevalidatedOK(db, route)
    BY <1>3, <1>4, RouteRevalidated
  <2>4. ASSUME NEW a \in stepAccounts(route)
        PROVE  /\ a \in Account
               /\ db.current[a]["callback"] # None =>
                    db.versions[db.current[a]["callback"]].readable
    <3>1. PICK i \in DOMAIN route.steps : a = route.steps[i].data.account
      BY DEF stepAccounts
    <3>2. a \in Account /\ enabled(db, a)
      BY <2>3, <3>1 DEF RevalidatedOK, bothEnabled
    <3>3. db.resources[a].state # "retired"
      BY <3>2 DEF enabled, state
    <3> QED
      BY <1>3, <3>2, <3>3, LiveCallback
  <2>5. /\ use' = [dispatching |-> use.dispatching, routes |-> stepAccounts(route),
                   inbox |-> use.inbox]
    BY <1>3, <2>1 DEF UsedOK
  <2>6. UsedOK(db, use')
    BY <1>3, <2>4, <2>5 DEF UsedOK, inUse
  <2>7. UseOK'
    BY <1>1, <1>3, <2>6, UseHolds
  <2> QED
    BY <1>2, <2>2, <2>7 DEF AdministrationInv
<1>5. CASE ~(requireAccess(db) /\ revalidateRoute(db, route))
  <2>1. UNCHANGED <<intent, use>>
    BY <1>5 DEF admitOperation
  <2>2. UseOK'
    BY <1>1, <1>3, <2>1, UseHolds
  <2>3. IntentOK'
    BY <1>1, <2>1 DEF IntentOK, AdministrationInv
  <2> QED
    BY <1>2, <2>2, <2>3 DEF AdministrationInv
<1> QED
  BY <1>4, <1>5

\* A dispatch takes a credential that is in force and can be read.
LEMMA DispatchKeeps ==
  ASSUME AdministrationInv, NEW i \in Instance, dispatch(i)
  PROVE  AdministrationInv'
<1> DEFINE a == accountOf(db, i)
           v == db.current[a]["send"]
<1>1. /\ mayDispatch(db, intent, i) /\ configured(db, a)
      /\ use' = [use EXCEPT !.dispatching = @ \union {v}]
      /\ UNCHANGED <<db, scenario, sent, route, intent, effects, repeated, answers>>
      /\ remember
  BY DEF dispatch
<1>2. Tables(db) /\ UsedOK(db, use) /\ PromisedOK(db, promised)
  BY DEF AdministrationInv, UseOK
<1>3. a \in Account
  BY <1>1, <1>2, InstanceAccount DEF mayDispatch, stepEligible, bothEnabled, enabled
<1>4. /\ v \in VersionId /\ v # None /\ db.versions[v].readable
      /\ CurrentOK(db, a, "send", v)
  BY <1>1, <1>2, <1>3 DEF configured, readable, Tables, Types, Secrets, Purpose
<1>5. db.versions[v].account # None /\ db.versions[v].purpose = "send"
  BY <1>3, <1>4, ResourcesAssumption DEF CurrentOK
<1> HIDE DEF v
<1>6. use' = [dispatching |-> use.dispatching \union {v}, routes |-> use.routes,
              inbox |-> use.inbox]
  BY <1>1, <1>2 DEF UsedOK
<1>7. UsedOK(db, use')
  BY <1>2, <1>4, <1>5, <1>6 DEF UsedOK, inUse
<1>8. UseOK'
  BY <1>1, <1>2, <1>7, UseHolds
<1> QED
  BY <1>1, <1>8, RequestsHold DEF AdministrationInv, IntentOK, RouteOK

\* Dropping what is in use needs no more than before.
LEMMA LessUsed ==
  ASSUME AdministrationInv, UNCHANGED <<db, scenario, sent, effects, repeated, answers>>,
         NEW d \in SUBSET use.dispatching, NEW r \in SUBSET use.routes,
         NEW n \in SUBSET use.inbox,
         use' = [dispatching |-> d, routes |-> r, inbox |-> n], remember
  PROVE  UseOK' /\ RequestsOK' /\ Tables(db)'
<1>1. Tables(db) /\ UsedOK(db, use) /\ PromisedOK(db, promised)
  BY DEF AdministrationInv, UseOK
<1>2. UsedOK(db, use')
  BY <1>1 DEF UsedOK, inUse
<1>3. UseOK'
  BY <1>1, <1>2, UseHolds
<1> QED
  BY <1>1, <1>3, RequestsHold

\* A dispatch ends.
LEMMA EndDispatchKeeps ==
  ASSUME AdministrationInv, NEW v \in VersionId, endDispatch(v)
  PROVE  AdministrationInv'
<1>1. use' = [dispatching |-> use.dispatching \ {v}, routes |-> use.routes,
              inbox |-> use.inbox]
  BY DEF AdministrationInv, UseOK, UsedOK, endDispatch
<1>2. UseOK' /\ RequestsOK' /\ Tables(db)'
  BY <1>1, LessUsed DEF endDispatch
<1> QED
  BY <1>2 DEF endDispatch, AdministrationInv, IntentOK, RouteOK

\* Retention deletes the operation.
LEMMA DeleteOperationKeeps ==
  ASSUME AdministrationInv, deleteOperation
  PROVE  AdministrationInv'
<1>1. use' = [dispatching |-> use.dispatching, routes |-> {}, inbox |-> use.inbox]
  BY DEF AdministrationInv, UseOK, UsedOK, deleteOperation
<1>2. UseOK' /\ RequestsOK' /\ Tables(db)'
  BY <1>1, LessUsed DEF deleteOperation
<1> QED
  BY <1>2 DEF deleteOperation, AdministrationInv, IntentOK, RouteOK

\* Retention deletes stored reports.
LEMMA DeleteReportsKeeps ==
  ASSUME AdministrationInv, NEW a \in Account, deleteReports(a)
  PROVE  AdministrationInv'
<1>1. use' = [dispatching |-> use.dispatching, routes |-> use.routes,
              inbox |-> use.inbox \ {a}]
  BY DEF AdministrationInv, UseOK, UsedOK, deleteReports
<1>2. UseOK' /\ RequestsOK' /\ Tables(db)'
  BY <1>1, LessUsed DEF deleteReports
<1> QED
  BY <1>2 DEF deleteReports, AdministrationInv, IntentOK, RouteOK

\* A report that was authenticated is stored: the credential in force can be read.
LEMMA StoreReportKeeps ==
  ASSUME AdministrationInv, NEW a \in Account, storeReport(a)
  PROVE  AdministrationInv'
<1>1. PICK w \in VersionId : /\ db.versions[w].account = a
                             /\ db.versions[w].purpose = "callback"
                             /\ readable(db, w)
  BY DEF storeReport
<1>2. Tables(db) /\ UsedOK(db, use) /\ PromisedOK(db, promised)
  BY DEF AdministrationInv, UseOK
<1>3. db.current[a]["callback"] # None => db.versions[db.current[a]["callback"]].readable
  <2>1. CurrentOK(db, a, "callback", db.current[a]["callback"])
    BY <1>2 DEF Tables, Secrets, Purpose
  <2> QED
    BY <1>1, <2>1 DEF CurrentOK
<1>4. use' = [dispatching |-> use.dispatching, routes |-> use.routes,
              inbox |-> use.inbox \union {a}]
  BY <1>2 DEF UsedOK, storeReport
<1>5. UsedOK(db, use')
  BY <1>2, <1>3, <1>4 DEF UsedOK, inUse
<1>6. UNCHANGED <<db, scenario, sent, route, intent, effects, repeated, answers>> /\ remember
  BY DEF storeReport
<1>7. UseOK'
  BY <1>2, <1>5, <1>6, UseHolds
<1> QED
  BY <1>6, <1>7, RequestsHold DEF AdministrationInv, IntentOK, RouteOK

\* Cleanup spares what is in use and what was promised.
LEMMA CleanupSecretsKeeps ==
  ASSUME AdministrationInv, cleanupSecrets
  PROVE  AdministrationInv'
<1>1. /\ db' = cleanupRuntimeSecrets(db, use)
      /\ UNCHANGED <<scenario, sent, route, intent, use, effects, repeated, answers, promised>>
  BY DEF cleanupSecrets
<1>2. /\ Tables(db) /\ UsedOK(db, use) /\ PromisedOK(db, promised)
      /\ \A a \in Account : promised[a] # {} => a \in inUse(use)
  BY DEF AdministrationInv, UseOK
<1>3. ErasureOK(db, db', use)
  BY <1>1, <1>2, ErasureStep
<1>4. /\ Tables(db') /\ Moved(db, db') /\ db'.current = db.current
      /\ db'.projects = db.projects /\ db'.access = db.access
      /\ db'.receipts = db.receipts /\ db'.adminReceipts = db.adminReceipts
      /\ \A v \in VersionId :
           /\ db'.versions[v].account = db.versions[v].account
           /\ db'.versions[v].purpose = db.versions[v].purpose
           /\ db'.versions[v].revoked = db.versions[v].revoked
           /\ db'.versions[v].readable <=>
                db.versions[v].readable /\ ~superfluous(db, v, use)
  BY <1>3 DEF ErasureOK
<1>5. IntentOK' /\ RouteOK'
  BY <1>1, <1>4, AuthorityHolds
<1>6. ASSUME NEW v \in use.dispatching
      PROVE  /\ db'.versions[v].account # None /\ db'.versions[v].purpose = "send"
             /\ db'.versions[v].readable
  BY <1>2, <1>4 DEF UsedOK, superfluous
<1>7. ASSUME NEW a \in inUse(use), db.current[a]["callback"] # None
      PROVE  db'.versions[db.current[a]["callback"]].readable
  <2> DEFINE v == db.current[a]["callback"]
  <2>1. a \in Account /\ db.versions[v].readable
    BY <1>2, <1>7 DEF UsedOK
  <2>2. v \in VersionId /\ CurrentOK(db, a, "callback", v)
    BY <1>2, <1>7, <2>1 DEF Tables, Types, Secrets, Purpose
  <2> HIDE DEF v
  <2>3. ~superfluous(db, v, use)
    BY <1>7, <2>2 DEF CurrentOK, superfluous, inUse, v
  <2> QED
    BY <1>4, <2>1, <2>2, <2>3 DEF v
<1>8. UsedOK(db', use)
  BY <1>2, <1>4, <1>6, <1>7 DEF UsedOK
<1>9. ASSUME NEW a \in Account, NEW v \in promised[a]
      PROVE  /\ db'.versions[v].account = a /\ db'.versions[v].purpose = "callback"
             /\ db'.versions[v].revoked \/ db'.versions[v].readable
  <2>1. /\ v \in VersionId /\ db.versions[v].account = a
        /\ db.versions[v].purpose = "callback"
        /\ db.versions[v].revoked \/ db.versions[v].readable
        /\ a \in inUse(use)
    BY <1>2 DEF PromisedOK
  <2>2. superfluous(db, v, use) => db.versions[v].revoked
    BY <2>1 DEF superfluous, inUse
  <2> QED
    BY <1>4, <2>1, <2>2
<1>10. PromisedOK(db', promised)
  BY <1>2, <1>9 DEF PromisedOK
<1>11. UseOK'
  BY <1>1, <1>2, <1>8, <1>10 DEF UseOK
<1>12. RequestsOK'
  <2>1. ReceiptsMove(db, db')
    BY <1>4 DEF ReceiptsMove
  <2>2. ReceiptsFinal(db')
    BY <1>2, <1>4, <2>1, ReceiptsStayFinal DEF AdministrationInv, RequestsOK
  <2>3. \A q \in effects : EffectIn(db', q)
    BY <1>2, <1>4, <2>1, EffectMoves DEF AdministrationInv, RequestsOK
  <2>4. \A x \in answers : AnswerIn(db', x[1], x[2])
    BY <1>2, <1>4, <2>1, AnswerMoves DEF AdministrationInv, RequestsOK
  <2> QED
    BY <1>1, <2>2, <2>3, <2>4 DEF RequestsOK, AdministrationInv, AnswersAgree
<1> QED
  BY <1>4, <1>5, <1>11, <1>12 DEF AdministrationInv

\* Every action keeps the invariant.
LEMMA AdministrationIsKept == AdministrationInv /\ [Next]_vars => AdministrationInv'
<1> SUFFICES ASSUME AdministrationInv, [Next]_vars PROVE AdministrationInv'
  OBVIOUS
<1>1. ASSUME NEW key \in Key, submit(key) PROVE AdministrationInv'
  BY <1>1, SubmitKeeps
<1>2. ASSUME NEW key \in Key, cleanupAdminReceipts(key) PROVE AdministrationInv'
  BY <1>2, CleanupReceiptsKeeps
<1>3. ASSUME NEW request \in sent, execute(request) PROVE AdministrationInv'
  BY <1>3, ExecuteKeeps
<1>4. CASE prepareRoute
  BY <1>4, PrepareKeeps
<1>5. CASE admitOperation
  BY <1>5, AdmitKeeps
<1>6. ASSUME NEW i \in Instance, dispatch(i) PROVE AdministrationInv'
  BY <1>6, DispatchKeeps
<1>7. CASE \E v \in VersionId : endDispatch(v)
  BY <1>7, EndDispatchKeeps
<1>8. CASE deleteOperation
  BY <1>8, DeleteOperationKeeps
<1>9. ASSUME NEW a \in Account, storeReport(a) PROVE AdministrationInv'
  BY <1>9, StoreReportKeeps
<1>10. ASSUME NEW a \in Account, deleteReports(a) PROVE AdministrationInv'
  BY <1>10, DeleteReportsKeeps
<1>11. CASE cleanupSecrets
  BY <1>11, CleanupSecretsKeeps
<1>12. CASE UNCHANGED vars
  BY <1>12 DEF vars, AdministrationInv, UseOK, IntentOK, RouteOK, RequestsOK, AnswersAgree
<1> QED
  BY <1>1, <1>2, <1>3, <1>4, <1>5, <1>6, <1>7, <1>8, <1>9, <1>10, <1>11, <1>12 DEF Next

\* The invariant, in every reachable state.
LEMMA AdministrationHolds == Spec => []AdministrationInv
<1> QED
  BY AdministrationStarts, AdministrationIsKept, PTL DEF Spec

\* Every step moves the tables as no transaction takes back.
LEMMA TablesMove ==
  ASSUME AdministrationInv, [Next]_vars
  PROVE  Tables(db) /\ Tables(db') /\ Moved(db, db')
<1>1. Tables(db) /\ Tables(db')
  <2>1. AdministrationInv'
    BY AdministrationIsKept
  <2> QED
    BY <2>1 DEF AdministrationInv
<1>2. CASE db' = db
  <2>1. Moved(db, db)
    BY <1>1, NothingMoved
  <2> QED
    BY <1>1, <1>2, <2>1
<1>3. ASSUME NEW request \in sent, execute(request) PROVE Moved(db, db')
  <2>1. Left(db) /\ request \in Request /\ db' = executed(db, request)
    BY <1>3 DEF execute, identifiersLeft, Left, AdministrationInv, RequestsOK
  <2> QED
    BY <1>1, <2>1, ExecutedStep
<1>4. ASSUME NEW key \in Key, cleanupAdminReceipts(key) PROVE Moved(db, db')
  BY <1>1, <1>4, ReceiptDropped DEF cleanupAdminReceipts
<1>5. CASE cleanupSecrets
  BY <1>1, <1>5, ErasureStep DEF cleanupSecrets, ErasureOK
<1>6. \/ db' = db
      \/ \E request \in sent : execute(request)
      \/ \E key \in Key : cleanupAdminReceipts(key)
      \/ cleanupSecrets
  BY DEF Next, vars, submit, prepareRoute, admitOperation, dispatch, endDispatch,
         deleteOperation, storeReport, deleteReports
<1> QED
  BY <1>1, <1>2, <1>3, <1>4, <1>5, <1>6

(***************************************************************************)
(* Theorems.                                                               *)
(***************************************************************************)
\* The tables keep their types, whatever is asked of them.
THEOREM TypeCorrect == Spec => []TypeOK
<1>1. AdministrationInv => TypeOK
  BY DEF AdministrationInv, Tables, Types, UseOK, UsedOK, PromisedOK, inUse, RequestsOK, TypeOK
<1> QED
  BY <1>1, AdministrationHolds, PTL

\* One event for each revision, in order: no change goes unlogged, no retry,
\* repetition or refusal is logged (runtime/mutate.ts, projects/mutate.ts).
THEOREM AuditIsComplete == Spec => []AuditComplete
<1>1. AdministrationInv => AuditComplete
  BY DEF AdministrationInv, Tables, ResourceOK, ProjectOK, Log, AuditComplete
<1> QED
  BY <1>1, AdministrationHolds, PTL

\* However often a request arrives it takes effect once and has one answer,
\* before its receipt is dropped and after (requests/receipts.ts).
THEOREM RequestsExecuteOnce == Spec => []RequestsAreIdempotent
<1>1. AdministrationInv => RequestsAreIdempotent
  BY DEF AdministrationInv, RequestsOK, RequestsAreIdempotent, ExecutedOnce
<1> QED
  BY <1>1, AdministrationHolds, PTL

\* Cleanup erases no credential that an account in force, a dispatch under way
\* or a retained report still needs (runtime/retention.ts).
THEOREM CredentialsOutliveUse == Spec => []SecretsOutliveUse
<1>1. AdministrationInv => SecretsOutliveUse
  <2> SUFFICES ASSUME AdministrationInv PROVE SecretsOutliveUse
    OBVIOUS
  <2>1. \A v \in use.dispatching : db.versions[v].readable
    BY DEF AdministrationInv, UseOK, UsedOK
  <2>2. ASSUME NEW a \in Account, NEW p \in Purpose, state(db, a) # "retired",
               db.current[a][p] # None
        PROVE  readable(db, db.current[a][p])
    <3>1. CurrentOK(db, a, p, db.current[a][p])
      BY DEF AdministrationInv, Tables, Secrets
    <3> QED
      BY <2>2, <3>1 DEF CurrentOK, readable, state
  <2>3. \A a \in Account : \A v \in promised[a] :
          db.versions[v].revoked \/ db.versions[v].readable
    BY DEF AdministrationInv, UseOK, PromisedOK
  <2> QED
    BY <2>1, <2>2, <2>3 DEF SecretsOutliveUse
<1> QED
  BY <1>1, AdministrationHolds, PTL

\* What may send after a step might have sent before it.
LEMMA AuthorityOnlyFalls ==
  ASSUME NEW s, Tables(s), NEW t, Tables(t), Moved(s, t), NEW a, Captured(s, a),
         NEW i \in DOMAIN a.steps, mayDispatch(t, a, i)
  PROVE  mayDispatch(s, a, i)
<1>1. project \in Project /\ None # project
  BY AdministrationAssumption
<1>2. /\ i \in Instance
      /\ EpochOK(s, i, a.steps[i].epoch)
      /\ EpochOK(s, accountOf(s, i), a.steps[i].accountEpoch)
      /\ GivenGrant(s, a.steps[i].grant)
      /\ Published(s, i, a.revisions[i])
  BY DEF Captured
<1>3. accountOf(t, i) = accountOf(s, i)
  BY <1>2 DEF EpochOK, exists, accountOf, Moved, RowMoved
<1>4. ASSUME NEW id, NEW epoch, EpochOK(s, id, epoch), t.resources[id].epoch = epoch
      PROVE  enabled(s, id) /\ s.resources[id].epoch = epoch
  <2>1. /\ id \in Resource /\ s.resources[id] \in ResourceRow /\ t.resources[id] \in ResourceRow
        /\ RowMoved(id, s.resources[id], t.resources[id])
    BY <1>4 DEF EpochOK, Tables, Types, Moved
  <2> QED
    BY <1>4, <2>1 DEF EpochOK, RowMoved, ResourceRow, enabled
<1>5. ASSUME NEW g, NEW id, GivenGrant(s, g), g \in activeGrants(t, project, id)
      PROVE  g \in activeGrants(s, project, id)
  <2>1. GrantStep(s.grants[g], t.grants[g])
    BY <1>5 DEF GivenGrant, Moved
  <2> QED
    BY <1>1, <1>5, <2>1 DEF GivenGrant, activeGrants, GrantStep
<1>6. ASSUME NEW id, NEW revision, Published(s, id, revision), revisionValid(t, id, revision)
      PROVE  revisionValid(s, id, revision)
  BY <1>6 DEF Published, revisionValid, Moved
<1>7. intentEligible(s, a)
  <2>1. s.projects[project].state = "active" /\ s.projects[project].sendEpoch = a.projectEpoch
    <3>1. /\ s.projects[project] \in ProjectRow /\ t.projects[project] \in ProjectRow
          /\ ProjectMoved(s, t, project)
      BY <1>1 DEF Tables, Types, Moved
    <3>2. t.projects[project].sendEpoch = a.projectEpoch
      BY DEF mayDispatch, intentEligible
    <3> QED
      BY <3>1, <3>2 DEF Captured, ProjectMoved, ProjectRow
  <2>2. ~s.access[a.principalGrant].revoked
    BY DEF Captured, Moved, mayDispatch, intentEligible
  <2>3. a.policyGrant \in activeGrants(s, project, policy)
    BY <1>5 DEF Captured, mayDispatch, intentEligible
  <2>4. enabled(s, policy) /\ s.resources[policy].epoch = a.policyEpoch
    BY <1>4 DEF Captured, mayDispatch, intentEligible
  <2> QED
    BY <2>1, <2>2, <2>3, <2>4 DEF intentEligible
<1>8. stepEligible(s, a, i)
  <2>1. revisionValid(s, policy, a.policyRevision) /\ revisionValid(s, i, a.revisions[i])
    BY <1>2, <1>6 DEF Captured, mayDispatch, stepEligible
  <2>2. /\ enabled(s, i) /\ s.resources[i].epoch = a.steps[i].epoch
        /\ enabled(s, accountOf(s, i))
        /\ s.resources[accountOf(s, i)].epoch = a.steps[i].accountEpoch
    BY <1>2, <1>3, <1>4 DEF mayDispatch, stepEligible
  <2>3. a.steps[i].grant \in activeGrants(t, project, i)
                              \union activeGrants(t, project, accountOf(s, i))
    BY <1>3 DEF mayDispatch, stepEligible, savedGrants
  <2>4. savedGrants(s, project, i, a.steps[i].grant) # {}
    BY <1>2, <1>5, <2>3 DEF savedGrants
  <2> QED
    BY <2>1, <2>2, <2>4 DEF stepEligible, bothEnabled
<1> QED
  BY <1>7, <1>8 DEF mayDispatch

\* The authority captured for a delivery never comes back, whatever the
\* administrators give again (delivery/eligibility.ts).
THEOREM AuthorityIsNotRevived == Spec => NoRevival
<1> DEFINE Falls == \A i \in Instance :
                      /\ intent # None /\ intent' = intent
                      /\ i \in DOMAIN intent.steps
                      /\ mayDispatch(db', intent, i)
                      => mayDispatch(db, intent, i)
<1>1. AdministrationInv /\ [Next]_vars => Falls
  <2> SUFFICES ASSUME AdministrationInv, [Next]_vars, NEW i \in Instance,
                      intent # None, intent' = intent, i \in DOMAIN intent.steps,
                      mayDispatch(db', intent, i)
               PROVE  mayDispatch(db, intent, i)
    OBVIOUS
  <2>1. Captured(db, intent)
    BY DEF AdministrationInv, IntentOK
  <2> QED
    BY <2>1, TablesMove, AuthorityOnlyFalls
<1>2. AdministrationInv /\ [Next]_vars => [Falls]_vars
  BY <1>1
<1> QED
  BY <1>2, AdministrationHolds, PTL DEF Spec, NoRevival

\* What is admitted is what would be resolved at that moment, although the
\* route is resolved in an earlier transaction (delivery/service.ts).
THEOREM RouteIsStillResolved == Spec => AdmittedAsResolved
<1> DEFINE Still == intent = None /\ intent' # None =>
             \E r \in resolvePolicy(db) :
               /\ r.policyRevision = route.policyRevision
               /\ \A i \in DOMAIN route.steps :
                    i \in DOMAIN r.steps /\ r.steps[i] = route.steps[i]
<1>1. AdministrationInv /\ [Next]_vars => Still
  <2> SUFFICES ASSUME AdministrationInv, [Next]_vars, intent = None, intent' # None
               PROVE  \E r \in resolvePolicy(db) :
                        /\ r.policyRevision = route.policyRevision
                        /\ \A i \in DOMAIN route.steps :
                             i \in DOMAIN r.steps /\ r.steps[i] = route.steps[i]
    OBVIOUS
  <2>1. admitOperation
    BY DEF Next, vars, submit, cleanupAdminReceipts, execute, prepareRoute, dispatch,
           endDispatch, deleteOperation, storeReport, deleteReports, cleanupSecrets
  <2>2. /\ requireAccess(db) /\ revalidateRoute(db, route)
        /\ Tables(db) /\ Resolved(db, route)
    BY <2>1 DEF admitOperation, AdministrationInv, RouteOK
  <2>3. RevalidatedOK(db, route)
    BY <2>2, RouteRevalidated
  <2>4. ASSUME NEW i \in DOMAIN route.steps
        PROVE  i \in resolvedSteps(db) /\ resolvedStep(db, i) = route.steps[i]
    <3>1. /\ bothEnabled(db, i) /\ instanceGrants(db, project, i) # {}
          /\ resolvedStep(db, i) = route.steps[i]
          /\ revisionValid(db, i, route.steps[i].revision)
      BY <2>2, <2>3 DEF revalidateRoute, RevalidatedOK
    <3>2. route.steps[i].revision = db.resources[i].configurationRevision
      BY <3>1 DEF resolvedStep
    <3>3. i \in db.resources[policy].data.steps
      BY <2>2 DEF Resolved, revalidateRoute
    <3> QED
      BY <3>1, <3>2, <3>3 DEF resolvedSteps
  <2>5. ASSUME NEW i \in resolvedSteps(db) PROVE configured(db, accountOf(db, i))
    <3>1. policy \in Resource /\ db.resources[policy] \in ResourceRow
      BY <2>2, AdministrationAssumption DEF Tables, Types, Resource
    <3>2. i \in Instance /\ bothEnabled(db, i)
      BY <3>1 DEF resolvedSteps, ResourceRow, Data
    <3>3. accountOf(db, i) \in Account
      BY <2>2, <3>2, InstanceAccount DEF bothEnabled, enabled
    <3>4. /\ db.resources[accountOf(db, i)].state = "enabled"
          /\ CurrentOK(db, accountOf(db, i), "send", db.current[accountOf(db, i)]["send"])
          /\ db.current[accountOf(db, i)]["send"] # None
      BY <2>2, <3>2, <3>3 DEF bothEnabled, enabled, state, Tables, Secrets, Purpose
    <3> QED
      BY <3>4 DEF CurrentOK, configured, readable
  <2>6. /\ enabled(db, policy) /\ resolvedSteps(db) # {}
        /\ db.resources[policy].configurationRevision = route.policyRevision
        /\ revisionValid(db, policy, db.resources[policy].configurationRevision)
    BY <2>2, <2>4 DEF revalidateRoute, Resolved
  <2>7. PICK g \in activeGrants(db, project, policy) : TRUE
    BY <2>2 DEF revalidateRoute
  <2> DEFINE r == [policyRevision |-> db.resources[policy].configurationRevision,
                   policyEpoch |-> db.resources[policy].epoch,
                   policyGrant |-> g,
                   steps |-> [i \in resolvedSteps(db) |-> resolvedStep(db, i)],
                   grants |-> [i \in resolvedSteps(db) |->
                                 CHOOSE h \in instanceGrants(db, project, i) : TRUE]]
  <2>8. r \in resolvePolicy(db)
    BY <2>5, <2>6 DEF resolvePolicy
  <2>9. /\ r.policyRevision = route.policyRevision
        /\ \A i \in DOMAIN route.steps : i \in DOMAIN r.steps /\ r.steps[i] = route.steps[i]
    BY <2>4, <2>6
  <2> QED
    BY <2>8, <2>9
<1>2. AdministrationInv /\ [Next]_vars => [Still]_vars
  BY <1>1
<1> QED
  BY <1>2, AdministrationHolds, PTL DEF Spec, AdmittedAsResolved
=============================================================================
