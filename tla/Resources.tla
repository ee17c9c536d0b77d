------------------------------ MODULE Resources ------------------------------
(***************************************************************************)
(* The tables of runtime administration and the transactions over them:    *)
(* provider accounts, their instances, routing policies and allowance      *)
(* scopes, their revisions, the credentials of accounts, the assignments   *)
(* to projects, the audit log and the receipts of requests.                *)
(*                                                                         *)
(* A mutation holds the runtime lock exclusively and every reader holds it *)
(* shared, so each is a function of the tables, the record s.  A refused   *)
(* mutation rolls back.                                                    *)
(***************************************************************************)
EXTENDS Adapters, Sequences, FiniteSets

CONSTANTS Account, Instance, Policy, Scope,   \* the identifiers of each kind of resource
          Project,
          Principal,       \* the applications that may send for a project
          Actor,           \* the administrators
          Key,             \* request identities: an administrator and a key of its choice
          GrantId,         \* identifiers a grant can be given
          VersionId,       \* identifiers a credential version can be given
          None,            \* SQL NULL
          adapterOf,       \* the adapter of an account, part of its immutable identity
          actorOf,         \* the administrator of a request identity
          Administrators   \* what the configuration permits each administrator

Resource  == Account \union Instance \union Policy \union Scope
Purpose   == {"send", "callback"}
Lifecycle == Account \union Instance \union Policy
Versioned == Instance \union Policy

ResourceState == {"disabled", "enabled", "retired"}
RuntimePermission == {"manage", "policy", "rotate", "assign"}
RuntimeAction == {"create", "update", "lifecycle", "rotate", "revoke-secret", "invalidate",
                  "grant", "revoke"}
AdminAction == {"create", "update", "grant", "revoke", "suspend", "reactivate", "retire"}
Permissions == [runtimeActions : SUBSET RuntimePermission, resources : SUBSET Resource,
                actions : SUBSET AdminAction, projects : SUBSET Project,
                principals : SUBSET Principal,
                editableSettings : SUBSET {"authorizationRequired", "sendLimit"},
                sendLimitCeiling : Nat, mayDisableAuthorization : BOOLEAN]

ASSUME ResourcesAssumption ==
  /\ Account \intersect Instance = {} /\ Account \intersect Policy = {}
  /\ Account \intersect Scope = {} /\ Instance \intersect Policy = {}
  /\ Instance \intersect Scope = {} /\ Policy \intersect Scope = {}
  /\ None \notin Account /\ None \notin GrantId /\ None \notin VersionId
  /\ adapterOf \in [Account -> Adapter]
  /\ actorOf \in [Key -> Actor]
  /\ Administrators \in [Actor -> Permissions]

(***************************************************************************)
(* What is configured: the account of an instance, the steps of a policy,  *)
(* and in ms the send timeout of an instance, the lifetime of a policy or  *)
(* the limit of a scope.  Order of steps and formats are left out.         *)
(***************************************************************************)
Data == [account : Account \union {None}, steps : SUBSET Instance, ms : Nat,
         scopes : SUBSET Scope]
noData == [account |-> None, steps |-> {}, ms |-> 0, scopes |-> {}]

ResourceRow == [exists : BOOLEAN, revision : Nat, configurationRevision : Nat, epoch : Nat,
                state : ResourceState, data : Data]
VersionRow  == [account : Account \union {None}, purpose : Purpose, revoked : BOOLEAN,
                readable : BOOLEAN]
GrantRow    == [project : Project \union {None}, resource : Resource \union {None},
                revoked : BOOLEAN]
AuditEvent  == [revision : Nat, actor : Actor, action : RuntimeAction \union AdminAction]

(***************************************************************************)
(* Commands.  All but a creation bear the revision its author expects.     *)
(* Only an instance names an account, and only an account brings a first   *)
(* instance.                                                               *)
(***************************************************************************)
First == [id : Instance, ms : Nat, scopes : SUBSET Scope]

Creation ==
  {c \in [action : {"create"}, id : Resource, data : Data, first : SUBSET First,
          expectedRevision : Nat] :
     /\ (c.id \in Instance) <=> (c.data.account # None)
     /\ c.first # {} => c.id \in Account}
Update == [action : {"update"}, id : Versioned \union Scope, steps : SUBSET Instance, ms : Nat,
           expectedRevision : Nat]
Transition == [action : {"lifecycle"}, id : Lifecycle, state : ResourceState,
               expectedRevision : Nat]
Rotation == [action : {"rotate"}, id : Account, purpose : Purpose, expectedRevision : Nat]
Revocation == [action : {"revoke-secret"}, id : Account, version : VersionId \union {None},
               expectedRevision : Nat]
Invalidation == [action : {"invalidate"}, id : Versioned, revision : Nat,
                 expectedRevision : Nat]
Assignment == [action : {"grant", "revoke"}, id : Lifecycle, project : Project,
               expectedRevision : Nat]
RuntimeCommand == Creation \union Update \union Transition \union Rotation \union Revocation
                    \union Invalidation \union Assignment
PublicResource == [row : ResourceRow, current : [Purpose -> VersionId \union {None}]]
Receipt        == [command : RuntimeCommand, body : PublicResource]

absent     == [exists |-> FALSE, revision |-> 0, configurationRevision |-> 0, epoch |-> 1,
               state |-> "disabled", data |-> noData]
noVersion  == [account |-> None, purpose |-> "send", revoked |-> FALSE, readable |-> FALSE]
noGrant    == [project |-> None, resource |-> None, revoked |-> FALSE]

-----------------------------------------------------------------------------
(***************************************************************************)
(* Reading the tables.                                                     *)
(***************************************************************************)
exists(s, id)  == s.resources[id].exists
state(s, id)   == s.resources[id].state
enabled(s, id) == exists(s, id) /\ state(s, id) = "enabled"
projectExists(s, project) == s.projects[project].state # "absent"
accountOf(s, i) == s.resources[i].data.account

activeGrants(s, project, id) ==
  {g \in GrantId : /\ s.grants[g].project = project
                   /\ s.grants[g].resource = id
                   /\ ~s.grants[g].revoked}

\* The active grant of the instance, or else that of its account.
instanceGrants(s, project, i) ==
  IF activeGrants(s, project, i) # {} THEN activeGrants(s, project, i)
  ELSE activeGrants(s, project, accountOf(s, i))

\* With a saved grant, that grant alone counts.
savedGrants(s, project, i, saved) ==
  {saved} \intersect (activeGrants(s, project, i)
                        \union activeGrants(s, project, accountOf(s, i)))

bothEnabled(s, i) == enabled(s, i) /\ enabled(s, accountOf(s, i))

revisionValid(s, id, revision) ==
  /\ \E row \in s.revisions : row.id = id /\ row.revision = revision
  /\ [id |-> id, revision |-> revision] \notin s.invalidated

readable(s, v) == v # None /\ s.versions[v].readable /\ ~s.versions[v].revoked
\* providerConfiguration: the account's current send credential can be read.
configured(s, a) == readable(s, s.current[a]["send"])

publicResource(s, id) == [row |-> s.resources[id],
                          current |-> IF id \in Account THEN s.current[id]
                                      ELSE [p \in Purpose |-> None]]

-----------------------------------------------------------------------------
(***************************************************************************)
(* Permissions and validation.                                             *)
(***************************************************************************)
runtimeScoped(actor, id) == id \in Administrators[actor].resources
authorizeRuntime(actor, permission, id) ==
  permission \in Administrators[actor].runtimeActions /\ runtimeScoped(actor, id)

commandPermission(c) ==
  CASE c.action \in {"grant", "revoke"}         -> "assign"
    [] c.action \in {"rotate", "revoke-secret"} -> "rotate"
    [] c.action \in {"create", "update", "lifecycle", "invalidate"} ->
         IF c.id \in Policy THEN "policy" ELSE "manage"

mayMutate(actor, c) ==
  /\ authorizeRuntime(actor, commandPermission(c), c.id)
  /\ c.action = "create" =>
       /\ \A first \in c.first : runtimeScoped(actor, first.id)
       /\ c.id \in Instance => authorizeRuntime(actor, "manage", c.data.account)
       /\ \A scope \in c.data.scopes \union UNION {first.scopes : first \in c.first} :
            authorizeRuntime(actor, "manage", scope)
  /\ c.action \in {"grant", "revoke"} => c.project \in Administrators[actor].projects

validateInstance(s, data) ==
  exists(s, data.account) /\ state(s, data.account) # "retired"

\* A step must be able to send within the lifetime the policy gives.
validatePolicy(s, data) ==
  /\ data.steps # {}
  /\ \A i \in data.steps :
       /\ exists(s, i)
       /\ deliveryWindowFits(
            [minDeliveryWindowMs |-> constraints[adapterOf[accountOf(s, i)]].minDeliveryWindowMs,
             sendTimeoutMs |-> s.resources[i].data.ms], data.ms)

validateData(s, id, data) ==
  /\ id \in Instance => validateInstance(s, data)
  /\ id \in Policy => validatePolicy(s, data)
  /\ \A scope \in data.scopes : exists(s, scope)

validateEnable(s, id) ==
  /\ validateData(s, id, s.resources[id].data)
  /\ id \in Account => s.current[id]["send"] # None
  /\ id \in Instance => configured(s, accountOf(s, id))

-----------------------------------------------------------------------------
(***************************************************************************)
(* The changes.                                                            *)
(***************************************************************************)
insertResource(s, actor, id, data) ==
  [s EXCEPT !.resources[id] = [exists |-> TRUE, revision |-> 1, configurationRevision |-> 1,
                               epoch |-> 1, state |-> "disabled", data |-> data],
            !.revisions = s.revisions \union
              (IF id \in Versioned THEN {[id |-> id, revision |-> 1, data |-> data]} ELSE {}),
            !.events[id] = Append(@, [revision |-> 1, actor |-> actor, action |-> "create"])]

updateResource(s, c) ==
  LET row  == s.resources[c.id]
      next == row.revision + 1
      data == [row.data EXCEPT !.steps = c.steps, !.ms = c.ms]
      configuration == IF c.id \in Versioned THEN next ELSE row.configurationRevision
  IN [s EXCEPT !.resources[c.id] = [row EXCEPT !.data = data,
                                               !.configurationRevision = configuration],
               !.revisions = s.revisions \union
                 (IF c.id \in Versioned THEN {[id |-> c.id, revision |-> next, data |-> data]}
                  ELSE {})]

\* Mutant: only retirement ends the lifetime of the captured authority.
transitionResource_retireOnly(s, c) ==
  LET row   == s.resources[c.id]
      epoch == IF c.state = "retired" THEN row.epoch + 1 ELSE row.epoch
  IN [s EXCEPT !.resources[c.id] = [row EXCEPT !.state = c.state, !.epoch = epoch]]
transitionResource(s, c) ==
  LET row   == s.resources[c.id]
      epoch == IF c.state = "enabled" THEN row.epoch ELSE row.epoch + 1
  IN [s EXCEPT !.resources[c.id] = [row EXCEPT !.state = c.state, !.epoch = epoch]]

unusedVersions(s) == {v \in VersionId : s.versions[v].account = None}
unusedGrants(s)   == {g \in GrantId : s.grants[g].project = None}

rotateSecret(s, c) ==
  LET v == CHOOSE v \in unusedVersions(s) : TRUE
  IN [s EXCEPT !.versions[v] = [account |-> c.id, purpose |-> c.purpose, revoked |-> FALSE,
                                readable |-> TRUE],
               !.current[c.id][c.purpose] = v]

revokeSecret(s, c) ==
  [s EXCEPT !.versions[c.version].revoked = TRUE,
            !.current[c.id]["callback"] = IF @ = c.version THEN None ELSE @]

invalidateRevision(s, c) ==
  [s EXCEPT !.invalidated = @ \union {[id |-> c.id, revision |-> c.revision]}]

addAssignment(s, c) ==
  LET g == CHOOSE g \in unusedGrants(s) : TRUE
  IN [s EXCEPT !.grants[g] = [project |-> c.project, resource |-> c.id, revoked |-> FALSE]]

revokeAssignment(s, c) ==
  [s EXCEPT !.grants = [g \in GrantId |->
     IF g \in activeGrants(s, c.project, c.id) THEN [s.grants[g] EXCEPT !.revoked = TRUE]
     ELSE s.grants[g]]]

\* What a command that is not refused needs, the expected revision apart.
permits(s, c) ==
  LET retired == state(s, c.id) = "retired" /\ c.id \notin Scope
  IN CASE c.action = "update" ->
            ~retired /\ validateData(s, c.id, [s.resources[c.id].data EXCEPT
                                                 !.steps = c.steps, !.ms = c.ms])
       [] c.action = "lifecycle" ->
            \/ c.state = state(s, c.id)
            \/ ~retired /\ (c.state = "enabled" => validateEnable(s, c.id))
       [] c.action = "rotate" -> ~retired
       [] c.action = "grant"  -> projectExists(s, c.project) /\ ~retired
       [] c.action = "revoke" -> projectExists(s, c.project)
       [] c.action \in {"revoke-secret", "invalidate"} -> TRUE

\* A command that finds things as it wants them changes nothing.
changes(s, c) ==
  CASE c.action = "update" ->
         c.steps # s.resources[c.id].data.steps \/ c.ms # s.resources[c.id].data.ms
    [] c.action = "lifecycle" -> c.state # state(s, c.id)
    [] c.action = "rotate"    -> TRUE
    [] c.action = "revoke-secret" ->
         /\ c.version # None
         /\ s.versions[c.version].account = c.id
         /\ s.versions[c.version].purpose = "callback"
         /\ ~s.versions[c.version].revoked
    [] c.action = "invalidate" -> revisionValid(s, c.id, c.revision)
    [] c.action = "grant"      -> activeGrants(s, c.project, c.id) = {}
    [] c.action = "revoke"     -> activeGrants(s, c.project, c.id) # {}

effect(s, c) ==
  CASE c.action = "update"        -> updateResource(s, c)
    [] c.action = "lifecycle"     -> transitionResource(s, c)
    [] c.action = "rotate"        -> rotateSecret(s, c)
    [] c.action = "revoke-secret" -> revokeSecret(s, c)
    [] c.action = "invalidate"    -> invalidateRevision(s, c)
    [] c.action = "grant"         -> addAssignment(s, c)
    [] c.action = "revoke"        -> revokeAssignment(s, c)

\* Every change is one revision of the resource and one audit event.
audited(s, actor, c) ==
  LET row  == s.resources[c.id]
      next == row.revision + 1
  IN [s EXCEPT !.resources[c.id] = [row EXCEPT !.revision = next],
               !.events[c.id] = Append(@, [revision |-> next, actor |-> actor,
                                           action |-> c.action])]

firstData(c, first) == [account |-> c.id, steps |-> {}, ms |-> first.ms, scopes |-> first.scopes]
createResource(s, actor, c) ==
  LET created == insertResource(s, actor, c.id, c.data)
  IN IF c.first = {} THEN created
     ELSE LET first == CHOOSE first \in c.first : TRUE
          IN insertResource(created, actor, first.id, firstData(c, first))

mayCreate(s, c) ==
  /\ ~exists(s, c.id)
  /\ validateData(s, c.id, c.data)
  /\ \A first \in c.first : /\ ~exists(s, first.id)
                            /\ \A scope \in first.scopes : exists(s, scope)

mayChange(s, c) ==
  /\ exists(s, c.id)
  /\ s.resources[c.id].revision = c.expectedRevision
  /\ permits(s, c)

changeResource(s, actor, c) ==
  IF changes(s, c) THEN audited(effect(s, c), actor, c) ELSE s

\* The whole transaction; a receipt replaces the execution.
mutateRuntime(s, key, c) ==
  LET t == IF c.action = "create" THEN createResource(s, actorOf[key], c)
           ELSE changeResource(s, actorOf[key], c)
      accepted == IF c.action = "create" THEN mayCreate(s, c) ELSE mayChange(s, c)
  IN IF ~mayMutate(actorOf[key], c) \/ s.receipts[key] # None \/ ~accepted THEN s
     ELSE [t EXCEPT !.receipts[key] = [command |-> c, body |-> publicResource(t, c.id)]]

-----------------------------------------------------------------------------
(***************************************************************************)
(* The credentials that are no longer of use are erased.                   *)
(***************************************************************************)
\* Mutant: a callback credential is kept for saved routes only.
superfluous_routesOnly(s, v, use) ==
  LET row == s.versions[v] IN
  /\ row.readable
  /\ ~(state(s, row.account) # "retired" /\ s.current[row.account][row.purpose] = v)
  /\ \/ row.purpose = "send" /\ v \notin use.dispatching
     \/ row.purpose = "callback" /\ (row.revoked \/ row.account \notin use.routes)
superfluous(s, v, use) ==
  LET row == s.versions[v] IN
  /\ row.readable
  /\ ~(state(s, row.account) # "retired" /\ s.current[row.account][row.purpose] = v)
  /\ \/ row.purpose = "send" /\ v \notin use.dispatching
     \/ /\ row.purpose = "callback"
        /\ row.revoked \/ row.account \notin use.routes \union use.inbox

cleanupRuntimeSecrets(s, use) ==
  [s EXCEPT !.versions = [v \in VersionId |->
     [s.versions[v] EXCEPT !.readable = @ /\ ~superfluous(s, v, use)]]]
=============================================================================
