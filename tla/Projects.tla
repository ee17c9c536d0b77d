------------------------------- MODULE Projects -------------------------------
(***************************************************************************)
(* The tables of project administration and the transactions over them:    *)
(* projects, the grants of the applications that may send for them, the    *)
(* audit log and the receipts.  Every mutation holds the lock of its       *)
(* project exclusively, so each is a function of the tables, the record s. *)
(*                                                                         *)
(* Two limits of a project are one number here.  The configuration of a    *)
(* process does not change, so the permissions that a replay checks again  *)
(* are those that the first execution had.                                 *)
(***************************************************************************)
EXTENDS Resources

CONSTANTS authorizationFloor,   \* no project may do without send authorization
          authorizer            \* whether a send authorizer is configured

ASSUME ProjectsAssumption == authorizationFloor \in BOOLEAN /\ authorizer \in BOOLEAN

Settings   == [authorizationRequired : BOOLEAN, sendLimit : Nat]
noSettings == [authorizationRequired |-> FALSE, sendLimit |-> 0]
ProjectState == {"absent", "active", "suspended", "retired"}
ProjectRow == [state : ProjectState, revision : Nat, sendEpoch : Nat, settings : Settings]
AccessRow  == [project : Project \union {None}, principal : Principal \union {None},
               revoked : BOOLEAN]

ProjectTransition == {"suspend", "reactivate", "retire"}
ProjectCreation == [action : {"create"}, id : Project, expectedRevision : Nat,
                    principals : {{}} \union {{p} : p \in Principal}, settings : Settings]
ProjectUpdate   == [action : {"update"}, id : Project, expectedRevision : Nat,
                    settings : Settings]
ProjectAccess   == [action : {"grant", "revoke"}, id : Project, expectedRevision : Nat,
                    principals : {{p} : p \in Principal}]
ProjectLife     == [action : ProjectTransition, id : Project, expectedRevision : Nat]
ProjectCommand  == ProjectCreation \union ProjectUpdate \union ProjectAccess
                     \union ProjectLife
ProjectSnapshot == [state : ProjectState, revision : Nat, settings : Settings,
                    grants : SUBSET GrantId]
ProjectReceipt  == [command : ProjectCommand, body : ProjectSnapshot]

noProject == [state |-> "absent", revision |-> 0, sendEpoch |-> 0, settings |-> noSettings]
noAccess  == [project |-> None, principal |-> None, revoked |-> FALSE]

accessGrants(s, project, principal) ==
  {g \in GrantId : /\ s.access[g].project = project
                   /\ s.access[g].principal = principal
                   /\ ~s.access[g].revoked}

projectSnapshot(s, project) ==
  [state |-> s.projects[project].state, revision |-> s.projects[project].revision,
   settings |-> s.projects[project].settings,
   grants |-> {g \in GrantId : s.access[g].project = project /\ ~s.access[g].revoked}]

-----------------------------------------------------------------------------
(***************************************************************************)
(* Permissions.                                                            *)
(***************************************************************************)
authorizeSettings(permissions, settings) ==
  /\ settings.sendLimit <= permissions.sendLimitCeiling
  /\ settings.authorizationRequired => authorizer
  /\ ~settings.authorizationRequired => ~authorizationFloor

authorizeSettingChanges(permissions, before, after) ==
  /\ before.authorizationRequired /\ ~after.authorizationRequired
       => permissions.mayDisableAuthorization
  /\ \A field \in {"authorizationRequired", "sendLimit"} :
       before[field] # after[field] => field \in permissions.editableSettings

authorizeCommand(permissions, c) ==
  /\ c.action \in permissions.actions
  /\ c.id \in permissions.projects
  /\ c.action \in {"create", "grant", "revoke"} => c.principals \subseteq permissions.principals
  /\ c.action \in {"create", "update"} => authorizeSettings(permissions, c.settings)
  /\ c.action = "create" =>
       /\ c.settings.authorizationRequired \/ permissions.mayDisableAuthorization
       /\ permissions.editableSettings = {"authorizationRequired", "sendLimit"}

-----------------------------------------------------------------------------
(***************************************************************************)
(* The changes.                                                            *)
(***************************************************************************)
unusedAccess(s) == {g \in GrantId : s.access[g].project = None}

addGrant(s, project, principal) ==
  LET g == CHOOSE g \in unusedAccess(s) : TRUE
  IN [s EXCEPT !.access[g] = [project |-> project, principal |-> principal, revoked |-> FALSE]]

revokeGrant(s, project, principal) ==
  [s EXCEPT !.access = [g \in GrantId |->
     IF g \in accessGrants(s, project, principal) THEN [s.access[g] EXCEPT !.revoked = TRUE]
     ELSE s.access[g]]]

nextState(c) ==
  CASE c.action = "suspend" -> "suspended" [] c.action = "reactivate" -> "active"
    [] c.action = "retire" -> "retired"

transitionProject(s, c) ==
  LET row   == s.projects[c.id]
      epoch == IF c.action = "reactivate" THEN row.sendEpoch ELSE row.sendEpoch + 1
  IN [s EXCEPT !.projects[c.id] = [row EXCEPT !.state = nextState(c), !.sendEpoch = epoch]]

thePrincipal(c) == CHOOSE principal \in c.principals : TRUE

changesProject(s, c) ==
  CASE c.action = "update" -> c.settings # s.projects[c.id].settings
    [] c.action = "grant"  -> accessGrants(s, c.id, thePrincipal(c)) = {}
    [] c.action = "revoke" -> accessGrants(s, c.id, thePrincipal(c)) # {}
    [] c.action \in ProjectTransition ->
         s.projects[c.id].state # nextState(c)

effectProject(s, c) ==
  CASE c.action = "update" -> [s EXCEPT !.projects[c.id].settings = c.settings]
    [] c.action = "grant"  -> addGrant(s, c.id, thePrincipal(c))
    [] c.action = "revoke" -> revokeGrant(s, c.id, thePrincipal(c))
    [] c.action \in ProjectTransition -> transitionProject(s, c)

\* Mutant: the revision that the administrator saw is not compared.
mayChangeProject_anyRevision(s, permissions, c) ==
  /\ projectExists(s, c.id)
  /\ c.action = "update" =>
       authorizeSettingChanges(permissions, s.projects[c.id].settings, c.settings)
  /\ c.action \in {"suspend", "reactivate"} => s.projects[c.id].state # "retired"
mayChangeProject(s, permissions, c) ==
  /\ projectExists(s, c.id)
  /\ s.projects[c.id].revision = c.expectedRevision
  /\ c.action = "update" =>
       authorizeSettingChanges(permissions, s.projects[c.id].settings, c.settings)
  /\ c.action \in {"suspend", "reactivate"} => s.projects[c.id].state # "retired"

adminEvent(s, actor, c) ==
  [s EXCEPT !.adminEvents[c.id] =
     Append(@, [revision |-> s.projects[c.id].revision, actor |-> actor, action |-> c.action])]

\* A project starts with at most one grant here.
createProject(s, c) ==
  LET created == [s EXCEPT !.projects[c.id] = [state |-> "active", revision |-> 1,
                                               sendEpoch |-> 1, settings |-> c.settings]]
  IN IF c.principals = {} THEN created ELSE addGrant(created, c.id, thePrincipal(c))

changeProject(s, actor, c) ==
  IF changesProject(s, c)
  THEN adminEvent([effectProject(s, c) EXCEPT !.projects[c.id].revision = @ + 1], actor, c)
  ELSE s

\* The whole transaction; a receipt replaces the execution.
mutateProject(s, key, c) ==
  LET actor       == actorOf[key]
      permissions == Administrators[actor]
      accepted    == IF c.action = "create" THEN ~projectExists(s, c.id)
                     ELSE mayChangeProject(s, permissions, c)
      t           == IF c.action = "create" THEN adminEvent(createProject(s, c), actor, c)
                     ELSE changeProject(s, actor, c)
  IN IF ~authorizeCommand(permissions, c) \/ s.adminReceipts[key] # None \/ ~accepted THEN s
     ELSE [t EXCEPT !.adminReceipts[key] = [command |-> c, body |-> projectSnapshot(t, c.id)]]
=============================================================================
