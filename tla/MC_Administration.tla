-------------------------- MODULE MC_Administration --------------------------
(***************************************************************************)
(* Behaviours that start from a provisioned deployment: the state after    *)
(* the requests of Provisioning, executed one after the other.             *)
(***************************************************************************)
EXTENDS Administration, SequencesExt

CONSTANTS k1, k2, k3, k4, k5, k6

MCKey     == {k1, k2, k3, k4, k5, k6}
MCActorOf == [k \in MCKey |-> "admin"]
MCAdapterOf == [a \in {"a1", "a2"} |-> IF a = "a1" THEN "telegram" ELSE "meta"]
MCAdministrators ==
  [actor \in {"admin"} |->
     [runtimeActions |-> RuntimePermission, resources |-> {"a1", "a2", "i1", "i2", "p1", "s1"},
      actions |-> AdminAction, projects |-> {"q1"}, principals |-> {"u1"},
      editableSettings |-> {"authorizationRequired", "sendLimit"},
      sendLimitCeiling |-> 5, mayDisableAuthorization |-> TRUE]]

dataOf(account, steps, ms, scopes) ==
  [account |-> account, steps |-> steps, ms |-> ms, scopes |-> scopes]
create(id, data, first) ==
  [action |-> "create", id |-> id, data |-> data, first |-> first, expectedRevision |-> 0]
update(id, steps, ms) ==
  [action |-> "update", id |-> id, steps |-> steps, ms |-> ms, expectedRevision |-> 0]
lifecycle(id, st) ==
  [action |-> "lifecycle", id |-> id, state |-> st, expectedRevision |-> 0]
rotate(id, purpose) ==
  [action |-> "rotate", id |-> id, purpose |-> purpose, expectedRevision |-> 0]
revokeVersion(id, v) ==
  [action |-> "revoke-secret", id |-> id, version |-> v, expectedRevision |-> 0]
invalidate(id, revision) ==
  [action |-> "invalidate", id |-> id, revision |-> revision, expectedRevision |-> 0]
assign(action, id) ==
  [action |-> action, id |-> id, project |-> "q1", expectedRevision |-> 0]
createQ == [action |-> "create", id |-> "q1", principals |-> {"u1"}, expectedRevision |-> 0,
            settings |-> [authorizationRequired |-> FALSE, sendLimit |-> 5]]
updateQ(limit) == [action |-> "update", id |-> "q1", expectedRevision |-> 0,
                   settings |-> [authorizationRequired |-> FALSE, sendLimit |-> limit]]
accessQ(action) == [action |-> action, id |-> "q1", principals |-> {"u1"}, expectedRevision |-> 0]
stateQ(action)  == [action |-> action, id |-> "q1", expectedRevision |-> 0]

Provisioning ==
  << create("s1", dataOf(None, {}, 9, {}), {}),
     create("a1", dataOf(None, {}, 0, {"s1"}), {[id |-> "i1", ms |-> 5000, scopes |-> {}]}),
     rotate("a1", "send"), rotate("a1", "callback"),
     lifecycle("a1", "enabled"), lifecycle("i1", "enabled"),
     create("p1", dataOf(None, {"i1"}, 60000, {}), {}), lifecycle("p1", "enabled"),
     createQ, assign("grant", "p1"), assign("grant", "a1") >>

\* Their receipts bear keys that are not used again.
provision(s, command) ==
  LET request == [key |-> k1, command |-> [command EXCEPT !.expectedRevision =
                                             IF command.action = "create" THEN 0
                                             ELSE revisionOf(s, command.id)]]
  IN [executed(s, request) EXCEPT !.receipts[k1] = None, !.adminReceipts[k1] = None]

Provisioned == FoldLeft(provision, emptyTables, Provisioning)

MCInit ==
  /\ db = Provisioned
  /\ scenario \in Scenario
  /\ sent = {}
  /\ route = None
  /\ intent = None
  /\ use = [dispatching |-> {}, routes |-> {}, inbox |-> {}]
  /\ effects = {}
  /\ repeated = FALSE
  /\ answers = {}
  /\ promised = [a \in Account |-> {}]

MCSpec == MCInit /\ [][Next]_vars

\* The commands explored together.
only(f) == [k \in MCKey |-> IF k \in DOMAIN f THEN f[k] ELSE {}]
MCScenario == {
  \* a project comes and goes
  only(k1 :> {stateQ("suspend")} @@ k2 :> {stateQ("reactivate")}
       @@ k3 :> {updateQ(3)} @@ k4 :> {stateQ("retire")}),
  \* so does the access of its application
  only(k1 :> {accessQ("revoke")} @@ k2 :> {accessQ("grant")} @@ k3 :> {accessQ("grant")}
       @@ k4 :> {createQ}),
  \* so do an account and an instance, and their assignments
  only(k1 :> {lifecycle("a1", "disabled")} @@ k2 :> {lifecycle("a1", "enabled")}
       @@ k3 :> {lifecycle("i1", "disabled")} @@ k4 :> {lifecycle("i1", "enabled")}),
  only(k1 :> {assign("revoke", "a1")} @@ k2 :> {assign("grant", "i1")}
       @@ k3 :> {assign("grant", "a1")} @@ k4 :> {assign("revoke", "i1")}),
  \* so does a policy; its configuration changes and is invalidated
  only(k1 :> {lifecycle("p1", "disabled")} @@ k2 :> {lifecycle("p1", "enabled")}
       @@ k3 :> {update("p1", {"i1"}, 90000)} @@ k4 :> {invalidate("p1", 1)}),
  only(k1 :> {update("i1", {}, 6000)} @@ k2 :> {invalidate("i1", 1)}
       @@ k3 :> {update("s1", {}, 8)} @@ k4 :> {assign("revoke", "p1")}
       @@ k5 :> {assign("grant", "p1")}),
  \* credentials
  only(k1 :> {rotate("a1", "send")} @@ k2 :> {rotate("a1", "callback")}
       @@ k3 :> {revokeVersion("a1", 2)} @@ k4 :> {lifecycle("a1", "retired")}),
  \* a second account joins
  only(k1 :> {create("a2", dataOf(None, {}, 0, {}), {[id |-> "i2", ms |-> 1000, scopes |-> {"s1"}]})}
       @@ k2 :> {rotate("a2", "send")} @@ k3 :> {lifecycle("a2", "enabled")}
       @@ k4 :> {lifecycle("i2", "enabled")} @@ k5 :> {update("p1", {"i1", "i2"}, 60000)}
       @@ k6 :> {assign("grant", "i2")}),
  \* one key for two commands
  only(k1 :> {updateQ(3), updateQ(4)} @@ k2 :> {updateQ(5)}
       @@ k3 :> {update("p1", {"i1"}, 70000), lifecycle("p1", "retired")}) }
=============================================================================
