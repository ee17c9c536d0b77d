SPECIFICATION MCSpec
CONSTANTS
  Account = {"a1", "a2"}
  Instance = {"i1", "i2"}
  Policy = {"p1"}
  Scope = {"s1"}
  Project = {"q1"}
  Principal = {"u1"}
  Actor = {"admin"}
  Key <- MCKey
  GrantId = {1, 2, 3, 4, 5, 6}
  VersionId = {1, 2, 3, 4, 5}
  None = None
  adapterOf <- MCAdapterOf
  actorOf <- MCActorOf
  Administrators <- MCAdministrators
  authorizationFloor = FALSE
  authorizer = FALSE
  project = "q1"
  policy = "p1"
  principal = "u1"
  Scenario <- MCScenario
  k1 = k1
  k2 = k2
  k3 = k3
  k4 = k4
  k5 = k5
  k6 = k6
INVARIANTS RequestsAreIdempotent SecretsOutliveUse
PROPERTIES NoRevival AdmittedAsResolved
CHECK_DEADLOCK FALSE
