SPECIFICATION Spec
CONSTANTS
  AttemptId = {a1, a2}
  NoAttempt = NoAttempt
  Worker = {w1, w2}
  NoJob = NoJob
  RouteLength = 2
  MaxSends = 2
  FallbackEnabled = TRUE
  MaxEpoch = 1
  MaxRevision = 4
SYMMETRY Symmetry
INVARIANTS AtMostOneSend NoninvocationIsTrue RowConstraints PendingIsCurrent
PROPERTIES NoFallbackAfterDelivery
