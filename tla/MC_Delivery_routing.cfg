SPECIFICATION FairSpec
CONSTANTS
  AttemptId = {a1, a2, a3}
  NoAttempt = NoAttempt
  Worker = {w1}
  NoJob = NoJob
  RouteLength = 2
  MaxSends = 2
  FallbackEnabled = TRUE
  MaxEpoch = 0
  MaxRevision = 2
INVARIANTS FallbackOnlyAfterFailure RouteMovesForward
PROPERTIES NoAttemptHangs ImplementsContract InvalidRecipientIsPermanent DeadlineAndTerminalAreFinal
