CONSTANTS
  Attempt = {a1, a2}
  NoAttempt = NoAttempt
  Id = {x, y}
  NoId = NoId
  Sender = {"n1", "n2"}
  Environment <- MCEnvironment
  Observed <- MCObserved
  CodeLength <- MCCodeLength
  RemainingMs <- MCRemainingMs
  MaxRevision = 2
  MaxReports = 2
  MaxBatch = 2
SPECIFICATION Spec
SYMMETRY Symmetry
INVARIANTS OwnReportsOnly CountedOnce EvidenceIsTrue
CHECK_DEADLOCK FALSE
