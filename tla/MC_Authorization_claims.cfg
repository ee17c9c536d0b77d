SPECIFICATION FairSpec
CONSTANTS
  Attempt = {a1}
  Required = {a1}
  Worker = {w1, w2}
  Idle = Idle
  JobsAreLost = TRUE
  MaxGeneration = 3
  MaxBlocks = 1
INVARIANTS AuthorityIsObeyed
PROPERTIES DecisionsAreFinal RequiredAttemptsSettle
