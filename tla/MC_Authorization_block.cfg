SPECIFICATION Spec
CONSTANTS
  Attempt = {a1, a2}
  Required = {a1}
  Worker = {w1}
  Idle = Idle
  JobsAreLost = FALSE
  MaxGeneration = 1
  MaxBlocks = 1
INVARIANTS BlockOnlyDelays
