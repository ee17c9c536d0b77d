SPECIFICATION Spec
CONSTANTS
  Attempt = {a1, a2}
  Required = {a1, a2}
  Worker = {w1}
  Idle = Idle
  JobsAreLost = TRUE
  MaxGeneration = 1
  MaxBlocks = 1
SYMMETRY Symmetry
INVARIANTS ProjectDenialVoidsApprovals
