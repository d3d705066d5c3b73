SPECIFICATION TestFairSpec
CONSTANTS
  N = 5
  NULL = NULL
  Node <- MCNode
  Key <- PairedKeys
  perf_loops = 2
  check_loops = 2
CHECK_DEADLOCK FALSE
INVARIANTS
  ChecksPass
PROPERTIES
  TestCompletes
