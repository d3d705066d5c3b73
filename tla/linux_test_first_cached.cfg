SPECIFICATION TestSpec
CONSTANTS
  N = 4
  NULL = NULL
  Node <- MCNode
  Key <- PairedKeys
  perf_loops = 1
  check_loops = 1
INVARIANTS
  FetchesTheFirst
