SPECIFICATION AugmentedCachedSpec
CONSTANTS
  N = 7
  NULL = NULL
  Node <- MCNode
  Key <- MCKey
  val <- MCVal
  Alone <- OwnMax
  OnPath <- OnPathMax
  Compute <- ComputeMax
  Rotated <- RotatedMax
  StopsEarly = TRUE
INVARIANTS
  AugmentedIsMax
  AugmentedCacheIsFirst
