SPECIFICATION AugmentedSpec
CONSTANTS
  N = 7
  NULL = NULL
  Node <- MCNode
  Key <- PairedKeys
  Alone <- OwnSize
  OnPath <- OnPathSize
  Compute <- ComputeSize
  Rotated <- RotatedSize
  StopsEarly = FALSE
INVARIANTS
  SizesExact
  SelectAndRankAgree
