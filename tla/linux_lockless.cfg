SPECIFICATION LocklessFairSpec
CONSTANTS
  N = 9
  NULL = NULL
  PlainInOrder = TRUE
  Node <- MCNode
  Key <- TieInPlay
ACTION_CONSTRAINT PlayOrFill
CHECK_DEADLOCK FALSE
INVARIANTS
  NeverALoop
  OnlyValidElements
  VisibleCatchesUp
PROPERTIES
  ReaderCompletes
