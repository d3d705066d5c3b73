CONSTANTS
  N = 4
  NULL = NULL
  PlainInOrder = FALSE
  Node <- MCNode
  Key <- TieInPlay

SPECIFICATION LocklessSpec

INVARIANTS
  OnlyValidElements
